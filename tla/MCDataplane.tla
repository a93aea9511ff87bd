---------------------------- MODULE MCDataplane ----------------------------
(***************************************************************************)
(* Worlds for Dataplane: each puts a few runners next to the objects they  *)
(* share, and lets the informers deliver some changes.                     *)
(***************************************************************************)
EXTENDS Dataplane

Objs(s) == [k \in {s[i][1] : i \in DOMAIN s} |->
                s[CHOOSE i \in DOMAIN s : s[i][1] = k][2]]

(* The objects there at the start, the changes, the restarts.  In every    *)
(* world any one system call may fail.                                     *)
World(runners, there, changes, restarts, traffic0) ==
    LET keys == {x[1] : x \in Range(there) \cup Range(changes)}
        kinds == {k[1] : k \in keys}
    IN  [runners |-> runners,
         cached |-> [k \in keys |-> IF k \in DOMAIN Objs(there) THEN Objs(there)[k] ELSE None],
         feed |-> [kind \in {x[1][1] : x \in Range(changes)} |->
            LET mine == SelectSeq(changes, LAMBDA x : x[1][1] = kind)
            IN  [i \in DOMAIN mine |-> [key |-> mine[i][1], obj |-> mine[i][2]]]],
         calls |-> 1, restarts |-> restarts, traffic |-> traffic0]

Quiet == [clients |-> {}, frames |-> {}, learned |-> {}, mirrors |-> {}, ticks |-> 0]

vpc == <<"Vpc", "v">>
subnet == <<"Subnet", "s">>
main == <<"RouteTable", "main">>
acl == <<"NetworkACL", "a">>
net == <<"ExternalNetwork", "x">>
seg == <<"L2Network", "l">>
Ep(n) == <<"NetworkEndpoint", n>>

V(id) == [id |-> id, main |-> main, enabled |-> TRUE, consume |-> TRUE]
S(id) == [id |-> id, vpc |-> vpc, table |-> NoKey, gw |-> "gw", dns |-> "dns", acl |-> acl,
          aclID |-> 0]
RT(id, routes) == [id |-> id, vpc |-> vpc, routes |-> routes]
Route(dst, via, to) == [dst |-> dst, via |-> via, to |-> to, subnet |-> subnet]
X(id) == [id |-> id, type |-> "arp"]
L(id, gw) == [id |-> id, vpc |-> vpc, gateway |-> gw # "", gw |-> gw,
              mac |-> IF gw = "" THEN "" ELSE "m0", table |-> NoKey, acl |-> acl, aclID |-> 0]
Local(on, addr, mac, ifindex) ==
    [net |-> on, node |-> Self, ip |-> "ip1", addr |-> addr, mac |-> mac, ifindex |-> ifindex,
     host |-> "h"]
Remote(on, addr, mac, ip) ==
    [net |-> on, node |-> "n2", ip |-> ip, addr |-> addr, mac |-> mac, ifindex |-> 0, host |-> "h"]

(* Endpoints that are attached late, get another veth, and go. *)
EndpointWorlds ==
    LET a0 == Local(subnet, "a", "ma", 0)
        x0 == Local(net, "e", "me", 9)
    IN  {World({"arp", "fdb"}, <<<<subnet, S(5)>>>>,
               <<<<Ep("a"), a0>>, <<Ep("a"), [a0 EXCEPT !.ifindex = 7]>>, <<Ep("a"), None>>>>,
               0, Quiet),
         World({"fdb", "subnet"}, <<<<vpc, V(1)>>, <<main, RT(1, {})>>, <<subnet, S(5)>>>>,
               <<<<Ep("r"), Remote(subnet, "r", "mr", "")>>,
                 <<Ep("r"), Remote(subnet, "r", "mr", "ip2")>>,
                 <<acl, [id |-> 4]>>, <<subnet, [S(5) EXCEPT !.aclID = 4]>>>>, 0, Quiet),
         World({"pod-iface", "arp"}, <<<<subnet, S(5)>>, <<net, X(0)>>, <<Ep("x"), x0>>>>,
               <<<<net, X(8)>>, <<Ep("a"), [a0 EXCEPT !.ifindex = 7]>>,
                 <<Ep("a"), [a0 EXCEPT !.ifindex = 6]>>, <<Ep("x"), None>>>>, 0, Quiet),
         World({"pod-attacher"}, <<>>,
               <<<<Ep("a"), [a0 EXCEPT !.ifindex = 7]>>, <<Ep("a"), [a0 EXCEPT !.ifindex = 6]>>,
                 <<Ep("b"), Local(seg, "b", "mb", 3)>>, <<Ep("a"), None>>>>, 0, Quiet),
         World({"pod-attacher", "pod-iface"}, <<<<subnet, S(5)>>>>,
               <<<<Ep("a"), a0>>, <<Ep("a"), [a0 EXCEPT !.ifindex = 7]>>>>, 1, Quiet)}

(* The gate: up to four runners ask for the same addresses. *)
GateWorlds ==
    LET arp == <<"ARPAdvertisement", "arp">>
        bgp == <<"BGPAdvertisement", "bgp">>
        pool == <<"AddressPool", "p">>
        nat == <<"ExternalNetworkAttachment", "x.n1">>
        answer(node) == [net |-> net, addr |-> "e", node |-> node]
        advert(node) == [pools |-> {pool}, node |-> node, prefix |-> "e"]
        P(prefixes) == [bgp |-> TRUE, prefixes |-> prefixes]
    IN  {World({"elastic-ip-direct", "external-arp", "bgp-pool"},
               <<<<net, X(0)>>, <<pool, P({"e", "f"})>>>>,
               <<<<Ep("x"), Local(net, "e", "me", 9)>>, <<arp, answer(Self)>>, <<bgp, advert("n2")>>,
                 <<net, X(8)>>, <<Ep("x"), None>>, <<arp, answer("n2")>>>>, 0, Quiet),
         World({"elastic-ip-direct"}, <<<<net, X(8)>>, <<Ep("x"), Local(net, "e", "me", 9)>>>>,
               <<<<Ep("y"), Remote(net, "e", "my", "ip2")>>, <<Ep("x"), None>>,
                 <<Ep("y"), Remote(net, "f", "my", "ip2")>>>>, 0, Quiet),
         World({"elastic-ip-direct", "external-arp"}, <<<<net, X(0)>>>>,
               <<<<Ep("x"), Local(net, "e", "me", 9)>>, <<net, X(8)>>, <<arp, answer(Self)>>,
                 <<arp, [answer(Self) EXCEPT !.addr = "f"]>>>>, 0, Quiet),
         World({"napt", "bgp-pool"},
               <<<<pool, P({"q"})>>, <<nat, [net |-> net, node |-> Self, ip |-> "q"]>>>>,
               <<<<bgp, advert(Self)>>, <<pool, P({"f"})>>,
                 <<<<"NATGateway", "g">>, [id |-> 0, net |-> net]>>,
                 <<<<"NATGateway", "g">>, [id |-> 6, net |-> net]>>, <<bgp, None>>>>, 0, Quiet),
         World({"napt", "external-arp"},
               <<<<net, X(8)>>, <<<<"NATGateway", "g">>, [id |-> 6, net |-> net]>>,
                 <<arp, [answer(Self) EXCEPT !.addr = "q"]>>,
                 <<nat, [net |-> net, node |-> Self, ip |-> "q"]>>>>,
               <<<<arp, None>>, <<nat, None>>>>, 1, Quiet)}

(* Routes whose targets get their numbers later, through other informers. *)
RouteWorlds ==
    LET gate == <<"NATGateway", "g">>
        hub == <<"TransitGatewayRouteTable", "t">>
        eip == <<"ElasticIPAttachment", "a">>
        snat == <<"ServiceNATAttachment", "v.n1">>
        node(n) == <<"Node", n>>
        routes == {Route("d1", "connected", subnet), Route("d2", "natGateway", gate),
                   Route("d3", "transitGateway", hub), Route("d4", "l2network", seg),
                   Route("d5", "endpoint", Ep("a")), Route("d6", "blackhole", NoKey)}
        attached(pod) == [attached |-> TRUE, eip |-> "e", pod |-> pod, node |-> Self, nic |-> "a"]
        nowhere == [attached |-> FALSE, eip |-> "", pod |-> "", node |-> "", nic |-> "a"]
    IN  {World({"fib", "subnet"},
               <<<<vpc, V(1)>>, <<gate, [id |-> 6, net |-> net]>>, <<main, RT(2, routes)>>>>,
               <<<<subnet, [S(5) EXCEPT !.gw = ""]>>, <<subnet, S(5)>>,
                 <<seg, L(0, "")>>, <<seg, L(20, "")>>,
                 <<Ep("a"), Local(subnet, "a", "ma", 7)>>>>, 0, Quiet),
         World({"fib", "tgw-fib"}, <<<<vpc, V(1)>>, <<main, RT(2, routes)>>>>,
               <<<<hub, [id |-> 0, routes |-> {}]>>,
                 <<hub, [id |-> 30, routes |-> {Route("d1", "connected", subnet)}]>>,
                 <<subnet, S(5)>>, <<hub, None>>, <<main, RT(3, {})>>>>, 0, Quiet),
         World({"subnet", "arp"}, <<<<vpc, V(1)>>, <<main, RT(2, {})>>, <<subnet, S(5)>>>>,
               <<<<subnet, [S(5) EXCEPT !.dns = "dns2"]>>, <<main, RT(4, {})>>,
                 <<Ep("a"), Local(subnet, "a", "ma", 7)>>, <<Ep("a"), None>>, <<subnet, None>>>>,
               0, Quiet),
         World({"nat"}, <<<<subnet, S(5)>>>>,
               <<<<eip, attached("a")>>, <<eip, attached("b")>>,
                 <<<<"NetworkInterface", "a">>, [net |-> subnet, pod |-> "a"]>>>>, 0, Quiet),
         World({"nat"}, <<<<subnet, S(5)>>, <<Ep("a"), Local(subnet, "a", "ma", 7)>>>>,
               <<<<eip, attached("a")>>, <<eip, [attached("a") EXCEPT !.eip = "f"]>>,
                 <<eip, [attached("a") EXCEPT !.node = "n2"]>>, <<eip, nowhere>>>>, 1, Quiet),
         World({"node-underlay", "service_nat"}, <<>>,
               <<<<node("n1"), [ips |-> {"u1"}]>>, <<node("n2"), [ips |-> {"u2"}]>>,
                 <<node("n1"), [ips |-> {"u3"}]>>, <<node("n2"), None>>,
                 <<snat, [node |-> Self, vpc |-> vpc, ip |-> ""]>>,
                 <<snat, [node |-> Self, vpc |-> vpc, ip |-> "sn"]>>,
                 <<vpc, V(0)>>, <<vpc, V(1)>>>>, 0, Quiet),
         World({"service_nat"}, <<<<vpc, V(1)>>>>,
               <<<<snat, [node |-> Self, vpc |-> vpc, ip |-> "sn"]>>,
                 <<snat, [node |-> Self, vpc |-> vpc, ip |-> ""]>>,
                 <<snat, [node |-> Self, vpc |-> vpc, ip |-> "sm"]>>, <<snat, None>>>>, 0, Quiet),
         World({"fib"}, <<<<vpc, V(1)>>, <<main, RT(2, {Route("d2", "natGateway", gate),
                                                        Route("d6", "blackhole", NoKey)})>>>>,
               <<<<gate, [id |-> 0, net |-> net]>>, <<gate, [id |-> 6, net |-> net]>>,
                 <<subnet, S(5)>>>>, 0, Quiet)}

(* Segments: ports that share a node, a gateway that comes and goes. *)
SegmentWorlds ==
    LET base == <<<<vpc, V(1)>>, <<main, RT(2, {})>>>>
        b == Local(seg, "b", "mb", 3)
        r(addr, ip) == Remote(seg, addr, "mr", ip)
        frames(f) == [Quiet EXCEPT !.frames = f]
    IN  {World({"l2-network", "l2-port"}, base \o <<<<Ep("b"), b>>, <<Ep("r"), r("r", "ip2")>>>>,
               <<<<seg, L(0, "")>>, <<seg, L(20, "")>>, <<Ep("t"), r("t", "ip2")>>,
                 <<Ep("r"), None>>>>, 0, Quiet),
         World({"l2-port"}, base \o <<<<seg, L(20, "")>>, <<Ep("r"), r("r", "ip2")>>>>,
               <<<<Ep("t"), r("t", "ip2")>>, <<Ep("r"), r("r", "ip3")>>, <<Ep("t"), None>>,
                 <<Ep("b"), b>>>>, 1, Quiet),
         World({"l2-arp"}, base \o <<<<seg, L(20, "")>>, <<Ep("b"), b>>>>,
               <<<<seg, L(20, "g")>>, <<Ep("b"), [b EXCEPT !.addr = "c"]>>, <<Ep("b"), None>>>>,
               0, Quiet),
         World({"l2-network", "l2-gateway"}, base,
               <<<<seg, L(20, "")>>, <<seg, L(20, "g")>>, <<seg, [L(20, "g") EXCEPT !.mac = "m1"]>>>>,
               0, frames({<<20, "m0", 3>>})),
         World({"l2-network", "l2-gateway"}, base \o <<<<seg, L(20, "g")>>>>,
               <<<<main, RT(4, {})>>, <<seg, None>>>>, 0, frames({<<20, "m0", 3>>})),
         World({"l2-port", "l2-gateway"}, base \o <<<<Ep("b"), b>>, <<seg, L(20, "g")>>>>,
               <<<<Ep("b"), None>>>>, 1, Quiet),
         World({"l2-network", "l2-gateway"}, base, <<<<seg, L(20, "g")>>>>, 1, Quiet)}

svc == <<"Service", "w">>
http == [name |-> "http", number |-> 80]

(* Services: endpoints that come, become ready and go, a second Vpc, a     *)
(* load balancer whose interfaces come late, a client that sticks.         *)
ServiceWorlds ==
    LET slice(n) == <<"EndpointSlice", n>>
        nic == <<"NetworkInterface", "a">>
        link == <<"VpcEndpoint", "e">>
        lb == <<"ServiceLoadBalancer", "w">>
        other == <<"Vpc", "u">>
        W(external, allowed) ==
            [vpc |-> vpc, ip |-> "vip", external |-> external, ports |-> {http}, lb |-> TRUE,
             affinity |-> TRUE, local |-> FALSE, shared |-> TRUE, allowed |-> allowed]
        at(addr, ready) ==
            [addr |-> addr, pod |-> IF addr = "a" THEN "a" ELSE "", node |-> Self,
             ready |-> ready, serving |-> TRUE, terminating |-> FALSE]
        Slice(endpoints) == [service |-> svc, ports |-> {http}, endpoints |-> endpoints]
        Nic == [net |-> subnet, pod |-> "a"]
        base == <<<<vpc, V(1)>>, <<nic, Nic>>, <<subnet, S(5)>>>>
        E(accepted) == [vpc |-> other, service |-> svc, addr |-> "ve", accepted |-> accepted]
        B(vip) == [service |-> svc, vip |-> vip, ports |-> {http}, del |-> FALSE]
    IN  {World({"service"}, <<<<vpc, V(0)>>, <<nic, Nic>>, <<slice("1"), Slice(<<at("a", TRUE)>>)>>>>,
               <<<<svc, W({}, {other})>>, <<vpc, V(1)>>, <<other, V(0)>>, <<other, V(2)>>,
                 <<subnet, S(0)>>, <<subnet, S(5)>>>>, 0, Quiet),
         World({"service"}, base \o <<<<svc, W({"x1"}, {})>>>>,
               <<<<slice("1"), Slice(<<at("a", FALSE), at("h", TRUE)>>)>>, <<slice("2"), Slice(<<at("k", TRUE)>>)>>,
                 <<slice("1"), Slice(<<at("a", FALSE)>>)>>, <<svc, W({}, {})>>>>, 0, Quiet),
         World({"service"}, base \o <<<<svc, W({}, {})>>, <<slice("1"), Slice(<<at("a", TRUE), at("h", TRUE)>>)>>>>,
               <<<<vpc, [V(1) EXCEPT !.enabled = FALSE]>>, <<vpc, V(1)>>,
                 <<slice("1"), Slice(<<at("h", TRUE)>>)>>>>, 1, [Quiet EXCEPT !.clients = {"c"}]),
         World({"service"}, base \o <<<<svc, W({}, {})>>, <<slice("1"), Slice(<<at("a", TRUE)>>)>>>>,
               <<<<slice("2"), Slice(<<at("h", TRUE)>>)>>, <<slice("2"), Slice(<<at("k", TRUE)>>)>>>>, 0,
               [Quiet EXCEPT !.clients = {"c"}]),
         World({"vpc-endpoint"}, <<<<other, V(2)>>, <<svc, W({}, {})>>>>,
               <<<<link, E(FALSE)>>, <<link, E(TRUE)>>, <<svc, [W({}, {}) EXCEPT !.ip = "vip2"]>>>>, 0, Quiet),
         World({"vpc-endpoint", "service"}, <<<<vpc, V(1)>>, <<svc, W({}, {})>>, <<link, E(TRUE)>>>>,
               <<<<other, V(0)>>, <<other, V(2)>>, <<svc, None>>>>, 0, Quiet),
         World({"service-load-balancer"}, base,
               <<<<slice("1"), Slice(<<at("a", TRUE)>>)>>, <<lb, B("")>>, <<lb, B("lbip")>>, <<svc, W({}, {})>>>>,
               0, Quiet),
         World({"service-load-balancer"}, base \o <<<<svc, W({}, {})>>, <<lb, B("lbip")>>>>,
               <<<<slice("1"), Slice(<<at("a", TRUE)>>)>>, <<slice("1"), Slice(<<at("a", FALSE)>>)>>,
                 <<lb, B("lbip2")>>, <<lb, [B("lbip2") EXCEPT !.del = TRUE]>>>>, 1, Quiet)}

(* A Pod arrives on a node where everything is about to be numbered. *)
PodWorlds ==
    {World({"subnet", "arp", "fdb", "pod-iface", "fib"}, <<<<vpc, V(1)>>>>,
           <<<<main, RT(2, {Route("d1", "connected", subnet), Route("d5", "endpoint", Ep("a"))})>>,
             <<subnet, S(5)>>, <<Ep("a"), Local(subnet, "a", "ma", 7)>>>>, 0, Quiet)}

(* Sessions that share a node with the debug server and the reader: a      *)
(* tuple moves from one to the other, a session expires, one is deleted    *)
(* and comes back under another number.                                    *)
TraceWorlds ==
    LET one == <<"TraceSession", "one">>
        two == <<"TraceSession", "two">>
        T(id, gen, tuples, until) ==
            [id |-> id, gen |-> gen, tuples |-> tuples, until |-> until, del |-> FALSE]
        seen == [Quiet EXCEPT !.learned = {<<1, "n">>}, !.mirrors = {<<1, "ra">>, <<2, "rt">>}]
    IN  {World({"tracesession"}, <<>>,
               <<<<one, T(1, 1, {"a", "t"}, 5)>>, <<one, T(1, 2, {"a"}, 5)>>,
                 <<two, T(2, 1, {"t"}, 5)>>, <<two, None>>>>, 0, seen),
         World({"tracesession"}, <<<<one, T(1, 1, {"a"}, 0)>>>>,
               <<<<two, T(2, 1, {"t"}, 1)>>, <<two, [T(2, 1, {"t"}, 1) EXCEPT !.del = TRUE]>>>>, 1,
               [seen EXCEPT !.ticks = 2]),
         World({"tracesession"}, <<<<one, T(1, 1, {"a"}, 0)>>>>,
               <<<<one, None>>, <<one, T(2, 1, {"t"}, 5)>>>>, 0, [seen EXCEPT !.ticks = 1]),
         World({"tracesession"}, <<>>,
               <<<<one, T(1, 1, {"a", "t"}, 5)>>, <<two, T(2, 1, {"b"}, 5)>>,
                 <<one, T(1, 2, {"t"}, 5)>>>>, 0, seen)}

(* The DNS address of a Subnet, while its Vpc gets its number, the address *)
(* moves, a Subnet is made anew, and two Vpcs have one number.             *)
DnsWorlds ==
    LET other == <<"Vpc", "u">>
        again == <<"Subnet", "s2">>
        zone(n) == <<"DNSZone", n>>
        record(n) == <<"DNSRecord", n>>
        Z(v) == [vpc |-> v, domain |-> <<"d">>, del |-> FALSE, gen |-> 1, observed |-> 1, ready |-> 1]
        R(z, addrs) == [zone |-> z, name |-> <<"r">>, del |-> FALSE, gen |-> 1, observed |-> 1,
                        ready |-> 1, addrs |-> addrs]
        W(allowed) ==
            [vpc |-> vpc, ip |-> "vip", external |-> {}, ports |-> {http}, lb |-> FALSE,
             affinity |-> FALSE, local |-> FALSE, shared |-> TRUE, allowed |-> allowed]
    IN  {World({"virtservice-dns"}, <<<<subnet, [S(5) EXCEPT !.dns = ""]>>>>,
               <<<<vpc, V(0)>>, <<vpc, V(1)>>, <<subnet, S(5)>>, <<subnet, [S(5) EXCEPT !.dns = "d2"]>>,
                 <<subnet, [S(5) EXCEPT !.dns = ""]>>>>, 1, Quiet),
         World({"virtservice-dns", "subnet"}, <<<<vpc, V(1)>>, <<main, RT(1, {})>>>>,
               <<<<subnet, S(5)>>>>, 0, Quiet),
         World({"virtservice-dns"}, <<<<vpc, V(1)>>, <<other, V(2)>>, <<subnet, S(5)>>>>,
               <<<<subnet, None>>, <<again, [S(5) EXCEPT !.vpc = other]>>>>, 0, Quiet),
         World({"virtservice-dns"}, <<<<vpc, V(1)>>, <<subnet, S(5)>>>>,
               <<<<subnet, None>>, <<again, S(6)>>>>, 0, Quiet),
         World({"virtservice-dns"},
               <<<<vpc, V(1)>>, <<subnet, S(5)>>, <<zone("a"), Z(vpc)>>, <<zone("b"), Z(other)>>,
                 <<record("a"), R(zone("a"), {"ra"})>>, <<record("b"), R(zone("b"), {"rb"})>>>>,
               <<<<other, V(1)>>, <<other, V(2)>>, <<zone("a"), [Z(vpc) EXCEPT !.domain = <<"e", "d">>]>>>>,
               0, Quiet),
         World({"virtservice-dns", "service"}, <<<<vpc, V(1)>>, <<svc, W({other})>>>>,
               <<<<other, V(0)>>, <<other, V(2)>>, <<again, [S(6) EXCEPT !.vpc = other]>>,
                 <<svc, W({vpc})>>>>, 0, Quiet),
         World({"virtservice-dns", "service"},
               <<<<vpc, V(1)>>, <<svc, W({other})>>, <<other, V(2)>>,
                 <<again, [S(6) EXCEPT !.vpc = other]>>>>,
               <<<<vpc, [V(1) EXCEPT !.enabled = FALSE]>>, <<vpc, V(1)>>,
                 <<vpc, [V(1) EXCEPT !.enabled = FALSE]>>>>, 0, Quiet)}

AllWorlds == TraceWorlds \cup DnsWorlds \cup PodWorlds \cup EndpointWorlds \cup GateWorlds \cup RouteWorlds \cup SegmentWorlds \cup ServiceWorlds
=============================================================================
