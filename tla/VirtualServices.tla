--------------------------- MODULE VirtualServices ---------------------------
(***************************************************************************)
(* The services the daemon itself answers on an address of each Subnet:    *)
(* the virtservice-dns runner, the registry that binds an address to a     *)
(* handler, and the DNS resolvers.                                         *)
(*                                                                         *)
(*   DNSZone    [vpc, domain, del, gen, observed, ready]                   *)
(*   DNSRecord  [zone, name, del, gen, observed, ready, addrs]             *)
(*                                                                         *)
(* A name is a sequence of labels.  observed and ready are the generations *)
(* the status and its Ready condition were written for, ready is 0 while   *)
(* the condition is not true.  The port is always 53.                      *)
(***************************************************************************)
EXTENDS TraceMaps

Binding(vpc, subnetID, ip) == [vpc |-> vpc, subnet |-> subnetID, ip |-> ip]

desiredBinding(s) ==
    IF s.dns = "" \/ s.id = 0 \/ Get(s.vpc) = None THEN None
    ELSE IF Get(s.vpc).id = 0 THEN None
    ELSE Binding(Get(s.vpc).id, s.id, s.dns)

bpfKey(b, proto) == <<b.subnet, b.ip, proto>>
bindingKey(b, proto) == <<b.vpc, b.subnet, b.ip, proto>>
stackAddr(b) == <<b.vpc, b.ip>>

-----------------------------------------------------------------------------
(* The registry: the classifier's entry, the dispatcher's handler and, for *)
(* TCP, the address and the listener in the userspace stack.  old is the   *)
(* binding the same pass has taken down before.                            *)

Still(t, k, freed) == Has(t, k) /\ k \notin freed
Replaced(old) == {old} \ {None}

unregisterUDP(b) ==
    <<Drop("vs_bindings", bindingKey(b, "udp")), Drop("vs_handlers", bpfKey(b, "udp")),
      Joined(Del("virtual_service_map", bpfKey(b, "udp")))>>

(* The userspace stack of a Vpc (netstack/facade.go): its addresses, and a *)
(* listener on one of them, which is bound to the interface of its Vpc so  *)
(* that two Vpcs may use one address.                                      *)
EnsureNIC(b) == Put("vips", stackAddr(b), TRUE)
RemoveVIP(b) == Drop("vips", stackAddr(b))
listenTCPOnNIC(b) == Put("listeners", stackAddr(b), TRUE)

(* An entry that cannot be removed keeps its address in the stack. *)
unregisterTCP(b) ==
    <<Drop("vs_bindings", bindingKey(b, "tcp")), Drop("vs_handlers", bpfKey(b, "tcp")),
      Skipping(Joined(Del("virtual_service_map", bpfKey(b, "tcp"))), 2),
      Drop("listeners", stackAddr(b)), RemoveVIP(b)>>

(* The accept loop closes the listener when it is stopped. *)
tearDown(b) == unregisterUDP(b) \o unregisterTCP(b) \o <<Drop("listeners", stackAddr(b))>>

Logged(steps) == [i \in DOMAIN steps |->
                    IF steps[i].fail = "never" THEN steps[i] ELSE Ignored(steps[i])]

RegisterUDPHandler(b, old) ==
    LET k == bpfKey(b, "udp") IN
    IF Still("vs_bindings", bindingKey(b, "udp"), {bindingKey(o, "udp") : o \in Replaced(old)})
    THEN <<Error>>
    ELSE <<Put("virtual_service_map", k, TRUE)>>
         \o IF Still("vs_handlers", k, {bpfKey(o, "udp") : o \in Replaced(old)})
            THEN <<Ignored(Del("virtual_service_map", k)), Error>>
            ELSE <<Keep("vs_handlers", k, b.vpc), Keep("vs_bindings", bindingKey(b, "udp"), TRUE)>>

(* The address and the listener first: "a packet that arrives the moment   *)
(* we flip BPF has a place to land".                                       *)
ListenTCP(b, old) ==
    LET k == bpfKey(b, "tcp")
        udp == Logged(unregisterUDP(b))
    IN  IF Still("listeners", stackAddr(b), {stackAddr(o) : o \in Replaced(old)})
        THEN <<RemoveVIP(b)>> \o udp \o <<Error>>
        ELSE <<Undoing(EnsureNIC(b), udp), Undoing(listenTCPOnNIC(b), <<RemoveVIP(b)>> \o udp),
               Undoing(Put("virtual_service_map", k, TRUE),
                       <<Drop("listeners", stackAddr(b)), RemoveVIP(b)>> \o udp),
               Keep("vs_handlers", k, b.vpc), Keep("vs_bindings", bindingKey(b, "tcp"), TRUE)>>

(* Whether RegisterUDPHandler comes to its end. *)
Registers(b, old) ==
    /\ ~ Still("vs_bindings", bindingKey(b, "udp"), {bindingKey(o, "udp") : o \in Replaced(old)})
    /\ ~ Still("vs_handlers", bpfKey(b, "udp"), {bpfKey(o, "udp") : o \in Replaced(old)})

unbind(k) == When(Has("dns", k), <<Drop("dns", k)>> \o tearDown(tables.dns[k]))

bindOrRebind(k, desired) ==
    LET current == IF Has("dns", k) THEN tables.dns[k] ELSE None IN
    IF desired = None THEN unbind(k)
    ELSE IF current = desired THEN <<>>
    ELSE When(current # None, Logged(tearDown(current)) \o <<Drop("dns", k)>>)
         \o RegisterUDPHandler(desired, current)
         \o When(Registers(desired, current), ListenTCP(desired, current))
         \o <<Keep("dns", k, desired)>>

DnsPass(k) == IF Get(k) = None THEN unbind(k) ELSE bindOrRebind(k, desiredBinding(Get(k)))

DnsWakes(k, c) ==
    CASE k[1] = "Subnet" -> {k}
      [] k[1] = "Vpc" -> {s \in Listed(c, "Subnet") : c[s].vpc = k}
      [] OTHER -> {}

-----------------------------------------------------------------------------
(* The packet plane: the classifier hands a query to the daemon with the   *)
(* Subnet's number in the 16 bits of the IP identification.                *)

MaxStamped == 65535

Dispatches(subnetID, ip, proto) ==
    /\ Has("virtual_service_map", <<subnetID, ip, proto>>)
    /\ subnetID <= MaxStamped
    /\ Has("vs_handlers", <<subnetID, ip, proto>>)
    /\ proto = "tcp" => LET at == <<tables.vs_handlers[<<subnetID, ip, proto>>], ip>>
                        IN  Has("vips", at) /\ Has("listeners", at)

(* The resolvers.  Each answers or declines. *)
Answer(rcode, addrs) == [rcode |-> rcode, addrs |-> addrs]
NotInZone == Answer("declined", {})
ServerFailure == Answer("servfail", {})
NXDomain == Answer("nxdomain", {})
NoData == Answer("noerror", {})

ClusterDomain == <<"cluster", "local">>
LabelsBelow(name, domain) == SubSeq(name, 1, Len(name) - Len(domain))

(* Only <service>.<namespace>.svc is known; a Service of no address, of    *)
(* type ExternalName included, has no address record.                      *)
ClusterZone(vpc, caller, name, type) ==
    LET labels == LabelsBelow(name, ClusterDomain)
        svc == Get(<<"Service", labels[1]>>)
    IN  IF ~ IsSuffix(ClusterDomain, name) THEN NotInZone
        ELSE IF Len(labels) # 3 THEN NXDomain
        ELSE IF labels[3] # "svc" \/ type \notin {"A", "AAAA"} \/ svc = None THEN NXDomain
        ELSE IF ~ ResolvableFrom(svc, vpc, caller) THEN NXDomain
        ELSE IF svc.ip = "" \/ type = "AAAA" THEN NoData
        ELSE Answer("noerror", {svc.ip})

servableResource(x) == ~ x.del /\ x.observed = x.gen /\ x.ready = x.gen

(* Mutant: the zones of every Vpc are asked. *)
ZonesOfAll(vpc, name) ==
    LET within == {z \in All("DNSZone") : IsSuffix(Get(z).domain, name)}
    IN  {z \in within : \A y \in within : Len(Get(y).domain) <= Len(Get(z).domain)}

(* lookupZone: the longest domain of the caller's Vpc that the name is in. *)
lookupZone(vpc, name) ==
    LET within == {z \in All("DNSZone") : Get(z).vpc = vpc /\ IsSuffix(Get(z).domain, name)}
    IN  {z \in within : \A y \in within : Len(Get(y).domain) <= Len(Get(z).domain)}

RecordsOf(z, name) == {r \in All("DNSRecord") :
                        Get(r).zone = z /\ Get(r).name = LabelsBelow(name, Get(z).domain)}

Only(S) == CHOOSE x \in S : TRUE

CustomZone(vpc, name, type) ==
    LET zones == lookupZone(vpc, name)
        records == RecordsOf(Only(zones), name)
        record == Get(Only(records))
    IN  IF zones = {} THEN NotInZone
        ELSE IF Cardinality(zones) > 1 THEN ServerFailure
        ELSE IF ~ servableResource(Get(Only(zones))) THEN ServerFailure
        ELSE IF records = {} THEN NXDomain
        ELSE IF Cardinality(records) > 1 THEN ServerFailure
        ELSE IF ~ servableResource(record) THEN ServerFailure
        ELSE IF type # "A" THEN NoData
        ELSE Answer("noerror", record.addrs)

(* The forwarder asks the upstream resolvers for what no zone owns. *)
Forwarded == Answer("forwarded", {})

Chain(vpc, caller, name, type) ==
    LET answers == <<ClusterZone(vpc, caller, name, type), CustomZone(vpc, name, type), Forwarded>>
        given == SelectSeq(answers, LAMBDA a : a # NotInZone)
    IN  IF given = <<>> THEN Answer("refused", {}) ELSE Head(given)

LookupByID(id) == {v \in All("Vpc") : id # 0 /\ Get(v).id = id}

(* HandlePacket: a number that no Vpc has, or two, is answered by a        *)
(* failure.                                                                *)
HandlePacket(vpcID, name, type) ==
    LET callers == LookupByID(vpcID) IN
    IF Cardinality(callers) # 1 THEN ServerFailure
    ELSE Chain(Only(callers), Get(Only(callers)), name, type)
=============================================================================
