----------------------------- MODULE ServiceMaps -----------------------------
(***************************************************************************)
(* The daemon's reconcilers behind the Services: service, vpc-endpoint and *)
(* service-load-balancer, and the client affinity the data plane keeps.    *)
(*                                                                         *)
(*   Service              [vpc, ip, external, ports, lb, affinity, local,  *)
(*                         shared, allowed]                                *)
(*   EndpointSlice        [service, ports, endpoints], an endpoint being   *)
(*                        [addr, pod, node, ready, serving, terminating]   *)
(*   NetworkInterface     [net, pod]: the primary interface of a Pod       *)
(*   VpcEndpoint          [vpc, service, addr, accepted]                   *)
(*   ServiceLoadBalancer  [service, vip, ports, del]                       *)
(*                                                                         *)
(* A port is [name, number].  The name of this node stands for its         *)
(* underlay address.                                                       *)
(***************************************************************************)
EXTENDS SegmentMaps

nodeIP == Self

(* The order of a List from the cache is any order. *)
SlicesOf(svc) == {x \in All("EndpointSlice") : Get(x).service = svc}

Rows(order) ==
    FlattenSeq([i \in DOMAIN order |-> LET s == Get(order[i]) IN
        [j \in DOMAIN s.endpoints |-> [ports |-> s.ports, at |-> s.endpoints[j]]]])

-----------------------------------------------------------------------------
(* svcpolicy: who may use a Service *)

HasConsumerACL(svc) == svc.allowed # {}
IsAllowedConsumer(svc, vpc) == HasConsumerACL(svc) => vpc \in svc.allowed

ResolvableFrom(svc, vpc, caller) ==
    /\ caller.enabled
    /\ svc.vpc = vpc \/ (caller.consume /\ svc.shared /\ IsAllowedConsumer(svc, vpc))

-----------------------------------------------------------------------------
(* resolve, filter: the backends of a port *)

findPrimaryInterfaceForPod(pod) == {x \in All("NetworkInterface") : Get(x).pod = pod}

hostBackend(ep, number) ==
    [kind |-> IF ep.addr = nodeIP THEN "host-local" ELSE "host-remote",
     addr |-> ep.addr, port |-> number, subnet |-> 0]

podBackend(ep, number, nic, vpc) ==
    IF nic.net[1] # "Subnet" \/ Get(nic.net) = None THEN None
    ELSE IF Get(nic.net).vpc # vpc \/ Get(nic.net).id = 0 THEN None
    ELSE [kind |-> "pod", addr |-> ep.addr, port |-> number, subnet |-> Get(nic.net).id]

resolveBackend(ep, number, vpc) ==
    LET nics == IF ep.pod = "" THEN {} ELSE findPrimaryInterfaceForPod(ep.pod) IN
    IF nics = {} THEN hostBackend(ep, number)
    ELSE podBackend(ep, number, Get(CHOOSE x \in nics : TRUE), vpc)

(* matchEndpointsForPort: by name, any when the port has none. *)
resolveBackends(svc, rows, port) ==
    LET each == FlattenSeq([i \in DOMAIN rows |->
            SetToSeq({[at |-> rows[i].at, val |-> resolveBackend(rows[i].at, p.number, svc.vpc)] :
                p \in {q \in rows[i].ports : port.name # "" => q.name = port.name}})])
    IN  SelectSeq(each, LAMBDA b : b.val # None)

retainLocal(backends) == SelectSeq(backends, LAMBDA b : b.at.node = Self)

admitByConditions(backends) ==
    LET ready == SelectSeq(backends, LAMBDA b : b.at.ready)
        fallback == SelectSeq(backends, LAMBDA b : b.at.serving /\ ~ b.at.terminating)
    IN  IF ready # <<>> THEN ready ELSE fallback

applyPolicy(svc, backends) ==
    admitByConditions(IF svc.local THEN retainLocal(backends) ELSE backends)

backendsFor(svc, rows, port) ==
    LET admitted == applyPolicy(svc, resolveBackends(svc, rows, port))
    IN  [i \in DOMAIN admitted |-> admitted[i].val]

-----------------------------------------------------------------------------
(* service: service_map, backend_map and service_acl_map *)

NoService == [services |-> {}, backends |-> {}, acls |-> {}, sig |-> None, gen |-> 0]
ServiceSnapshot(k) == IF Has("service", k) THEN tables.service[k] ELSE NoService

serviceFlags(svc) ==
    [shared |-> svc.shared, acl |-> HasConsumerACL(svc), affinity |-> svc.affinity,
     local |-> svc.local]

vipsForService(svc) == {svc.ip} \cup svc.external

(* Mutant: the backends do not count towards the generation. *)
FlagsOnly(svc, rows) == serviceFlags(svc)

(* backendSignature: the order of the backends does not count. *)
backendSignature(svc, rows) ==
    [flags |-> serviceFlags(svc),
     ports |-> [p \in svc.ports |-> LET b == backendsFor(svc, rows, p) IN
                    [x \in Range(b) |-> Cardinality({i \in DOMAIN b : b[i] = x})]]]

resolveAllowedConsumerVpcIDs(svc) ==
    {Get(v).id : v \in {x \in svc.allowed : Get(x) # None}} \ {0}

(* The entries of one address and port: the Service first, its backends by *)
(* index, then the Vpcs it admits.                                         *)
programPort(svc, vip, port, backends, gen) ==
    LET id == <<vip, port.number>> IN
    <<Put("service_map", id, [vpc |-> Get(svc.vpc).id, count |-> Len(backends),
                              flags |-> serviceFlags(svc), gen |-> gen])>>
    \o [i \in DOMAIN backends |-> Put("backend_map", <<id, i - 1>>, backends[i])]
    \o Each(resolveAllowedConsumerVpcIDs(svc), LAMBDA v : Put("service_acl_map", <<id, v>>, TRUE))

KeysOf(steps, t) == {steps[i].key : i \in {j \in DOMAIN steps : steps[j].table = t}}

deleteServiceEntries(s) ==
    Each(s.services, LAMBDA x : Ignored(Del("service_map", x)))
    \o Each(s.backends, LAMBDA x : Ignored(Del("backend_map", x)))
    \o Each(s.acls, LAMBDA x : Ignored(Del("service_acl_map", x)))

pruneStale(prev, current) ==
    deleteServiceEntries([services |-> prev.services \ current.services,
                          backends |-> prev.backends \ current.backends,
                          acls |-> prev.acls \ current.acls])

programService(k, svc, rows) ==
    LET prev == ServiceSnapshot(k)
        sig == backendSignature(svc, rows)
        gen == IF sig = prev.sig THEN prev.gen ELSE prev.gen + 1
        steps == FlattenSeq(Each(vipsForService(svc) \X svc.ports, LAMBDA x :
                    programPort(svc, x[1], x[2], backendsFor(svc, rows, x[2]), gen)))
        current == [services |-> KeysOf(steps, "service_map"),
                    backends |-> KeysOf(steps, "backend_map"),
                    acls |-> KeysOf(steps, "service_acl_map"), sig |-> sig, gen |-> gen]
    IN  steps \o <<Keep("service", k, current)>> \o pruneStale(prev, current)

(* A history: how often the record of a Service was dropped. *)
Lives(k) == IF Has("lives", k) THEN tables.lives[k] ELSE 0

ServiceDelete(k) ==
    When(Has("service", k),
         deleteServiceEntries(tables.service[k])
         \o <<Drop("service", k), Keep("lives", k, Lives(k) + 1)>>)

ServicePasses(k) ==
    LET svc == Get(k)
        vpc == IF svc = None THEN None ELSE Get(svc.vpc)
    IN  IF vpc = None THEN {ServiceDelete(k)}
        ELSE IF svc.ip = "" THEN {ServiceDelete(k)}
        ELSE IF vpc.id = 0 THEN {<<>>}
        ELSE IF ~ vpc.enabled THEN {ServiceDelete(k)}
        ELSE {programService(k, svc, Rows(order)) : order \in Orders(SlicesOf(k))}

(* handle_service: a Service of another Vpc is for those it admits. *)
Admits(vpcID, id) ==
    /\ Has("service_map", id)
    /\ LET sv == tables.service_map[id] IN
       sv.vpc = vpcID \/ (sv.flags.shared /\ (sv.flags.acl => Has("service_acl_map", <<id, vpcID>>)))

ServiceWakes(k, o, c) ==
    CASE k[1] = "Service" -> {k}
      [] k[1] = "EndpointSlice" -> {o.service}
      [] k[1] \in {"Subnet", "Vpc"} -> Listed(c, "Service")
      [] OTHER -> {}

-----------------------------------------------------------------------------
(* vpc-endpoint: the address of an endpoint stands for the cluster address *)
(* of its Service, on each of the Service's ports.                         *)

VpcEndpointDelete(k) ==
    When(Has("vpc_endpoint", k),
         <<Drop("vpc_endpoint", k)>>
         \o Each(DOMAIN tables.vpc_endpoint[k], LAMBDA x : Joined(Del("vpc_endpoint_map", x))))

programSnapshot(s) == Each(DOMAIN s, LAMBDA x : Put("vpc_endpoint_map", x, s[x]))
deleteSnapshot(s) == Each(DOMAIN s, LAMBDA x : Ignored(Del("vpc_endpoint_map", x)))
pruneSnapshot(previous, desired) ==
    AllOrStop(Each(DOMAIN previous \ DOMAIN desired, LAMBDA x : Del("vpc_endpoint_map", x)))

VpcEndpointProgram(k, desired) ==
    LET previous == IF Has("vpc_endpoint", k) THEN tables.vpc_endpoint[k] ELSE <<>>
        undo == deleteSnapshot(desired) \o programSnapshot(previous)
        steps == programSnapshot(desired)
    IN  [i \in DOMAIN steps |-> Undoing(steps[i], undo)]
        \o pruneSnapshot(previous, desired)
        \o <<Keep("vpc_endpoint", k, desired)>>

VpcEndpointPass(k) ==
    LET e == Get(k)
        svc == IF e = None THEN None ELSE Get(e.service)
    IN  IF e = None THEN VpcEndpointDelete(k)
        ELSE IF ~ e.accepted \/ e.addr = "" THEN VpcEndpointDelete(k)
        ELSE IF Get(e.vpc) = None THEN <<Error>>
        ELSE IF Get(e.vpc).id = 0 THEN <<>>
        ELSE IF svc = None THEN VpcEndpointDelete(k)
        ELSE IF svc.ip = "" \/ svc.ports = {} THEN VpcEndpointDelete(k)
        ELSE VpcEndpointProgram(k,
                [x \in {<<Get(e.vpc).id, e.addr, p.number>> : p \in svc.ports} |-> svc.ip])

VpcEndpointWakes(k, c) ==
    CASE k[1] = "VpcEndpoint" -> {k}
      [] k[1] = "Service" -> {x \in Listed(c, "VpcEndpoint") : c[x].service = k}
      [] k[1] = "Vpc" -> Listed(c, "VpcEndpoint")
      [] OTHER -> {}

-----------------------------------------------------------------------------
(* service-load-balancer: the backends on this node of a VIP *)

NoBalancer == [services |-> {}, backends |-> {}]
LBSnapshot(k) == IF Has("lb", k) THEN tables.lb[k] ELSE NoBalancer

deleteLB(s) ==
    Each(s.services, LAMBDA x : Ignored(Del("lb_service_map", x)))
    \o Each(s.backends, LAMBDA x : Ignored(Del("lb_backend_map", x)))

LBDelete(k) == deleteLB(LBSnapshot(k)) \o <<Drop("lb", k), Drop("lb_known", k)>>

collectLocalEndpoints(svc) ==
    LET rows == Rows(SetToSeq(SlicesOf(svc))) IN
    SelectSeq(rows, LAMBDA r : r.at.ready /\ r.at.serving /\ ~ r.at.terminating
                               /\ r.at.node = Self)

resolvePrimarySubnetID(ep) ==
    LET nics == IF ep.pod = "" THEN {} ELSE findPrimaryInterfaceForPod(ep.pod)
        net == IF nics = {} THEN NoKey ELSE Get(CHOOSE x \in nics : TRUE).net
    IN  IF net[1] # "Subnet" \/ Get(net) = None THEN 0 ELSE Get(net).id

(* By name, by number when the port has no name; sorted, so that the order *)
(* of the slices does not count.                                           *)
resolveLocalBackends(svc, port) ==
    LET rows == collectLocalEndpoints(svc)
        match(q) == IF port.name # "" THEN q.name = port.name ELSE q.number = port.number
    IN  SetToSeq({b \in UNION {{[addr |-> rows[i].at.addr, port |-> q.number,
                                 subnet |-> resolvePrimarySubnetID(rows[i].at)] :
                                q \in {p \in rows[i].ports : match(p)}} : i \in DOMAIN rows} :
                    b.subnet # 0})

writeLB(vip, port, backends) ==
    <<Put("lb_service_map", <<vip, port.number>>, Len(backends))>>
    \o [i \in DOMAIN backends |-> Put("lb_backend_map", <<<<vip, port.number>>, i - 1>>, backends[i])]

LBApply(k, b) ==
    LET steps == FlattenSeq(Each(b.ports, LAMBDA p :
                    writeLB(b.vip, p, resolveLocalBackends(b.service, p))))
        prev == LBSnapshot(k)
        written == [services |-> KeysOf(steps, "lb_service_map"),
                    backends |-> KeysOf(steps, "lb_backend_map")]
    IN  steps
        \o deleteLB([services |-> prev.services \ written.services,
                     backends |-> prev.backends \ written.backends])
        \o <<Keep("lb", k, written), Keep("lb_known", k, TRUE)>>

LBPass(k) ==
    LET b == Get(k) IN
    IF b = None THEN LBDelete(k)
    ELSE IF b.del \/ b.vip = "" \/ Get(b.service) = None THEN LBDelete(k)
    ELSE LBApply(k, b)

(* A ServiceLoadBalancer has the name of its Service. *)
LBWakes(k, o) ==
    CASE k[1] = "ServiceLoadBalancer" -> {k}
      [] k[1] = "Service" -> IF o.lb THEN {<<"ServiceLoadBalancer", k[2]>>} ELSE {}
      [] k[1] = "EndpointSlice" -> {<<"ServiceLoadBalancer", o.service[2]>>}
      [] k[1] = "NetworkInterface" -> DOMAIN tables.lb_known
      [] OTHER -> {}

-----------------------------------------------------------------------------
(* select_backend_index: a client keeps the index it got while the         *)
(* generation it got it under stands.  Neither looks at backend_map, so a  *)
(* client may get an index whose entry is yet to be written.  backend,     *)
(* sound and lives are kept for the properties: where the index led,       *)
(* whether the entries were those of a pass that had come to its end, and  *)
(* the life of the Service.                                                *)

Honoured(bound) ==
    /\ Has("service_map", bound.service)
    /\ tables.service_map[bound.service].flags.affinity
    /\ tables.service_map[bound.service].gen = bound.gen
    /\ bound.index < tables.service_map[bound.service].count

Bind(client, service) ==
    /\ Has("service_map", service)
    /\ tables.service_map[service].flags.affinity
    /\ Has("affinity", client) => ~ Honoured(tables.affinity[client])
    /\ \E i \in 0..(tables.service_map[service].count - 1) :
        tables' = [tables EXCEPT !.affinity = With(@, client,
            [service |-> service, gen |-> tables.service_map[service].gen, index |-> i,
             backend |-> IF Has("backend_map", <<service, i>>)
                         THEN tables.backend_map[<<service, i>>] ELSE None,
             sound |-> running["service"] = None /\ ~ Loose("service_map", service),
             lives |-> tables.lives])]
    /\ UNCHANGED <<cache, feed, queue, later, running, faults>>

(* AffinityGC: an expired entry goes. *)
planAffinityExpiry(client) ==
    /\ Has("affinity", client)
    /\ tables' = [tables EXCEPT !.affinity = Without(@, client)]
    /\ UNCHANGED <<cache, feed, queue, later, running, faults>>
=============================================================================
