------------------------------ MODULE Routing ------------------------------
(***************************************************************************)
(* The controllers of RouteTables, TransitGateways with their route tables *)
(* and attachments, VpcPeerings and VpcEndpoints.                          *)
(*                                                                         *)
(* A route of a spec is [dst, via, to]: its destination, its type and the  *)
(* object it names.  A resolved one adds the Subnet the data plane looks   *)
(* up and whether it is active or a blackhole.  Resolved routes form a     *)
(* set: their order is left out.                                           *)
(***************************************************************************)
EXTENDS Networks

NewGatewayStatus == [table |-> "", why |-> ""]
NewPrefixesStatus == [prefixes |-> {}, why |-> ""]
NewPeeringStatus == [why |-> ""]
NewVpcEndpointStatus == [address |-> NoAddress, claimed |-> FALSE, accepted |-> "", why |-> ""]

(***************************************************************************)
(* routetable_controller.go: the routes every table of a Vpc gets.         *)
(***************************************************************************)
Resolved(dst, via, to, subnet) ==
    [dst |-> dst, via |-> via, to |-> to, subnet |-> subnet, active |-> TRUE]
activeRoute(r) == Resolved(r.dst, r.via, r.to, "")
blackholeRoute(r) == [activeRoute(r) EXCEPT !.active = FALSE]

ConnectedRoutes(c, vpc) ==
    {Resolved(c[s].spec.cidr, "connected", "", Name(s)) : s \in mapVpcToSubnets(c, Key("Vpc", vpc))}
    \cup UNION {{Resolved(p, "connected", Name(n), "") : p \in c[n].spec.cidr} :
                   n \in {m \in mapVpcToL2Networks(c, Key("Vpc", vpc)) : c[m].spec.gateway}}

collectExternalIPRoutes(c, vpc) ==
    UNION {{Resolved(Host(a), "service", "", "") : a \in c[s].spec.external} :
              s \in Where(c, "Service", LAMBDA s : s.vpc = vpc)}

vpcEndpointPoolRoutes(spec) == {Resolved(p, "vpcEndpoint", "", "") : p \in spec.endpointPool}

\* The implied routes, up to the first entry of the spec.  A missing Vpc
\* enables nothing.
ImpliedRoutes(c, k) ==
    LET name == c[k].spec.vpc
        vpc == Key("Vpc", name)
        gw == Key("NATGateway", "default")
    IN  ConnectedRoutes(c, name)
        \cup (IF Has(c, vpc) /\ ServiceEnabled(c[vpc].spec)
              THEN {Resolved(ServiceCIDR, "service", "", "")} \cup collectExternalIPRoutes(c, name)
              ELSE {})
        \cup (IF Has(c, vpc) THEN vpcEndpointPoolRoutes(c[vpc].spec) ELSE {})
        \cup (IF Name(k) = "default" /\ name = "default" /\ Has(c, gw) /\ c[gw].status.id # NoValue
              THEN {Resolved(Everywhere, "natGateway", "default", "")} ELSE {})

(***************************************************************************)
(* routetable_endpoint.go: the interfaces of the identity a route names    *)
(* that hold its lease, and the one endpoint behind the only holder.       *)
(***************************************************************************)
holdsLease(c, nic) ==
    LET lease == leaseNameForNetworkInterface(nic, c[nic].spec) IN
    Has(c, lease) /\ c[lease].spec.claim = claimNameForNetworkInterface(nic, c[nic].spec) /\ c[lease].spec.held

addressHolders(c, identity) ==
    {n \in Where(c, "NetworkInterface", LAMBDA s : s.identity = identity) :
        ~c[n].del /\ holdsLease(c, n)}

endpointOfNetworkInterface(c, nic) ==
    Where(c, "NetworkEndpoint", LAMBDA s : s.pod = c[nic].spec.pod)

resolveEndpointRoute(c, k, r) ==
    LET holders == addressHolders(c, r.to)
        found == UNION {endpointOfNetworkInterface(c, n) : n \in holders}
        local == {e \in found : Has(c, Key("Subnet", c[e].spec.subnet))
                                /\ c[Key("Subnet", c[e].spec.subnet)].spec.vpc = c[k].spec.vpc
                                /\ c[e].spec.mac}
    IN  IF Cardinality(holders) = 1 /\ Cardinality(found) = 1 /\ local = found
        THEN {Resolved(r.dst, r.via, r.to, c[e].spec.subnet) : e \in local} ELSE {blackholeRoute(r)}

(***************************************************************************)
(* routetable_controller.go: the other types.  No route: the table waits.  *)
(***************************************************************************)
resolveNATGatewayRoute(c, k, r) ==
    {activeRoute(r) : g \in {n \in Of(c, "NATGateway") :
        Name(n) = r.to /\ c[n].spec.vpc = c[k].spec.vpc /\ c[n].status.id # NoValue}}

Connects(spec, vpc) == vpc \in {spec.requester, spec.accepter}
PeerOf(spec, vpc) == IF vpc = spec.requester THEN spec.accepter ELSE spec.requester

findSubnetByCIDR(c, vpc, cidr) == Where(c, "Subnet", LAMBDA s : s.vpc = vpc /\ s.cidr = cidr)

resolveVpcPeeringRoute(c, k, r) ==
    LET p == Key("VpcPeering", r.to)
        vpc == c[k].spec.vpc
    IN  IF IsReady(c, p) /\ Connects(c[p].spec, vpc)
        THEN {Resolved(r.dst, r.via, r.to, Name(s)) :
                 s \in findSubnetByCIDR(c, PeerOf(c[p].spec, vpc), r.dst)}
        ELSE {}

findTransitGatewayAttachment(c, tgw, vpc) ==
    Where(c, "TransitGatewayAttachment", LAMBDA s : s.tgw = tgw /\ s.vpc = vpc)

\* subnet stands for the associated TransitGatewayRouteTable.
resolveTransitGatewayRoute(c, k, r) ==
    LET assoc(a) == Key("TransitGatewayRouteTable", c[a].spec.association) IN
    IF IsReady(c, Key("TransitGateway", r.to))
    THEN {Resolved(r.dst, r.via, r.to, c[a].spec.association) :
             a \in {b \in findTransitGatewayAttachment(c, r.to, c[k].spec.vpc) :
                       Has(c, assoc(b)) /\ c[assoc(b)].status.id # NoValue}}
    ELSE {}

resolveSpecRoute(c, k, r) ==
    CASE r.via = "internetGateway" -> {activeRoute(r)}
      [] r.via = "blackhole" -> {blackholeRoute(r)}
      [] r.via = "endpoint" -> resolveEndpointRoute(c, k, r)
      [] r.via = "natGateway" -> resolveNATGatewayRoute(c, k, r)
      [] r.via = "vpcPeering" -> resolveVpcPeeringRoute(c, k, r)
      [] OTHER -> resolveTransitGatewayRoute(c, k, r)

\* The types the controller writes on its own; an entry of one adds nothing.
ControllerOwned == {"connected", "service", "vpcEndpoint"}

\* The entries of the spec in order, until one has to wait.
AddRoute(c, k, st, r) ==
    LET new == resolveSpecRoute(c, k, r) IN
    CASE st.waits \/ r.via \in ControllerOwned \/ (\E q \in st.routes : q.dst = r.dst) -> st
      [] ~st.waits /\ new = {} -> [st EXCEPT !.waits = TRUE]
      [] OTHER -> [st EXCEPT !.routes = @ \cup {CHOOSE q \in new : TRUE}]

TablePool == PoolKey("route-table-id")

RouteTableReconcile(c, k) ==
    LET s == c[k].status
        r == FoldLeft(LAMBDA st, q : AddRoute(c, k, st, q),
                      [routes |-> ImpliedRoutes(c, k), waits |-> FALSE], c[k].spec.routes)
        report(id, why) == SetStatus(c, k, [id |-> id, routes |-> r.routes, why |-> why])
        id == IF s.id # NoValue THEN s.id ELSE ValueOf(c, ClaimKey(k, TablePool))
        claim == IF s.id # NoValue THEN <<>>
                 ELSE Guarded(EnsureClaim(c, k, TablePool),
                     WithStatus(c, k, [s EXCEPT !.routes = r.routes, !.why = "ReconcileFailed"]))
    IN  CASE c[k].del -> Done(SetStatus(c, k, [s EXCEPT !.why = "Deleting"]))
          [] ~c[k].del /\ r.waits -> Done(report(s.id, "NotReady"))
          [] ~c[k].del /\ ~r.waits /\ id = NoValue -> Again(claim \o report(s.id, "NotReady"))
          [] OTHER -> Done(claim \o report(id, "Ready"))

TablesOf(c, vpcs) == Where(c, "RouteTable", LAMBDA s : s.vpc \in vpcs)
TablesVia(c, via, to) ==
    Where(c, "RouteTable", LAMBDA s : \E i \in DOMAIN s.routes : s.routes[i].via = via /\ s.routes[i].to = to)

mapSubnetToRouteTables(c, o) ==
    TablesOf(c, {o.spec.vpc} \cup
        {PeerOf(c[p].spec, o.spec.vpc) : p \in Where(c, "VpcPeering", LAMBDA s : Connects(s, o.spec.vpc))})
mapL2NetworkToRouteTables(c, o) == TablesOf(c, {o.spec.vpc})
mapVpcToRouteTables(c, k) == TablesOf(c, {Name(k)})
mapNATGatewayToRouteTables(c, k) ==
    TablesVia(c, "natGateway", Name(k)) \cup IF Name(k) = "default" THEN {Key("RouteTable", "default")} ELSE {}
mapVpcPeeringToRouteTables(c, k) == TablesVia(c, "vpcPeering", Name(k))
routeTablesUsingTransitGateway(c, tgw) == TablesVia(c, "transitGateway", tgw)
mapServiceToRouteTables(c) == Of(c, "RouteTable")
routeTablesWithEndpointsIn(c) ==
    Where(c, "RouteTable", LAMBDA s : \E i \in DOMAIN s.routes : s.routes[i].via = "endpoint")
mapClaimToRouteTables(c, o) ==
    ClaimsFor(o, "RouteTable")
    \cup IF Kind(o.spec.ref) = "NetworkInterface" THEN routeTablesWithEndpointsIn(c) ELSE {}
\* A lease whose claim is gone wakes nobody.
mapLeaseToRouteTables(c, o) == IF Has(c, o.spec.claim) THEN routeTablesWithEndpointsIn(c) ELSE {}

RouteTableWakes(c, k, o) ==
    CASE Kind(k) = "Subnet" -> mapSubnetToRouteTables(c, o)
      [] Kind(k) = "L2Network" -> mapL2NetworkToRouteTables(c, o)
      [] Kind(k) \in {"NetworkEndpoint", "NetworkInterface"} -> routeTablesWithEndpointsIn(c)
      [] Kind(k) = "Vpc" -> mapVpcToRouteTables(c, k)
      [] Kind(k) = "AllocationClaim" -> mapClaimToRouteTables(c, o)
      [] Kind(k) = "AllocationLease" -> mapLeaseToRouteTables(c, o)
      [] Kind(k) = "NATGateway" -> mapNATGatewayToRouteTables(c, k)
      [] Kind(k) = "VpcPeering" -> mapVpcPeeringToRouteTables(c, k)
      [] Kind(k) = "TransitGateway" -> routeTablesUsingTransitGateway(c, Name(k))
      [] Kind(k) \in {"TransitGatewayAttachment", "TransitGatewayRouteTable"} ->
             routeTablesUsingTransitGateway(c, o.spec.tgw)
      [] Kind(k) = "Service" -> mapServiceToRouteTables(c)
      [] OTHER -> {}

(***************************************************************************)
(* transitgateway_controller.go                                            *)
(***************************************************************************)
TransitGatewayReconcile(c, k) ==
    LET s == c[k].status
        rt == Key("TransitGatewayRouteTable", Name(k))
        table == IF Has(c, rt) THEN [c[rt] EXCEPT !.owner = RefTo(c, k), !.spec.tgw = Name(k)]
                 ELSE NewObject(c, rt, RefTo(c, k), [tgw |-> Name(k), routes |-> <<>>], NewTableStatus)
        failed == WithStatus(c, k, [s EXCEPT !.why = "ReconcileFailed"])
        report(why) == SetStatus(c, k, [table |-> Name(k), why |-> why])
    IN  CASE c[k].del -> Done(SetStatus(c, k, [s EXCEPT !.why = "Deleting"]))
          [] ~c[k].del /\ table # At(c, rt) -> Again(Guarded(Write(rt, table), failed))
          [] ~c[k].del /\ table = At(c, rt) /\ ~Ready(table) -> Done(report("RouteTableNotReady"))
          [] OTHER -> Done(report("Ready"))

TransitGatewayWakes(c, k, o) ==
    IF Kind(k) = "TransitGatewayRouteTable" THEN {Key("TransitGateway", o.spec.tgw)} ELSE {}

(***************************************************************************)
(* transitgatewayroutetable_controller.go.  A destination two attachments  *)
(* propagate stops the table; a static route replaces a propagated one.    *)
(***************************************************************************)
propagatedRoutes(c, k) ==
    UNION {{[dst |-> p.cidr, to |-> Name(a), subnet |-> p.subnet, active |-> TRUE] :
               p \in c[a].status.prefixes} :
              a \in Where(c, "TransitGatewayAttachment",
                          LAMBDA s : s.tgw = c[k].spec.tgw /\ Name(k) \in s.propagations)}

Ambiguous(routes) == \E q, r \in routes : q # r /\ q.dst = r.dst

resolveStaticRoute(c, k, r) ==
    LET a == Key("TransitGatewayAttachment", r.to) IN
    CASE r.to = "" -> {[dst |-> r.dst, to |-> "", subnet |-> "", active |-> FALSE]}
      [] r.to # "" /\ Has(c, a) /\ c[a].spec.tgw = c[k].spec.tgw ->
             {[dst |-> r.dst, to |-> r.to, subnet |-> p.subnet, active |-> TRUE] :
                 p \in {q \in c[a].status.prefixes : q.cidr = r.dst}}
      [] OTHER -> {}

transitRoutes(c, k) ==
    LET idx == DOMAIN c[k].spec.routes IN
    UNION {resolveStaticRoute(c, k, c[k].spec.routes[i]) : i \in idx}
    \cup {r \in propagatedRoutes(c, k) : \A i \in idx : c[k].spec.routes[i].dst # r.dst}

TransitTablePool == PoolKey("transit-gateway-route-table-id")

TransitTableReconcile(c, k) ==
    LET s == c[k].status
        keep(why) == SetStatus(c, k, [s EXCEPT !.why = why])
        static(i) == resolveStaticRoute(c, k, c[k].spec.routes[i])
        idx == DOMAIN c[k].spec.routes
        propagated == propagatedRoutes(c, k)
        routes == transitRoutes(c, k)
        id == IF s.id # NoValue THEN s.id ELSE ValueOf(c, ClaimKey(k, TransitTablePool))
        report(n, why) == SetStatus(c, k, [id |-> n, routes |-> routes, why |-> why])
        claim == IF s.id # NoValue THEN <<>>
                 ELSE Guarded(EnsureClaim(c, k, TransitTablePool),
                     WithStatus(c, k, [s EXCEPT !.routes = routes, !.why = "ReconcileFailed"]))
    IN  CASE c[k].del -> Done(keep("Deleting"))
          [] ~c[k].del /\ ~Has(c, Key("TransitGateway", c[k].spec.tgw)) -> Done(keep("TransitGatewayMissing"))
          [] ~c[k].del /\ Has(c, Key("TransitGateway", c[k].spec.tgw)) /\ Ambiguous(propagated) ->
                 Done(keep("AmbiguousRoute"))
          [] ~c[k].del /\ Has(c, Key("TransitGateway", c[k].spec.tgw)) /\ ~Ambiguous(propagated)
             /\ (\E i \in idx : static(i) = {}) -> Done(keep("NotReady"))
          [] OTHER -> IF id = NoValue THEN Again(claim \o report(s.id, "NotReady"))
                      ELSE Done(claim \o report(id, "Ready"))

routeTablesOfTransitGateway(c, tgw) == Where(c, "TransitGatewayRouteTable", LAMBDA s : s.tgw = tgw)

TransitTableWakes(c, k, o) ==
    CASE Kind(k) = "TransitGateway" -> routeTablesOfTransitGateway(c, Name(k))
      [] Kind(k) = "TransitGatewayAttachment" -> routeTablesOfTransitGateway(c, o.spec.tgw)
      [] Kind(k) = "AllocationClaim" -> ClaimsFor(o, "TransitGatewayRouteTable")
      [] OTHER -> {}

(***************************************************************************)
(* transitgatewayattachment_controller.go                                  *)
(***************************************************************************)
RouteTables(spec) == {spec.association} \cup spec.propagations

collectPrefixes(c, vpc) ==
    {[cidr |-> c[s].spec.cidr, subnet |-> Name(s)] : s \in mapVpcToSubnets(c, Key("Vpc", vpc))}

TransitAttachmentReconcile(c, k) ==
    LET spec == c[k].spec
        vpc == Key("Vpc", spec.vpc)
        tables == {Key("TransitGatewayRouteTable", t) : t \in RouteTables(spec)}
        keep(why) == SetStatus(c, k, [c[k].status EXCEPT !.why = why])
        wrong == {t \in tables : ~Has(c, t) \/ c[t].spec.tgw # spec.tgw}
    IN  CASE c[k].del -> Done(keep("Deleting"))
          [] ~c[k].del /\ ~Has(c, Key("TransitGateway", spec.tgw)) -> Done(keep("TransitGatewayMissing"))
          [] ~c[k].del /\ Has(c, Key("TransitGateway", spec.tgw)) /\ ~Has(c, vpc) -> Done(keep("VpcNotFound"))
          [] ~c[k].del /\ Has(c, Key("TransitGateway", spec.tgw)) /\ Has(c, vpc)
             /\ c[vpc].status.id = NoValue -> Again(keep("NotReady"))
          [] OTHER -> IF wrong # {} THEN Done(keep("RouteTableWrong"))
                      ELSE Done(SetStatus(c, k, [prefixes |-> collectPrefixes(c, spec.vpc), why |-> "Ready"]))

TransitAttachmentWakes(c, k, o) ==
    LET attachmentsMatching(P(_)) == Where(c, "TransitGatewayAttachment", P) IN
    CASE Kind(k) = "TransitGateway" -> attachmentsMatching(LAMBDA s : s.tgw = Name(k))
      [] Kind(k) = "TransitGatewayRouteTable" -> attachmentsMatching(LAMBDA s : Name(k) \in RouteTables(s))
      [] Kind(k) = "Vpc" -> attachmentsMatching(LAMBDA s : s.vpc = Name(k))
      [] Kind(k) = "Subnet" -> attachmentsMatching(LAMBDA s : s.vpc = o.spec.vpc)
      [] OTHER -> {}

(***************************************************************************)
(* vpcpeering_controller.go                                                *)
(***************************************************************************)
conflictingSubnets(c, a, b) ==
    {<<s, t>> \in mapVpcToSubnets(c, Key("Vpc", a)) \X mapVpcToSubnets(c, Key("Vpc", b)) :
        ipNetsOverlap(c[s].spec.cidr, c[t].spec.cidr)}

\* The two sides are looked at in turn; the first one missing decides.
VpcPeeringReconcile(c, k) ==
    LET sides == <<Key("Vpc", c[k].spec.requester), Key("Vpc", c[k].spec.accepter)>>
        report(why) == SetStatus(c, k, [why |-> why])
        bad == {i \in 1 .. 2 : ~Has(c, sides[i]) \/ c[sides[i]].status.id = NoValue}
        first == IF 1 \in bad THEN 1 ELSE 2
    IN  CASE c[k].del -> Done(report("Deleting"))
          [] ~c[k].del /\ bad # {} ->
                 IF Has(c, sides[first]) THEN Again(report("NotReady")) ELSE Done(report("VpcNotFound"))
          [] OTHER -> Done(report(
                 IF conflictingSubnets(c, c[k].spec.requester, c[k].spec.accepter) = {}
                 THEN "Ready" ELSE "CIDRConflict"))

peeringsOfVpc(c, vpc) == Where(c, "VpcPeering", LAMBDA s : Connects(s, vpc))

VpcPeeringWakes(c, k, o) ==
    CASE Kind(k) = "Vpc" -> peeringsOfVpc(c, Name(k))
      [] Kind(k) = "Subnet" -> peeringsOfVpc(c, o.spec.vpc)
      [] OTHER -> {}

(***************************************************************************)
(* vpcendpoint_controller.go.  ip tells whether a Service has a ClusterIP, *)
(* nodes where its ready endpoints are.                                    *)
(***************************************************************************)
serviceAccepted(c, k) ==
    LET svc == Key("Service", c[k].spec.service)
        owner == Key("Vpc", c[svc].spec.vpc)
    IN  CASE ~Has(c, svc) -> "ServiceNotFound"
          [] Has(c, svc) /\ ~c[svc].spec.ip -> "ClusterIPUnavailable"
          [] Has(c, svc) /\ c[svc].spec.ip /\ ~Has(c, owner) -> "ServiceVpcNotFound"
          [] Has(c, svc) /\ c[svc].spec.ip /\ Has(c, owner) /\ ~ServiceEnabled(c[owner].spec) ->
                 "ServiceRoutingDisabled"
          [] Has(c, svc) /\ c[svc].spec.ip /\ Has(c, owner) /\ ServiceEnabled(c[owner].spec)
             /\ c[svc].spec.vpc # c[k].spec.vpc /\ c[owner].spec.provider = "" -> "NotAServiceProvider"
          [] OTHER -> "Accepted"

backendsReady(c, k) ==
    \E e \in Where(c, "EndpointSlice", LAMBDA s : s.service = c[k].spec.service) : c[e].spec.nodes # {}

VpcEndpointReconcile(c, k) ==
    LET vpc == Key("Vpc", c[k].spec.vpc)
        pool == PoolOf("vpcendpoint", c[k].spec.vpc)
        address == ValueOf(c, ClaimKey(k, pool))
        accepted == serviceAccepted(c, k)
        report(claimed, why) == SetStatus(c, k,
            [address |-> IF claimed THEN address ELSE NoAddress, claimed |-> claimed,
             accepted |-> accepted, why |-> why])
    IN  CASE c[k].del -> Nothing
          [] ~c[k].del /\ ~Has(c, vpc) ->
                 Done(SetStatus(c, k, [NewVpcEndpointStatus EXCEPT !.accepted = "VpcUnavailable",
                                                                    !.why = "VpcUnavailable"]))
          [] ~c[k].del /\ Has(c, vpc) /\ c[vpc].spec.endpointPool = {} ->
                 Done(report(FALSE, "EndpointPoolNotConfigured"))
          [] OTHER -> Done(EnsureClaim(c, k, pool) \o
                 (CASE address = NoAddress -> report(TRUE, "AddressPending")
                    [] address # NoAddress /\ accepted # "Accepted" -> report(TRUE, "ServiceNotAccepted")
                    [] address # NoAddress /\ accepted = "Accepted" /\ ~backendsReady(c, k) ->
                           report(TRUE, "BackendUnavailable")
                    [] OTHER -> report(TRUE, "Ready")))

requestsForService(c, service) == Where(c, "VpcEndpoint", LAMBDA s : s.service = service)
mapVpcToVpcEndpoints(c, k) == Where(c, "VpcEndpoint", LAMBDA s : s.vpc = Name(k))

VpcEndpointWakes(c, k, o) ==
    CASE Kind(k) = "AllocationClaim" -> Owner(o, "VpcEndpoint")
      [] Kind(k) = "Vpc" -> mapVpcToVpcEndpoints(c, k)
      [] Kind(k) = "Service" -> requestsForService(c, Name(k))
      [] Kind(k) = "EndpointSlice" -> requestsForService(c, o.spec.service)
      [] OTHER -> {}
=============================================================================
