---------------------------- MODULE Controllers ----------------------------
(***************************************************************************)
(* The controller manager: every controller of the modules below on one    *)
(* API server, one set of caches and the allocator, with the users'        *)
(* changes, failing calls, and crashes of the manager.                     *)
(*                                                                         *)
(* A world is what a behaviour starts from: the keys that may come to      *)
(* exist, the objects there are, those that are queued, what the users     *)
(* will do next, and the failures.                                         *)
(***************************************************************************)
EXTENDS Services, Filters

CONSTANT Worlds

NewStatus(k) ==
    CASE Kind(k) = "Vpc" -> NewVpcStatus
      [] Kind(k) \in {"RouteTable", "TransitGatewayRouteTable"} -> NewTableStatus
      [] Kind(k) = "Subnet" -> NewSubnetStatus
      [] Kind(k) = "L2Network" -> NewL2NetworkStatus
      [] Kind(k) = "NATGateway" -> NewIDStatus
      [] Kind(k) = "ExternalNetwork" -> [id |-> NoValue]
      [] Kind(k) = "NetworkEndpoint" -> NewEndpointStatus
      [] Kind(k) = "TransitGateway" -> NewGatewayStatus
      [] Kind(k) = "TransitGatewayAttachment" -> NewPrefixesStatus
      [] Kind(k) = "VpcPeering" -> NewPeeringStatus
      [] Kind(k) = "VpcEndpoint" -> NewVpcEndpointStatus
      [] Kind(k) \in {"NetworkACL", "SecurityGroup"} -> NewFilterStatus
      [] Kind(k) = "ElasticIP" -> NewElasticIPStatus
      [] Kind(k) = "ElasticIPAttachment" -> NewElasticIPAttachmentStatus
      [] Kind(k) = "AddressPool" -> NewAddressPoolStatus
      [] Kind(k) = "Service" -> NewServiceStatus
      [] Kind(k) = "DNSZone" -> NewZoneStatus
      [] Kind(k) = "DNSRecord" -> NewRecordStatus
      [] OTHER -> None

Init ==
    \E w \in Worlds :
        /\ obj = [k \in w.keys \cup DOMAIN w.made |-> At(w.made, k)]
        /\ seen = obj
        /\ queue = w.queue
        /\ todo = w.edits
        /\ faults = w.faults

\* The keys an event on an object enqueues: its own, and what the map
\* functions of every controller give.
Wakes(c, k, o) ==
    UNION {{k}, VpcWakes(c, k, o), ServiceNATWakes(c, k, o), SubnetWakes(c, k, o), L2NetworkWakes(c, k, o),
           NATGatewayWakes(c, k, o), ExternalNetworkWakes(c, k, o), AttachmentWakes(c, k, o),
           EndpointWakes(c, k, o), RouteTableWakes(c, k, o), TransitGatewayWakes(c, k, o),
           TransitTableWakes(c, k, o), TransitAttachmentWakes(c, k, o), VpcPeeringWakes(c, k, o),
           VpcEndpointWakes(c, k, o), NetworkACLWakes(c, k, o), SecurityGroupWakes(c, k, o),
           InterfaceWakes(c, k, o), ElasticIPWakes(c, k, o), ElasticIPAttachmentWakes(c, k, o),
           AddressPoolWakes(c, k, o), ServiceSyncWakes(c, k, o), LoadBalancerWakes(c, k, o),
           NodeWakes(c, k, o), DNSZoneWakes(c, k, o), DNSRecordWakes(c, k, o)}

\* The pass of the controller a key belongs to.  Only two act on an object
\* that is gone.
PassOf(c, k) ==
    CASE c[k] = None /\ Kind(k) \notin {"Service", "Node"} -> Nothing
      [] Kind(k) = "Service" -> ServiceSyncReconcile(c, k)
      [] Kind(k) = "Node" -> NodeReconcile(c, k)
      [] Kind(k) = "Vpc" -> VpcReconcile(c, k)
      [] Kind(k) = "ServiceNATAttachment" -> ServiceNATReconcile(c, k)
      [] Kind(k) = "Subnet" -> SubnetReconcile(c, k)
      [] Kind(k) = "L2Network" -> L2NetworkReconcile(c, k)
      [] Kind(k) = "NATGateway" -> NATGatewayReconcile(c, k)
      [] Kind(k) = "ExternalNetwork" -> ExternalNetworkReconcile(c, k)
      [] Kind(k) = "ExternalNetworkAttachment" -> AttachmentReconcile(c, k)
      [] Kind(k) = "NetworkEndpoint" -> EndpointReconcile(c, k)
      [] Kind(k) = "RouteTable" -> RouteTableReconcile(c, k)
      [] Kind(k) = "TransitGateway" -> TransitGatewayReconcile(c, k)
      [] Kind(k) = "TransitGatewayRouteTable" -> TransitTableReconcile(c, k)
      [] Kind(k) = "TransitGatewayAttachment" -> TransitAttachmentReconcile(c, k)
      [] Kind(k) = "VpcPeering" -> VpcPeeringReconcile(c, k)
      [] Kind(k) = "VpcEndpoint" -> VpcEndpointReconcile(c, k)
      [] Kind(k) = "NetworkACL" -> NetworkACLReconcile(c, k)
      [] Kind(k) = "SecurityGroup" -> SecurityGroupReconcile(c, k)
      [] Kind(k) = "Pod" -> PodReconcile(c, k)
      [] Kind(k) = "NetworkInterface" -> InterfaceReconcile(c, k)
      [] Kind(k) = "ElasticIP" -> ElasticIPReconcile(c, k)
      [] Kind(k) = "ElasticIPAttachment" -> ElasticIPAttachmentReconcile(c, k)
      [] Kind(k) = "AddressPool" -> AddressPoolReconcile(c, k)
      [] Kind(k) = "ServiceLoadBalancer" -> LoadBalancerReconcile(c, k)
      [] Kind(k) = "DNSZone" -> DNSZoneReconcile(c, k)
      [] Kind(k) = "DNSRecord" -> DNSRecordReconcile(c, k)
      [] OTHER -> Nothing

\* The daemon of the Pod's node answers the CNI ADD of an interface that has
\* what it asked for; module PodAttach models the call.
Attachable(k) ==
    LET e == Key2("NetworkEndpoint", k[2], k[3]) IN
    /\ Kind(k) = "NetworkInterface" /\ e \in DOMAIN obj /\ obj[e] = None
    /\ obj[k] # None /\ ~obj[k].del /\ obj[k].status.phase = "Allocated"
Attach(k) ==
    LET e == Key2("NetworkEndpoint", k[2], k[3])
        spec == obj[k].spec
    IN  /\ Attachable(k)
        /\ obj' = [obj EXCEPT ![e] = NewObject(seen, e, RefTo(obj, k),
               [kind |-> "Pod", node |-> spec.node, subnet |-> IF spec.kind = "Subnet" THEN spec.net ELSE "",
                address |-> obj[k].status.address, pod |-> spec.pod, mac |-> TRUE], NewEndpointStatus)]
        /\ UNCHANGED <<seen, queue, todo, faults>>

Reconcile == \E k \in queue : Work(k, PassOf(seen, k))
CallFails == \E k \in queue : WorkFails(k, PassOf(seen, k))
Crash == \E k \in queue : CrashAndRestart(k, PassOf(seen, k), Wakes)
Informers == \E kind \in {Kind(k) : k \in DOMAIN obj} : Deliver(kind, Wakes)
Allocator == \E k \in DOMAIN obj : Allocate(k) \/ Release(k) \/ Expire(k)
Background == \E k \in DOMAIN obj : GarbageCollect(k) \/ Attach(k)

(***************************************************************************)
(* A key is idle when its pass, run on the API server's own objects, would *)
(* change nothing.                                                         *)
(***************************************************************************)
Idle(k) == Outcome(k, PassOf(obj, k)).obj = obj
Unchanging == \A k \in DOMAIN obj : ~Orphan(k) /\ ~Servable(k) /\ ~Releasable(k)
Quiet ==
    /\ seen = obj
    /\ Unchanging
    /\ \A k \in queue : Idle(k)

\* A user who is calm waits until the last change has taken effect.
Users == \E e \in Upcoming : (e.calm => Quiet) /\ Edit(e, NewStatus(e.key))

Next == Reconcile \/ CallFails \/ Crash \/ Informers \/ Allocator \/ Background \/ Users

(***************************************************************************)
(* Fairness.  Every informer catches up again and again.  The users and    *)
(* the failures stop by themselves, the rest does not as long as it has    *)
(* something to do: a step that leaves todo and faults alone is one of     *)
(* Reconcile, Informers, Allocator and Background, and Rested says that    *)
(* none of them is enabled.  Weak fairness of each worker, of each         *)
(* informer, of the garbage collector and of the allocator gives both;     *)
(* written out because TLC is slow at ENABLED.                             *)
(***************************************************************************)
Kinds == {Kind(k) : k \in UNION {w.keys \cup DOMAIN w.made : w \in Worlds}}
Current(kind) == \A k \in DOMAIN obj : Kind(k) = kind => seen[k] = obj[k]

System == UNCHANGED <<todo, faults>>
Rested ==
    /\ seen = obj
    /\ Unchanging
    /\ \A k \in DOMAIN obj : ~Expirable(k) /\ ~Attachable(k)
    /\ \A k \in queue : Outcome(k, PassOf(obj, k)) = [obj |-> obj, again |-> TRUE]
Fairness ==
    /\ \A kind \in Kinds : []<>Current(kind)
    /\ []<>Rested \/ []<><<System>>_clusterVars

Spec == Init /\ [][Next]_clusterVars /\ Fairness

(***************************************************************************)
(* What the manager promises.                                              *)
(***************************************************************************)
\* No wake-up is lost: when every informer has caught up and nothing that is
\* queued would change anything, no pass of any controller would.  What a
\* Reconcile reads and what its SetupWithManager watches are kept in step by
\* hand, in 25 controllers.
NoLostWakeups == Quiet => \A k \in DOMAIN obj : Idle(k)

\* Once the users stop and the failures are over, the controllers come to rest:
\* no two of them undo each other's writes, and every conflict is retried.
Converges == <>[]Quiet

NumberedKinds == {"Vpc", "RouteTable", "Subnet", "L2Network", "ExternalNetwork", "NATGateway",
                  "TransitGatewayRouteTable", "NetworkACL", "SecurityGroup"}
NumberOf(o, k) == IF Kind(k) \in {"Subnet", "L2Network"} THEN o.status.vni ELSE o.status.id
\* Subnets, L2Networks and ExternalNetworks are VXLAN segments.
NumberSpace(k) == IF Kind(k) \in {"Subnet", "L2Network", "ExternalNetwork"} THEN "vni" ELSE Kind(k)
HasNumber(c, k) == Kind(k) \in NumberedKinds /\ c[k] # None /\ NumberOf(c[k], k) # NoValue

\* When the object was created, no trace of an earlier one of its name was left:
\* no object it owned, and no copy in the caches (FreshUid).
FirstOfName(o) == o.uid = 0

\* No two objects show one ID of the data plane, whatever was deleted, crashed
\* or cached late.  Left out are objects that were re-created under their name
\* before the garbage collector was through with their predecessor: they find
\* the predecessor's claim, which is being deleted, and take its number, which is
\* then given to another object as well.
UniqueIDs ==
    \A j, k \in {i \in DOMAIN obj : HasNumber(obj, i) /\ FirstOfName(obj[i])} :
        j # k /\ NumberSpace(j) = NumberSpace(k) => NumberOf(obj[j], j) # NumberOf(obj[k], k)

\* An object keeps the ID it was given for its whole life.  Left out are again the
\* objects that took the number of a claim of their predecessor: once that claim
\* is gone, their own may hold another.
IDsKept ==
    [][\A k \in DOMAIN obj :
           HasNumber(obj, k) /\ FirstOfName(obj[k]) /\ obj'[k] # None /\ obj'[k].uid = obj[k].uid =>
               NumberOf(obj'[k], k) = NumberOf(obj[k], k)]_clusterVars

\* Every provider Vpc has its Service NAT on every node and on no other, and each
\* that is ready has an endpoint on its node for the replies.  The address of
\* the endpoint is left out: ensureEndpoint writes it on creation only, and one
\* that was there before (made for another natSourceSubnet, or for a node that
\* has gone and joined again) keeps the address it had.
ProvidedOnEveryNode ==
    /\ Of(obj, "ServiceNATAttachment")
           = {AttachmentKey(Name(n), Name(v)) : n \in Of(obj, "Node"),
                  v \in {u \in Of(obj, "Vpc") : obj[u].spec.provider # ""}}
    /\ \A a \in Of(obj, "ServiceNATAttachment") :
           LET e == serviceNATEndpointName(a) IN
           Ready(obj[a]) => Has(obj, e) /\ obj[e].spec.node = obj[a].spec.node

\* A table has one route for a destination: the prefixes the webhooks
\* keep apart and the routes the controllers put together agree.
OneRoutePerDestination ==
    \A k \in Of(obj, "RouteTable") \cup Of(obj, "TransitGatewayRouteTable") :
        ~Ambiguous(obj[k].status.routes)

\* At rest, traffic has one way to go: a Service NAT on every node that has to
\* have one, with an endpoint, and a single route for each destination.
ForwardingComplete == Quiet => ProvidedOnEveryNode /\ OneRoutePerDestination

\* An ElasticIP is used in one place: no two interfaces have its address, and
\* none has it while an attachment translates to it.
ElasticIPUsedOnce ==
    \A x \in Of(obj, "ElasticIP") :
        Cardinality({n \in Carrying(obj, Name(x)) : obj[n].status.address # NoAddress}
                    \cup {a \in Of(obj, "ElasticIPAttachment") :
                             obj[a].spec.eip = Name(x) /\ obj[a].status.phase = "Attached"}) <= 1

\* No two interfaces of a Subnet or an L2Network show one address, even while
\* the address moves from one Pod of a workload to the next.
AddressesUnique ==
    \A m, n \in {i \in Of(obj, "NetworkInterface") : ~obj[i].del /\ obj[i].spec.kind # "ElasticIP" /\ obj[i].status.address # NoAddress} :
        m # n /\ NetworkKey(obj[m].spec) = NetworkKey(obj[n].spec) => obj[m].status.address # obj[n].status.address

\* An address is used in one place at a time, in whatever order interfaces,
\* attachments and Pods that share or hand over an address come and go.
AddressesUsedOnce == ElasticIPUsedOnce /\ AddressesUnique

\* At rest, nothing is left of what is gone: every claim, announcement,
\* endpoint of a Pod or a node, and load balancer has the object it was made
\* for.  The endpoint of a Service NAT is left out: a ServiceNATAttachment has
\* no finalizer, so its controller finds it gone and never comes to the delete
\* of the endpoint, which stays when a node leaves.
NothingLeaked ==
    Quiet =>
        /\ \A c \in Of(obj, "AllocationClaim") : Has(obj, obj[c].spec.ref)
        /\ \A a \in Of(obj, "ARPAdvertisement") :
               Has(obj, CASE a[2] = "eip" -> Key("ElasticIP", a[3])
                          [] a[2] = "slb" -> Key("ServiceLoadBalancer", a[3])
                          [] OTHER -> Key2("ExternalNetworkAttachment", a[2], a[3]))
        /\ \A e \in Of(obj, "NetworkEndpoint") :
               /\ obj[e].spec.kind = "Pod" => Has(obj, Key2("NetworkInterface", e[2], e[3]))
               /\ obj[e].spec.kind = "Node" => Has(obj, Key("Node", e[3]))
        /\ \A b \in Of(obj, "ServiceLoadBalancer") :
               isJuneauManagedLoadBalancerService(At(obj, Key("Service", obj[b].spec.service)))

\* At rest, a load balancer that has an address shows it on its Service, and
\* announces it from exactly one node, one that has a ready endpoint.
VIPServed ==
    Quiet => \A b \in Of(obj, "ServiceLoadBalancer") :
        LET s == obj[b]
            adv == serviceLoadBalancerAdvertisementName(b)
        IN  s.status.vip # NoAddress /\ s.status.phase \in {"Ready", "Degraded"} =>
                /\ s.status.vip = ValueOf(obj, serviceLoadBalancerClaimName(b))
                /\ obj[Key("Service", s.spec.service)].status.ingress = s.status.vip
                /\ Has(obj, adv) <=> s.status.nodes # {}
                /\ Has(obj, adv) => obj[adv].spec.node \in s.status.nodes /\ obj[adv].spec.address = s.status.vip
=============================================================================
