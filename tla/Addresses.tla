----------------------------- MODULE Addresses -----------------------------
(***************************************************************************)
(* The controllers of Pods, NetworkInterfaces, ElasticIPs, their           *)
(* attachments and AddressPools.  A Pod's nics are what its annotations    *)
(* ask for; the interface of one is keyed by the Pod and the interface     *)
(* name, and its pod <<pod, interface, uid>> tells two Pods of a name      *)
(* apart.  A later interface is created in a later second.                 *)
(***************************************************************************)
EXTENDS Networks

NewInterfaceStatus == [address |-> NoAddress, groups |-> {}, phase |-> "", why |-> "", of |-> None]
NewElasticIPStatus == [phase |-> "", address |-> NoAddress, use |-> NoKey, why |-> "", of |-> None]
NewElasticIPAttachmentStatus ==
    [phase |-> "", eip |-> NoAddress, pod |-> NoAddress, node |-> "", why |-> "", of |-> None]
NewAddressPoolStatus == [total |-> 0, allocated |-> 0]

\* AddFinalizer with the Update and the Get after it: the rest of the pass.
WithFinalizer(c, k, Rest(_, _)) ==
    LET d == [c EXCEPT ![k].fins = {"finalizer"}]
    IN  IF c[k].fins = {} THEN Then(Write(k, d[k]), Rest(d, k)) ELSE Rest(c, k)
DropFinalizer(o) == [o EXCEPT !.fins = {}]

(***************************************************************************)
(* pod_controller.go.  Nothing watches the interfaces.  An interface left  *)
(* by another Pod of the name cannot be taken over: its podRef may not     *)
(* change, so the update is refused until it is gone.                      *)
(***************************************************************************)
networkInterfaceNameForPod(k, a) == Key2("NetworkInterface", Name(k), a.interface)

findUnusableNetwork(c, k) ==
    \E a \in c[k].spec.nics : ~Resolves(c, a) \/ WaitingFor(c, a)

NewestBorn == Max({0} \cup {obj[n].spec.born : n \in Of(obj, "NetworkInterface")})

applyNetworkInterface(c, k, a) ==
    LET n == networkInterfaceNameForPod(k, a)
        spec == [kind |-> a.kind, net |-> a.net, address |-> a.address, groups |-> a.groups,
                 pod |-> <<Name(k), a.interface, c[k].uid>>, node |-> c[k].spec.node,
                 identity |-> c[k].spec.identity, born |-> NewestBorn + 1]
    IN  IF Has(c, n) THEN Write(n, [c[n] EXCEPT !.spec.groups = a.groups])
        ELSE Write(n, NewObject(c, n, RefTo(c, k), spec, NewInterfaceStatus))

deleteNetworkInterfaces(c, k, keep) ==
    Each({n \in Where(c, "NetworkInterface", LAMBDA s : s.pod[3] = c[k].uid /\ s.pod[1] = Name(k)) :
             n[3] \notin keep}, Delete)

PodReconcile(c, k) ==
    LET spec == c[k].spec
        taken == {a \in spec.nics : LET n == networkInterfaceNameForPod(k, a) IN
                     Has(c, n) /\ c[n].spec.pod[3] # c[k].uid}
    IN  CASE c[k].del -> Nothing
          [] ~c[k].del /\ spec.done -> Done(deleteNetworkInterfaces(c, k, {}))
          [] ~c[k].del /\ ~spec.done
             /\ (spec.node = "" \/ findUnusableNetwork(c, k) \/ taken # {}) -> Again(<<>>)
          [] OTHER -> Done(Each(spec.nics, LAMBDA a : applyNetworkInterface(c, k, a))
                 \o deleteNetworkInterfaces(c, k, {a.interface : a \in spec.nics}))

(***************************************************************************)
(* networkinterface_controller.go, networkinterface_elasticip.go           *)
(***************************************************************************)
setPhase(c, k, phase, why) ==
    SetStatus(c, k, [c[k].status EXCEPT !.phase = phase, !.why = why, !.of = c[k].spec])
updateAllocationFailureStatus(c, k, why) == setPhase(c, k, "Failed", why)
updateUnaddressedStatus(c, k, why) ==
    SetStatus(c, k, [address |-> NoAddress, groups |-> {}, phase |-> "Pending", why |-> why,
                     of |-> c[k].spec])

\* Ready once the daemon made the endpoint of this Pod.
hasMatchingEndpoint(c, k) == Where(c, "NetworkEndpoint", LAMBDA s : s.pod = c[k].spec.pod) # {}

updateAllocatedStatus(c, k, address, groups) ==
    SetStatus(c, k, [address |-> address, groups |-> groups, why |-> "AllocationSucceeded",
                     phase |-> IF hasMatchingEndpoint(c, k) THEN "Ready" ELSE "Allocated",
                     of |-> c[k].spec])

resolveEffectiveSecurityGroups(c, k) ==
    LET vpc == c[NetworkKey(c[k].spec)].spec.vpc
        group(g) == Key("SecurityGroup", g)
    IN  {<<g, c[group(g)].status.id>> : g \in {h \in c[k].spec.groups :
            Has(c, group(h)) /\ c[group(h)].spec.vpc = vpc /\ c[group(h)].status.id # NoValue}}

ensureInterfaceClaim(c, k) ==
    LET spec == c[k].spec IN
    CreateClaim(c, claimNameForNetworkInterface(k, spec),
        [pools |-> <<AllocationPoolName(spec)>>, ref |-> k, want |-> spec.address,
         lease |-> leaseNameForNetworkInterface(k, spec)])

reconcilePoolAddressing(c, k) ==
    LET claim == claimNameForNetworkInterface(k, c[k].spec)
        groups == resolveEffectiveSecurityGroups(c, k)
    IN  IF ~AllocatesAddresses(c, c[k].spec) THEN updateAllocatedStatus(c, k, NoAddress, groups)
        ELSE ensureInterfaceClaim(c, k) \o
             (CASE ValueOf(c, claim) # NoValue -> updateAllocatedStatus(c, k, ValueOf(c, claim), groups)
                [] ValueOf(c, claim) = NoValue /\ Exhausted(c, claim) ->
                       updateAllocationFailureStatus(c, k, "SubnetExhausted")
                [] OTHER -> updateAllocationFailureStatus(c, k, "Allocating"))

listActiveElasticIPAttachments(c, eip) ==
    {a \in Where(c, "ElasticIPAttachment", LAMBDA s : s.eip = Name(eip)) : ~c[a].del}

reconcileElasticIPAddressing(c, k) ==
    LET eip == NetworkKey(c[k].spec) IN
    IF listActiveElasticIPAttachments(c, eip) # {} \/ ~HeldBy(c[eip], k)
    THEN updateUnaddressedStatus(c, k, "WaitingForElasticIP")
    ELSE updateAllocatedStatus(c, k, c[eip].status.address, {})

\* Mutant: the claim of an interface stays.
KeepsClaim(c, k) == Write(k, DropFinalizer(c[k]))

handleInterfaceDeletion(c, k) ==
    LET deleting == [c[k] EXCEPT !.status = [@ EXCEPT !.phase = "Pending", !.why = "Deleting",
                                                      !.of = c[k].spec]]
        claim == claimNameForNetworkInterface(k, c[k].spec)
    IN  Write(k, deleting)
        \o (IF c[k].spec.kind # "ElasticIP" /\ Has(c, claim) THEN Delete(claim) ELSE <<>>)
        \o Write(k, DropFinalizer(deleting))

\* The network, or none with the reason on the interface.
fetchNetwork(c, k) ==
    IF Resolves(c, c[k].spec) THEN [network |-> NetworkKey(c[k].spec), do |-> <<>>]
    ELSE [network |-> NoKey, do |-> setPhase(c, k, "Pending", "NetworkNotFound")]

AddressInterface(c, k) ==
    LET spec == c[k].spec
        net == fetchNetwork(c, k)
    IN
    CASE net.network = NoKey -> Again(net.do)
      [] net.network # NoKey /\ WaitingFor(c, spec) -> Again(updateUnaddressedStatus(c, k, "NetworkNotReady"))
      [] OTHER -> Done(IF spec.kind = "ElasticIP" THEN reconcileElasticIPAddressing(c, k)
                       ELSE reconcilePoolAddressing(c, k))

InterfaceReconcile(c, k) ==
    IF c[k].del THEN Done(handleInterfaceDeletion(c, k)) ELSE WithFinalizer(c, k, AddressInterface)

networkInterfacesNaming(c, eip) ==
    Where(c, "NetworkInterface", LAMBDA s : s.kind = "ElasticIP" /\ s.net = eip)
mapSecurityGroupToNetworkInterfaces(c, k) ==
    Where(c, "NetworkInterface", LAMBDA s : Name(k) \in s.groups)

InterfaceWakes(c, k, o) ==
    CASE Kind(k) = "NetworkEndpoint" -> Owner(o, "NetworkInterface")
      [] Kind(k) = "AllocationClaim" -> ClaimsFor(o, "NetworkInterface")
      [] Kind(k) = "SecurityGroup" -> mapSecurityGroupToNetworkInterfaces(c, k)
      [] Kind(k) = "ElasticIP" -> networkInterfacesNaming(c, Name(k))
      [] Kind(k) = "ElasticIPAttachment" -> networkInterfacesNaming(c, o.spec.eip)
      [] OTHER -> {}

(***************************************************************************)
(* elasticip_use.go: what uses the address, or what stops it.  use is the  *)
(* key of an ElasticIPAttachment or of a NetworkInterface.                 *)
(***************************************************************************)
retainedElasticIPHolder(previous, nics) == IF previous \in nics THEN previous ELSE NoKey

oldestNetworkInterface(c, nics) ==
    CHOOSE n \in nics : \A m \in nics : c[n].spec.born <= c[m].spec.born

\* Mutant: an interface that is being deleted is passed over.
HandsOverEarly(c, previous, nics) ==
    LET live == {n \in nics : ~c[n].del} IN
    CASE previous \in live \/ live = {} -> retainedElasticIPHolder(previous, nics)
      [] OTHER -> oldestNetworkInterface(c, live)

selectElasticIPHolder(c, previous, nics) ==
    CASE previous \in nics -> retainedElasticIPHolder(previous, nics)
      [] previous \notin nics /\ (\E n \in nics : c[n].del) -> NoKey
      [] OTHER -> oldestNetworkInterface(c, nics)

NoUse == [use |-> NoKey, node |-> "", why |-> "AwaitingAttachment"]

decideElasticIPUse(c, previous, attachments, nics) ==
    LET one == CHOOSE a \in attachments : TRUE
        holder == selectElasticIPHolder(c, previous, nics)
    IN  CASE Cardinality(attachments) > 1 \/ (attachments # {} /\ nics # {}) ->
                 [NoUse EXCEPT !.why = "Conflict"]
          [] Cardinality(attachments) = 1 /\ nics = {} ->
                 [use |-> one, node |-> c[one].status.node, why |-> "Attached"]
          [] attachments = {} /\ nics = {} -> NoUse
          [] OTHER -> IF holder = NoKey THEN [NoUse EXCEPT !.why = "WaitingForHandover"]
                      ELSE [use |-> holder, node |-> c[holder].spec.node, why |-> "Attached"]

(***************************************************************************)
(* elasticip_controller.go.  Neither the ExternalNetwork nor its pools are *)
(* watched.                                                                *)
(***************************************************************************)
elasticIPClaimName(k) == ClaimKey(k, PoolKey("elasticip"))
elasticIPAdvertisementName(k) == Key2("ARPAdvertisement", "eip", Name(k))

elasticIPStatus(c, k, phase, address, use, why) ==
    SetAliasedStatus(c, k, [phase |-> phase, address |-> address, use |-> use, why |-> why, of |-> None])
elasticIPErrorStatus(c, k, why) ==
    elasticIPStatus(c, k, "Error", c[k].status.address, NoKey, why)

ensureElasticIPClaim(c, k, pools) ==
    CreateClaim(c, elasticIPClaimName(k),
        [pools |-> pools, ref |-> k, want |-> c[k].spec.want, lease |-> NoKey])

reconcileAdvertisement(c, k, address, node) ==
    LET adv == elasticIPAdvertisementName(k)
        net == c[k].spec.net
    IN  IF c[Key("ExternalNetwork", net)].spec.type = "bgp" \/ address = NoAddress \/ node = "" THEN Delete(adv)
        ELSE ensureARPAdvertisement(c, adv, NoOwner, [net |-> net, address |-> address, node |-> node])

updateUseStatus(c, k, address, u) ==
    CASE u.why = "Conflict" -> elasticIPErrorStatus(c, k, "Conflict")
      [] u.use # NoKey -> elasticIPStatus(c, k, "Attached", address, u.use, u.why)
      [] OTHER -> elasticIPStatus(c, k, "Available", address, NoKey, u.why)

\* As resolvePools, with the ElasticIP's own reasons.
elasticIPPoolRefs(c, k) ==
    LET r == resolvePools(c, k) IN
    IF r.why = "InvalidPool" THEN [r EXCEPT !.why = "InvalidAddressPool"] ELSE r

UseElasticIP(c, k) ==
    LET r == elasticIPPoolRefs(c, k)
        claim == elasticIPClaimName(k)
        address == ValueOf(c, claim)
        u == decideElasticIPUse(c, c[k].status.use, listActiveElasticIPAttachments(c, k),
                                networkInterfacesNaming(c, Name(k)))
        pending(why) == elasticIPStatus(c, k, "Pending", NoAddress, NoKey, why)
    IN  IF r.why # "" THEN Done(elasticIPErrorStatus(c, k, r.why))
        ELSE Then(ensureElasticIPClaim(c, k, r.pools) \o reconcileAdvertisement(c, k, address, u.node),
                  CASE Exhausted(c, claim) -> Again(pending("NoAddressAvailable"))
                    [] ~Exhausted(c, claim) /\ address = NoAddress -> Done(pending("Allocating"))
                    [] OTHER -> Done(updateUseStatus(c, k, address, u)))

\* Nothing is released while an interface names the address.
handleElasticIPDeletion(c, k) ==
    LET nics == networkInterfacesNaming(c, Name(k))
        s == c[k].status
    IN  CASE c[k].fins = {} -> <<>>
          [] c[k].fins # {} /\ nics # {} ->
                 elasticIPStatus(c, k, s.phase, s.address, retainedElasticIPHolder(s.use, nics),
                                 "WaitingForNetworkInterfaces")
          [] OTHER -> Delete(elasticIPAdvertisementName(k)) \o Delete(elasticIPClaimName(k))
                      \o Write(k, DropFinalizer(c[k]))

ElasticIPReconcile(c, k) ==
    IF c[k].del THEN Done(handleElasticIPDeletion(c, k)) ELSE WithFinalizer(c, k, UseElasticIP)

mapNetworkInterfaceToElasticIP(o) == IF o.spec.kind = "ElasticIP" THEN {NetworkKey(o.spec)} ELSE {}

ElasticIPWakes(c, k, o) ==
    CASE Kind(k) = "NetworkInterface" -> mapNetworkInterfaceToElasticIP(o)
      [] Kind(k) = "ElasticIPAttachment" -> {Key("ElasticIP", o.spec.eip)}
      [] Kind(k) = "AllocationClaim" -> ClaimsFor(o, "ElasticIP")
      [] OTHER -> {}

(***************************************************************************)
(* elasticipattachment_controller.go                                       *)
(***************************************************************************)
findMatchingNetworkEndpoints(c, nic) ==
    Where(c, "NetworkEndpoint", LAMBDA s : s.pod = c[nic].spec.pod)

elasticIPAttachmentWait(c, k, eip) ==
    c[eip].del \/ c[eip].status.address = NoAddress \/ c[eip].status.use # k

updateAttachmentStatus(c, k, phase, address, pod, node, why) ==
    SetAliasedStatus(c, k, [phase |-> phase, eip |-> address, pod |-> pod, node |-> node,
                            why |-> why, of |-> None])
updateAttachmentError(c, k, why) == updateAttachmentStatus(c, k, "Error", NoAddress, NoAddress, "", why)

ElasticIPAttachmentReconcile(c, k) ==
    LET eip == Key("ElasticIP", c[k].spec.eip)
        nic == c[k].spec.nic
        ends == findMatchingNetworkEndpoints(c, nic)
        report(phase, address, pod, node, why) ==
            Done(updateAttachmentStatus(c, k, phase, address, pod, node, why))
        error == Done(updateAttachmentError(c, k, "ReconcileFailed"))
        address == c[eip].status.address
        pending(pod, node, why) == report("Pending", address, pod, node, why)
        Target(n) ==
            CASE n.del \/ n.status.address = NoAddress -> pending(NoAddress, "", "ReconcileFailed")
              [] ~n.del /\ n.status.address # NoAddress /\ n.spec.node = "" ->
                     pending(n.status.address, "", "ReconcileFailed")
              [] OTHER ->
                     CASE Cardinality(ends) > 1 -> error
                       [] ends = {} \/ (\E e \in ends : Cardinality(ends) = 1 /\ c[e].del) ->
                              pending(n.status.address, n.spec.node, "WaitingForNetworkEndpoint")
                       [] OTHER -> report("Attached", address, n.status.address, n.spec.node, "Attached")
    IN  CASE c[k].del -> Nothing
          [] ~c[k].del /\ ~Has(c, eip) -> error
          [] ~c[k].del /\ Has(c, eip) /\ elasticIPAttachmentWait(c, k, eip) ->
                 report("Pending", NoAddress, NoAddress, "", "WaitingForElasticIP")
          [] OTHER -> IF Has(c, nic) THEN Target(c[nic]) ELSE error

attachmentsOf(c, nics) == Where(c, "ElasticIPAttachment", LAMBDA s : s.nic \in nics)
mapNetworkEndpointToAttachments(c, o) ==
    attachmentsOf(c, IF o.spec.pod = NoPod THEN {} ELSE Where(c, "NetworkInterface", LAMBDA s : s.pod = o.spec.pod))

ElasticIPAttachmentWakes(c, k, o) ==
    CASE Kind(k) = "ElasticIP" -> Where(c, "ElasticIPAttachment", LAMBDA s : s.eip = Name(k))
      [] Kind(k) = "NetworkInterface" -> attachmentsOf(c, {k})
      [] Kind(k) = "NetworkEndpoint" -> mapNetworkEndpointToAttachments(c, o)
      [] OTHER -> {}

(***************************************************************************)
(* addresspool_controller.go, addresspool_counts.go.  addresses is a set   *)
(* of prefixes; the range of an arp pool is a set of single addresses.     *)
(***************************************************************************)
poolOf(k) == PoolOf("addresspool", Name(k))

countPoolAddresses(c, k) ==
    LET all == UNION {Pickable(p, {}) : p \in c[k].spec.addresses}
        used == {c[j].status.value : j \in {i \in Of(c, "AllocationClaim") : c[i].status.from = poolOf(k)}}
                \cup {c[j].spec.value : j \in {i \in Of(c, "AllocationLease") : c[i].spec.from = poolOf(k)}}
    IN  [total |-> Cardinality(all), allocated |-> Cardinality(all \cap used)]

AddressPoolReconcile(c, k) ==
    IF c[k].del THEN Nothing
    ELSE Done(EnsurePool(c, k, poolOf(k), c[k].spec.addresses, {})
              \o SetStatus(c, k, countPoolAddresses(c, k)))

addressPoolForAllocationPool(pool) == IF pool[2] = "addresspool" THEN {Key("AddressPool", pool[3])} ELSE {}

AddressPoolWakes(c, k, o) ==
    CASE Kind(k) = "AllocationPool" -> Owner(o, "AddressPool")
      [] Kind(k) = "AllocationClaim" ->
             UNION {addressPoolForAllocationPool(o.spec.pools[i]) : i \in DOMAIN o.spec.pools}
      [] Kind(k) = "AllocationLease" -> addressPoolForAllocationPool(o.spec.from)
      [] OTHER -> {}
=============================================================================
