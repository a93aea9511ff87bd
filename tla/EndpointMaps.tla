----------------------------- MODULE EndpointMaps -----------------------------
(***************************************************************************)
(* The daemon's reconcilers keyed by NetworkEndpoint: arp, fdb, pod-iface, *)
(* elastic-ip-direct and the attacher of the tc programs.                  *)
(*                                                                         *)
(* A NetworkEndpoint is [net, node, ip, addr, mac, ifindex, host]: the key *)
(* of its network, spec.nodeName, status.nodeIP, spec.address,             *)
(* spec.macAddress and the attachment's ifindex and host MAC (0 and None   *)
(* while the CNI has not attached it).  A network has the number id.       *)
(***************************************************************************)
EXTENDS BpfTables

OnL2(e) == e.net[1] = "L2Network"
isLocal(e) == e.node = Self
Attached(e) == isLocal(e) /\ e.ifindex # 0

(* overlaySegmentID: a Subnet that is not there is an error, an            *)
(* ExternalNetwork that is not there or has no ID is not ready.            *)
SubnetMissing(e) == e.net[1] = "Subnet" /\ Get(e.net) = None
NetworkReady(e) == e.net[1] # "Subnet" => (Get(e.net) # None /\ Get(e.net).id # 0)
overlaySegmentID(e) == Get(e.net).id

(* The shape of a pass: taken down, failed, or upserted. *)
OnSegment(e, skip(_), delete, upsert(_)) ==
    IF e = None THEN delete
    ELSE IF skip(e) THEN delete
    ELSE IF SubnetMissing(e) THEN <<Error>>
    ELSE IF ~ NetworkReady(e) THEN delete
    ELSE upsert(e)

(* Every one of them wakes for its endpoint, and all but the attacher for  *)
(* the endpoints of an ExternalNetwork.                                    *)
externalNetworkEndpointKeys(k, c) ==
    {x \in DOMAIN c : x[1] = "NetworkEndpoint" /\ c[x] # None /\ c[x].net = k}

EndpointWakes(k, c) ==
    IF k[1] = "NetworkEndpoint" THEN {k}
    ELSE IF k[1] = "ExternalNetwork" THEN externalNetworkEndpointKeys(k, c)
    ELSE {}

AttacherWakes(k) == IF k[1] = "NetworkEndpoint" THEN {k} ELSE {}

-----------------------------------------------------------------------------
(* arp: arp_table[segment, address] = MAC *)

ArpDelete(k) ==
    When(Has("arp", k), <<Del("arp_table", tables.arp[k]), Drop("arp", k)>>)

ArpUpsert(k, e) ==
    LET want == <<overlaySegmentID(e), e.addr>> IN
    When(Has("arp", k) /\ tables.arp[k] # want, <<Del("arp_table", tables.arp[k])>>)
        \o <<Put("arp_table", want, e.mac), Keep("arp", k, want)>>

ArpPass(k) == OnSegment(Get(k), OnL2, ArpDelete(k), LAMBDA e : ArpUpsert(k, e))

-----------------------------------------------------------------------------
(* fdb: the local table names the veth, the remote one the node *)

mapFor(local) == IF local THEN "fdb_local" ELSE "fdb_remote"

FdbDelete(k) ==
    When(Has("fdb", k), LET old == tables.fdb[k] IN
        <<Del(mapFor(old.local), old.key), Drop("fdb", k)>>)

FdbUpsert(k, e) ==
    LET wanted == IF isLocal(e) THEN e.ifindex # 0 ELSE e.ip # ""
        want == [key |-> <<overlaySegmentID(e), e.mac>>, local |-> isLocal(e)]
        where == IF isLocal(e) THEN [ifindex |-> e.ifindex] ELSE [vtep |-> e.ip]
    IN  When(Has("fdb", k) /\ (wanted => tables.fdb[k] # want), FdbDelete(k))
            \o When(wanted, <<Put(mapFor(want.local), want.key, where), Keep("fdb", k, want)>>)

FdbPass(k) == OnSegment(Get(k), OnL2, FdbDelete(k), LAMBDA e : FdbUpsert(k, e))

-----------------------------------------------------------------------------
(* pod-iface: the network and the host MAC behind a local veth *)

deleteEntries(ifindex) ==
    <<Del("ifindex_subnet", ifindex), Del("ifindex_external_network", ifindex),
      Del("ifindex_host_mac", ifindex)>>

PodIfaceDelete(k) ==
    When(Has("pod_iface", k),
         deleteEntries(tables.pod_iface[k]) \o <<Drop("pod_iface", k)>>)

PodIfaceUpsert(k, e) ==
    LET entry == <<overlaySegmentID(e), e.addr>> IN
    When(Has("pod_iface", k) /\ tables.pod_iface[k] # e.ifindex,
         deleteEntries(tables.pod_iface[k]))
        \o <<Put("ifindex_host_mac", e.ifindex, e.host)>>
        \o (IF e.net[1] = "Subnet"
            THEN <<Del("ifindex_external_network", e.ifindex),
                   Put("ifindex_subnet", e.ifindex, entry)>>
            ELSE <<Del("ifindex_subnet", e.ifindex),
                   Put("ifindex_external_network", e.ifindex, entry)>>)
        \o <<Keep("pod_iface", k, e.ifindex)>>

PodIfacePass(k) ==
    OnSegment(Get(k), LAMBDA e : ~ Attached(e) \/ OnL2(e),
              PodIfaceDelete(k), LAMBDA e : PodIfaceUpsert(k, e))

-----------------------------------------------------------------------------
(* The attacher: a pair of programs on each local veth.  The egress link   *)
(* is taken back when the ingress program does not attach.                 *)

programsFor(e) == IF OnL2(e) THEN "l2" ELSE "pod"

closeSnapshot(old) ==
    AllOrStop(<<Del("tcx", <<old.ifindex, "egress">>), Del("tcx", <<old.ifindex, "ingress">>)>>)

attach(k, e) ==
    LET want == [ifindex |-> e.ifindex, programs |-> programsFor(e)]
        egress == <<e.ifindex, "egress">>
        ingress == <<e.ifindex, "ingress">>
    IN  When(~ (Has("attacher", k) /\ tables.attacher[k] = want),
             When(Has("attacher", k), closeSnapshot(tables.attacher[k]))
             \o <<Put("tcx", egress, want.programs),
                  Undoing(Put("tcx", ingress, want.programs), <<Ignored(Del("tcx", egress))>>),
                  Keep("attacher", k, want)>>)

detach(k) ==
    When(Has("attacher", k),
         <<Drop("attacher", k)>> \o closeSnapshot(tables.attacher[k]))

AttacherPass(k) ==
    LET e == Get(k) IN
    IF e = None THEN detach(k)
    ELSE IF ~ Attached(e) THEN detach(k)
    ELSE attach(k, e)

-----------------------------------------------------------------------------
(* elastic-ip-direct: the entry of an ElasticIP a NIC carries, and its /32 *)
(* in the gate.                                                            *)

DirectOwner(k) == <<"elastic-ip-direct", k>>

otherNetworkFor(k, e) ==
    \E x \in DOMAIN tables.eip_claims \ {k} :
        LET other == tables.eip_claims[x] IN
        other.addr = e.addr /\ other.id # overlaySegmentID(e)

uninstallUnclaimed(k, addr) ==
    When(\A x \in DOMAIN tables.eip_claims \ {k} : tables.eip_claims[x].addr # addr,
         <<Del("elastic_ip_direct", addr)>>)

install(addr, id) ==
    When(~ (Has("elastic_ip_direct", addr) /\ tables.elastic_ip_direct[addr] = id),
         <<Put("elastic_ip_direct", addr, id)>>)

claim(k, e) ==
    IF otherNetworkFor(k, e) THEN <<Error>>
    ELSE install(e.addr, overlaySegmentID(e))
         \o <<Keep("eip_claims", k, [addr |-> e.addr, id |-> overlaySegmentID(e)]),
              Claim(DirectOwner(k), [p \in {e.addr} |-> Here])>>
         \o When(Has("eip_claims", k) /\ tables.eip_claims[k].addr # e.addr,
                 uninstallUnclaimed(k, tables.eip_claims[k].addr))

release(k) ==
    When(Has("eip_claims", k),
         <<Release(DirectOwner(k)), Drop("eip_claims", k)>>
         \o uninstallUnclaimed(k, tables.eip_claims[k].addr))

DirectPass(k) ==
    OnSegment(Get(k), LAMBDA e : e.net[1] # "ExternalNetwork",
              release(k), LAMBDA e : claim(k, e))
=============================================================================
