--------------------------- MODULE PrefixSources ---------------------------
(***************************************************************************)
(* What the bgp-speaker of one node derives from the API objects: the      *)
(* prefixes that the prefix sources contribute, the configuration that     *)
(* bird is to run with, and the advertisements and resource errors that    *)
(* the BGPNodeState reports.                                               *)
(*                                                                         *)
(* objs maps the name of an object to its spec, or to None if there is no  *)
(* such object:                                                            *)
(*   AddressPool         [bgp: is advertiseMode bgp?, addresses]           *)
(*   BGPAdvertisement    [node (None: every node), pools, prefix]          *)
(*   ServiceLoadBalancer [nodes: status.advertisingNodes, vip, net]        *)
(*   ExternalNetwork     [bgp: is type bgp?]                               *)
(*   BGPPeer             [complete: are the address and the ASNs set?]     *)
(* Addresses are as written; ParsePrefix says which prefix one denotes, and*)
(* vipPrefix which host prefix a VIP denotes, None if it is not well       *)
(* formed.  A BGPPeer stands for the address and ASNs it configures: no two*)
(* of them share an address.                                               *)
(***************************************************************************)
EXTENDS Naturals, FiniteSets

CONSTANTS None, Node, Pools, Advs, Slbs, Nets, Peers, ParsePrefix, vipPrefix

Objects == Pools \cup Advs \cup Slbs \cup Nets \cup Peers

Existing(objs, kind) == {o \in kind : objs[o] # None}

Parsed(raw) == {ParsePrefix[a] : a \in raw} \ {None}

(***************************************************************************)
(* AddressPoolAdvertisementSource.                                         *)
(***************************************************************************)
relevantBGPAdvertisements(objs) ==
    {a \in Existing(objs, Advs) : objs[a].node \in {None, Node}}

(* The pools of an advertisement that exist and are in BGP mode.           *)
Usable(objs, a) == {p \in objs[a].pools \cap Existing(objs, Pools) : objs[p].bgp}

poolPrefixesForAdvertisement(objs, p, a) ==
    Parsed(IF objs[a].prefix # None THEN {objs[a].prefix} ELSE objs[p].addresses)

(* One entry per pool, however many advertisements name it; a pool without *)
(* prefixes has none.                                                      *)
mergeAddressPoolAdvertisements(objs) ==
    LET of(p) == UNION {poolPrefixesForAdvertisement(objs, p, a) :
                           a \in {b \in relevantBGPAdvertisements(objs) : p \in Usable(objs, b)}}
    IN  {[source |-> p, prefixes |-> of(p)] : p \in {q \in Pools : of(q) # {}}}

PoolErrors(objs) ==
    UNION {   (objs[a].pools \ Usable(objs, a))
         \cup {e \in {a} : Usable(objs, a) # {} /\ objs[a].prefix # None /\ ParsePrefix[objs[a].prefix] = None}
         \cup {p \in Usable(objs, a) :
                  objs[a].prefix = None /\ \E x \in objs[p].addresses : ParsePrefix[x] = None}
         : a \in relevantBGPAdvertisements(objs)}

(***************************************************************************)
(* ServiceLoadBalancerSource: a VIP is advertised by the nodes that the    *)
(* controller put in status.advertisingNodes, over networks of type bgp.   *)
(***************************************************************************)
Chosen(objs) == {s \in Existing(objs, Slbs) : Node \in objs[s].nodes /\ objs[s].vip # None}

OverBgp(objs, s) == objs[s].net \in Existing(objs, Nets) /\ objs[objs[s].net].bgp

SlbAdvertisements(objs) ==
    {[source |-> s, prefixes |-> {vipPrefix[objs[s].vip]}] :
        s \in {t \in Chosen(objs) : OverBgp(objs, t) /\ vipPrefix[objs[t].vip] # None}}

SlbErrors(objs) ==
    {s \in Chosen(objs) : ~OverBgp(objs, s) \/ vipPrefix[objs[s].vip] = None}

(***************************************************************************)
(* Aggregate and buildReconcileResult.                                     *)
(***************************************************************************)
Advertisements(objs) == mergeAddressPoolAdvertisements(objs) \cup SlbAdvertisements(objs)

MergedPrefixes(objs) == UNION {ad.prefixes : ad \in Advertisements(objs)}

DesiredPeers(objs) == {r \in Existing(objs, Peers) : objs[r].complete}

Errors(objs) == PoolErrors(objs) \cup SlbErrors(objs) \cup (Existing(objs, Peers) \ DesiredPeers(objs))

(* ConfigBuilder.Build: every peer is given every prefix, so without a     *)
(* peer the configuration does not depend on the prefixes.                 *)
Build(objs) ==
    {[peer |-> r, prefixes |-> MergedPrefixes(objs)] : r \in DesiredPeers(objs)}
=============================================================================
