--------------------------- MODULE PodAttachments ---------------------------
(***************************************************************************)
(* The interfaces a Pod's annotations ask for (api/v1alpha1/podnetwork.go).*)
(* ann.networks is the list of entries of the networks annotation; each of *)
(* the annotations that have one value, subnet, address, groups and        *)
(* elasticIP, is a set that is empty when the key is not there.            *)
(***************************************************************************)
EXTENDS Admission

PodInterfaceNameMaxLen == 8

(***************************************************************************)
(* The networks annotation on its own.                                     *)
(***************************************************************************)
NetworkFields == [subnet |-> "Subnet", l2Network |-> "L2Network", elasticIP |-> "ElasticIP"]
NamedNetworks(entry) == {f \in DOMAIN NetworkFields : entry[f] # ""}

validatePodElasticIPAttachmentFields(entry) == entry.address = NoAddress /\ entry.groups = <<>>

validatePodAttachmentTarget(entry) ==
    /\ Cardinality(NamedNetworks(entry)) = 1
    /\ IF entry.elasticIP # "" THEN validatePodElasticIPAttachmentFields(entry)
       ELSE /\ Len(entry.groups) <= PodSecurityGroupsMax
            /\ "" \notin Range(entry.groups) /\ IsInjective(entry.groups)

validatePodInterfaceName(name) == name # "" /\ Len(name) <= PodInterfaceNameMaxLen

ValidatePodNetworkAttachments(entries) ==
    /\ \A i \in DOMAIN entries :
           validatePodInterfaceName(entries[i].interface) /\ validatePodAttachmentTarget(entries[i])
    /\ \A i, j \in DOMAIN entries : i # j => entries[i].interface # entries[j].interface

(***************************************************************************)
(* Together with the other annotations, of which only one way to describe  *)
(* the primary interface may be used.                                      *)
(***************************************************************************)
forbidPodAnnotations(ann, keys) == \A f \in keys : ann[f] = {}

validatePodElasticIPAnnotation(ann) ==
    ann.elasticIP # {} => ann.elasticIP # {""} /\ forbidPodAnnotations(ann, {"subnet", "address", "groups"})

DescribedByEntry(ann) == \E i \in DOMAIN ann.networks : ann.networks[i].interface = PrimaryInterface

ValueOr(value, otherwise) == IF value = {} THEN otherwise ELSE CHOOSE v \in value : TRUE

resolvedPodNetworksEntry(entry) ==
    LET f == CHOOSE g \in NamedNetworks(entry) : TRUE
    IN  [interface |-> entry.interface, kind |-> NetworkFields[f], net |-> entry[f],
         address |-> entry.address, groups |-> Range(entry.groups)]

\* The comma-separated groups come without repetitions and empty names.
ParsePodSecurityGroups(groups) == Range(groups) \ {""}

resolvedPodPrimaryAnnotations(ann) ==
    LET eth0(kind, net) ==
            [interface |-> PrimaryInterface, kind |-> kind, net |-> net, address |-> ValueOr(ann.address, NoAddress),
             groups |-> ParsePodSecurityGroups(ValueOr(ann.groups, <<>>))]
        subnet == ValueOr(ann.subnet, "")
    IN  IF ann.elasticIP # {} THEN eth0("ElasticIP", ValueOr(ann.elasticIP, ""))
        ELSE eth0("Subnet", IF subnet = "" THEN Default ELSE subnet)

PodNetworkAttachments(ann) ==
    {resolvedPodNetworksEntry(ann.networks[i]) : i \in DOMAIN ann.networks}
    \cup IF DescribedByEntry(ann) THEN {} ELSE {resolvedPodPrimaryAnnotations(ann)}

validatePodElasticIPsNotShared(nics) ==
    \A a, b \in nics : a.kind = "ElasticIP" /\ b.kind = "ElasticIP" /\ a.net = b.net => a = b

AttachmentsResolve(ann) ==
    /\ ValidatePodNetworkAttachments(ann.networks)
    /\ IF DescribedByEntry(ann) THEN forbidPodAnnotations(ann, {"subnet", "address", "groups", "elasticIP"})
       ELSE validatePodElasticIPAnnotation(ann)
    /\ validatePodElasticIPsNotShared(PodNetworkAttachments(ann))
=============================================================================
