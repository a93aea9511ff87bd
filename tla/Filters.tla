------------------------------ MODULE Filters ------------------------------
(***************************************************************************)
(* The controllers of NetworkACLs and SecurityGroups.  entries is what the *)
(* rules of a spec cost in the data plane, gen its generation; of a status *)
(* it is the generation the status was written for.  version is what the   *)
(* daemons compare to learn that the rules changed.                        *)
(***************************************************************************)
EXTENDS Networks

NewFilterStatus == [id |-> NoValue, entries |-> 0, version |-> 0, attached |-> {}, why |-> "", gen |-> 0]

overBudget(spec) == spec.entries > MaxEntries

nextRulesetVersion(s, spec) ==
    IF s.entries = spec.entries /\ s.gen = spec.gen /\ s.version > 0 THEN s.version ELSE s.version + 1

\* Both updateStatus: everything but the reason stays as it is on an error.
filterStatusError(c, k, why) ==
    SetStatus(c, k, [c[k].status EXCEPT !.why = why, !.gen = c[k].spec.gen])

filterStatus(c, k, id, attached, why) ==
    SetStatus(c, k, [id |-> id, entries |-> c[k].spec.entries,
                     version |-> nextRulesetVersion(c[k].status, c[k].spec),
                     attached |-> attached, why |-> why, gen |-> c[k].spec.gen])

\* Reconcile of both kinds, from the claim on.
FilterReconcile(c, k, pool, attached, refused) ==
    LET s == c[k].status
        spec == c[k].spec
        claim == ClaimKey(k, pool)
        failed == WithStatus(c, k, [s EXCEPT !.why = "AllocationFailed", !.gen = spec.gen])
        id == IF ValueOf(c, claim) # NoValue THEN ValueOf(c, claim) ELSE s.id
        why == CASE refused -> "RulesInvalid"
                 [] ~refused /\ overBudget(spec) -> "RuleLimitExceeded"
                 [] OTHER -> "Ready"
    IN  Then(Guarded(EnsureClaim(c, k, pool), failed),
             IF id = NoValue THEN Again(filterStatusError(c, k, "Allocating"))
             ELSE Done(filterStatus(c, k, id, attached, why)))

(***************************************************************************)
(* networkacl_controller.go                                                *)
(***************************************************************************)
ACLPool == PoolKey("network-acl-id")

listAttachedSubnets(c, k) ==
    {Name(s) : s \in Where(c, "Subnet", LAMBDA s : s.acl = Name(k) /\ s.vpc = c[k].spec.vpc)}

NetworkACLReconcile(c, k) ==
    CASE c[k].del -> Nothing
      [] ~c[k].del /\ ~Has(c, Key("Vpc", c[k].spec.vpc)) -> Again(filterStatusError(c, k, "VpcNotFound"))
      [] OTHER -> FilterReconcile(c, k, ACLPool, listAttachedSubnets(c, k), FALSE)

\* Every ACL of the Subnet's Vpc: the one it left is not known.
mapSubnetToACLs(c, o) == Where(c, "NetworkACL", LAMBDA s : s.vpc = o.spec.vpc)

NetworkACLWakes(c, k, o) ==
    CASE Kind(k) = "AllocationClaim" -> ClaimsFor(o, "NetworkACL")
      [] Kind(k) = "Subnet" -> mapSubnetToACLs(c, o)
      [] OTHER -> {}

(***************************************************************************)
(* securitygroup_controller.go.  peers are the groups the rules name.      *)
(***************************************************************************)
GroupPool == PoolKey("security-group-id")

validatePeerRefs(c, k) ==
    {p \in c[k].spec.peers : LET g == Key("SecurityGroup", p) IN
        ~Has(c, g) \/ c[g].spec.vpc # c[k].spec.vpc}

listAttachedInterfaces(c, k) ==
    {Name(n) : n \in Where(c, "NetworkInterface", LAMBDA s : Name(k) \in s.groups)}

SecurityGroupReconcile(c, k) ==
    CASE c[k].del -> Nothing
      [] ~c[k].del /\ ~Has(c, Key("Vpc", c[k].spec.vpc)) -> Again(filterStatusError(c, k, "VpcNotFound"))
      [] OTHER -> FilterReconcile(c, k, GroupPool, listAttachedInterfaces(c, k), validatePeerRefs(c, k) # {})

mapPeerSGToSG(c, k, o) == Where(c, "SecurityGroup", LAMBDA s : s.vpc = o.spec.vpc) \ {k}
mapInterfaceToSGs(o) == {Key("SecurityGroup", g) : g \in o.spec.groups}

SecurityGroupWakes(c, k, o) ==
    CASE Kind(k) = "AllocationClaim" -> ClaimsFor(o, "SecurityGroup")
      [] Kind(k) = "SecurityGroup" -> mapPeerSGToSG(c, k, o)
      [] Kind(k) = "NetworkInterface" -> mapInterfaceToSGs(o)
      [] OTHER -> {}
=============================================================================
