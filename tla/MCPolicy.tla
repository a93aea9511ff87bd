------------------------------ MODULE MCPolicy ------------------------------
(* Small instances of PolicyPlane for TLC.                                 *)
EXTENDS PolicyPlane, TLC

CONSTANTS g1, g2, acl1, n1, n2, xa, ya, cpu1

(* A client on this node opens connections to a server elsewhere.          *)
Request == [src |-> xa, dst |-> ya, sport |-> "high", dport |-> "svc"]
OneFlow == {Request, Mirror(Request)}

Rule(peers, ports, verdict, priority) ==
    [peers |-> peers, group |-> None, ports |-> ports, verdict |-> verdict, priority |-> priority]

(* A group that leaves egress open, one that restricts it, one too long for *)
(* its window.                                                             *)
Open == [egress |-> <<>>, ingress |-> <<>>, has |-> {}]
Service == [egress |-> <<Rule({ya}, {"svc"}, "allow", 0)>>, ingress |-> <<>>, has |-> {"egress"}]
TooLong == [egress |-> <<Rule({ya}, {"svc"}, "allow", 0), Rule({xa}, {"svc"}, "allow", 0),
                         Rule({ya}, {"high"}, "allow", 0)>>, ingress |-> <<>>, has |-> {"egress"}]

(* An ACL whose rules are written out of order: the deny comes first once  *)
(* they are sorted.                                                        *)
DenyFirst == [egress |-> <<Rule({ya}, {"svc"}, "allow", 2), Rule({ya}, {"svc"}, "deny", 1)>>,
              ingress |-> <<>>, has |-> {"egress"}]
AllowAll == [egress |-> <<Rule({ya}, {"svc"}, "allow", 1)>>, ingress |-> <<>>, has |-> {"egress"}]

OneAcl == xa :> acl1
SmallSpecs == g1 :> {Open, Service, TooLong} @@ acl1 :> {DenyFirst, AllowAll}
FewSpecs == g1 :> {Open, Service} @@ acl1 :> {DenyFirst}
SmallJoins == n1 :> {[addr |-> xa, groups |-> <<g1>>]}
=============================================================================
