---------------------------- MODULE PodWebhooks ----------------------------
(***************************************************************************)
(* The mutating webhooks of a Pod's creation: PodDNSDefaulter points the   *)
(* Pod at the resolver of its Subnet, PodProbeDefaulter turns the probes   *)
(* that kubelet would send to an address of a custom Vpc into requests to  *)
(* the node's probe proxy, which finds the original by its token.  The     *)
(* second is called again when another webhook has changed the Pod.        *)
(*                                                                         *)
(* A Pod has dns [policy, servers] and containers, init containers first,  *)
(* of [ports, probes]; a probe has a type, a host and a port, which is a   *)
(* number or the name of a port, and the rest of it: what.  A probe of the *)
(* proxy has its token there.                                              *)
(***************************************************************************)
EXTENDS PodAttachments, FiniteSetsExt

ProxyPort == 9911
RewriteVersion == "v1"
MaxNameservers == 3
Localhost == "127.0.0.1"

\* Juneau gives a Pod of the host's network and a mirror Pod no interfaces.
Nics(pod) == IF pod.hostNetwork \/ pod.mirror THEN {} ELSE PodNetworkAttachments(pod.ann)
Primary(pod) == CHOOSE a \in pod.nics : a.interface = PrimaryInterface

(***************************************************************************)
(* PodDNSDefaulter.                                                        *)
(***************************************************************************)
mergeDNSConfig(servers, vip) ==
    LET merged == <<vip>> \o SelectSeq(servers, LAMBDA s : s # vip)
    IN  SubSeq(merged, 1, IF Len(merged) < MaxNameservers THEN Len(merged) ELSE MaxNameservers)

ClusterPolicy(pod) == pod.dns.policy \in {"", "ClusterFirst", "ClusterFirstWithHostNet"}

\* A Subnet that is missing, of the default Vpc, or without a resolver yet
\* leaves the Pod as it is.
PodDNS(c, pod) ==
    LET eth0 == Primary(pod)
        subnet == Key("Subnet", eth0.net)
    IN  CASE pod.hostNetwork \/ pod.mirror \/ pod.skipDNS \/ ~ClusterPolicy(pod) -> pod
          [] eth0.kind # "Subnet" -> [pod EXCEPT !.dns.policy = "Default"]
          [] ~Has(c, subnet) -> pod
          [] c[subnet].spec.vpc = Default \/ c[subnet].status.dns = NoAddress -> pod
          [] OTHER -> [pod EXCEPT !.dns = [policy |-> "None",
                                           servers |-> mergeDNSConfig(pod.dns.servers, c[subnet].status.dns)]]

(***************************************************************************)
(* PodProbeDefaulter.                                                      *)
(***************************************************************************)
primaryNetworkMayNeedProbeRewrite(a) ==
    a.kind = "L2Network" \/ (a.kind = "Subnet" /\ a.net # Default)

\* A network that does not exist yet may turn out to be in a custom Vpc.
NeedsProbeRewrite(c, pod) ==
    LET eth0 == Primary(pod) IN
    /\ ~pod.hostNetwork /\ ~pod.mirror /\ ~pod.windows
    /\ primaryNetworkMayNeedProbeRewrite(eth0)
    /\ Resolves(c, eth0) => c[NetworkKey(eth0)].spec.vpc # Default

hasExplicitProbeHost(p) == p.type \in {"http", "tcp"} /\ p.host # ""

isAgentProbe(pod, p) ==
    p.type = "http" /\ p.host = Localhost /\ p.port.number = ProxyPort /\ p.token \in DOMAIN pod.configs

\* Mutant: a probe that names a host of its own is rewritten with the rest.
RewritesHosts(pod, p) == p.type # "exec" /\ ~isAgentProbe(pod, p)

NeedsToken(pod, p) == p.type # "exec" /\ ~isAgentProbe(pod, p) /\ ~hasExplicitProbeHost(p)

DeclaredPorts(container, port) == {d \in container.ports : d.name = port.name}
PortKnown(container, port) ==
    IF port.name = "" THEN port.number \in 1 .. MaxPort ELSE DeclaredPorts(container, port) # {}
resolveProbePort(container, port) ==
    IF port.name = "" THEN port.number ELSE (CHOOSE d \in DeclaredPorts(container, port) : TRUE).number

\* The probes to rewrite, as <<container, probe>>, in the order they are found.
Found(pod) ==
    {at \in UNION {{i} \X DOMAIN pod.containers[i].probes : i \in DOMAIN pod.containers} :
        NeedsToken(pod, pod.containers[at[1]].probes[at[2]])}

ProbeAt(pod, at) == pod.containers[at[1]].probes[at[2]]
configOf(pod, at) ==
    [type |-> ProbeAt(pod, at).type, what |-> ProbeAt(pod, at).what,
     port |-> resolveProbePort(pod.containers[at[1]], ProbeAt(pod, at).port)]

\* Tokens are random; here they count up.  The n-th probe gets the n-th one.
newProbeToken(pod, at) ==
    Max(DOMAIN pod.configs \cup {0})
    + Cardinality({b \in Found(pod) : b[1] < at[1] \/ (b[1] = at[1] /\ b[2] <= at[2])})

agentProbe(token) ==
    [type |-> "http", host |-> Localhost, port |-> [number |-> ProxyPort, name |-> ""], what |-> "", token |-> token]

\* An error refuses the Pod.
ProbesRewritable(pod) ==
    /\ pod.version \in {"", RewriteVersion}
    /\ \A at \in Found(pod) : PortKnown(pod.containers[at[1]], ProbeAt(pod, at).port)
    /\ Found(pod) = {} /\ pod.version # "" => DOMAIN pod.configs # {}

rewriteNetworkProbes(pod) ==
    IF Found(pod) = {} THEN pod
    ELSE [pod EXCEPT
            !.version = RewriteVersion,
            !.configs = [t \in DOMAIN @ \cup {newProbeToken(pod, at) : at \in Found(pod)} |->
                            IF t \in DOMAIN @ THEN @[t]
                            ELSE configOf(pod, CHOOSE at \in Found(pod) : newProbeToken(pod, at) = t)],
            !.containers = [i \in DOMAIN @ |-> [@[i] EXCEPT !.probes =
                [j \in DOMAIN @ |-> IF <<i, j>> \in Found(pod) THEN agentProbe(newProbeToken(pod, <<i, j>>)) ELSE @[j]]]]]

PodProbes(c, pod) == IF NeedsProbeRewrite(c, pod) THEN rewriteNetworkProbes(pod) ELSE pod
PodProbesAdmit(c, pod) == NeedsProbeRewrite(c, pod) => ProbesRewritable(pod)

\* Another webhook adds containers after the first round.
Injected(pod, extra) == [pod EXCEPT !.containers = @ \o extra, !.asked.containers = @ \o extra]

\* What may be stored of a Pod the user asks for; asked is history.
Mutations(c, pod, extras) ==
    LET asked == [containers |-> pod.containers, configs |-> pod.configs, dns |-> pod.dns]
        first == PodDNS(c, [pod EXCEPT !.asked = asked, !.nics = Nics(pod)])
        next(extra) == Injected(PodProbes(c, first), extra)
    IN  IF ~(pod.hostNetwork \/ AttachmentsResolve(pod.ann)) \/ ~PodProbesAdmit(c, first) THEN {}
        ELSE {PodProbes(c, next(extra)) : extra \in {x \in extras : PodProbesAdmit(c, next(x))}}
=============================================================================
