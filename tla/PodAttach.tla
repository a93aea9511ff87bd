----------------------------- MODULE PodAttach -----------------------------
(***************************************************************************)
(* CNI ADD and DEL on one node, for the sandboxes of one Pod name.         *)
(*                                                                         *)
(* A Pod instance (a UID) may get one sandbox after another, and its name  *)
(* may pass to a new instance.  The runtime calls ADD for each sandbox and *)
(* DEL at least once, late and repeated as it pleases.  Each call is a     *)
(* goroutine of the daemon, and what they share is keyed by the Pod and    *)
(* not by the sandbox: the NetworkEndpoint of a NIC, the host route to the *)
(* Pod's ElasticIP, the probe targets and the pin of the network namespace.*)
(*                                                                         *)
(* ADD collects the undo of each side effect and runs it when it fails.    *)
(* The daemon reads Pods, NetworkInterfaces and the endpoint list from a   *)
(* cache, and single endpoints from the API server.                        *)
(*                                                                         *)
(* An endpoint's resourceVersion is the set `fresh' of the calls whose copy*)
(* is still current.  Faults: "io" (a system or API call fails), "lost" (a *)
(* write that fails was applied), "crash" (the daemon restarts) and        *)
(* "abandon" (the caller times out on an API call and the handler runs on).*)
(***************************************************************************)
EXTENDS Naturals, Sequences

CONSTANTS None,
          Uids,        \* a sequence: the instances that carry the Pod's name, in turn
          Boxes,       \* a sequence: the sandboxes (container IDs), in the order they are made
          NicOrder,    \* orderPodInterfaces: the primary NIC, then the others by name
          Worlds,      \* the Pods considered: see world
          Faults, MaxFaults, MaxEdits,
          MaxTries,    \* retry.DefaultRetry.Steps
          MaxDels      \* how often a DEL of each sandbox succeeds

Uid == {Uids[i] : i \in DOMAIN Uids}
Box == {Boxes[k] : k \in DOMAIN Boxes}
Nics == {NicOrder[i] : i \in DOMAIN NicOrder}
Primary == NicOrder[1]
Extra == Nics \ {Primary}
Calls == {"add", "del"} \X Box

Listed(s) == Len(s) \in Nat /\ DOMAIN s = 1 .. Len(s) /\ \A i, j \in DOMAIN s : s[i] = s[j] => i = j

ASSUME ConstantsAssumption ==
    /\ Listed(Uids) /\ Listed(Boxes) /\ Listed(NicOrder)
    /\ Len(Uids) > 0 /\ Len(NicOrder) > 0
    /\ None \notin Uid \cup Box
    /\ \A w \in Worlds : w.uidOf \in [Box -> Uid] /\ w.asks \subseteq Nics
    /\ {MaxFaults, MaxEdits, MaxTries} \subseteq Nat

VARIABLES
    pod,     \* the Pod of the name: uid, the NICs it asks for, finished, which instance
    nic,     \* NetworkInterfaces: uid of the Pod (None: no object), Allocated condition
    ep,      \* NetworkEndpoints: uid (None: no object), attached sandbox; late (history):
             \* the status was written after the last read by that sandbox's DEL
    fresh,   \* <<call, NIC>>: the call holds the current version of that endpoint
    cache,   \* the daemon's cache: pod, nic, and the uid of each listed endpoint of an
             \* extra NIC (the list is not asked for the primary)
    links,   \* host veths, named after NIC and sandbox
    route,   \* the sandbox whose eth0 veth carries the host route, or None
    probes,  \* probeproxy containerIDs: the sandbox whose targets are published, by uid
    pins,    \* the network namespace pinned for each uid
    call,    \* the ADD and the DEL of each sandbox
    box,     \* the runtime's view of each sandbox, and its successful DELs
    world,   \* uidOf: the instance of each sandbox; asks: the NICs a new instance asks
             \* for; reach: whether kubelet reaches eth0 by "route" (it is on an ElasticIP)
             \* or by rewritten "probe"s; edits: what may happen to the Pod
    edits, faults

UidOf == world.uidOf
reach == world.reach
cluster == <<pod, nic, world, edits>>
node == <<links, route, probes, pins>>
vars == <<pod, nic, ep, fresh, cache, links, route, probes, pins, call, box, world, edits, faults>>

NoNic == [uid |-> None, ready |-> FALSE]
NoEp == [uid |-> None, box |-> None, late |-> FALSE]
(* A call serves its NICs in order; i is the place in NicOrder of the one  *)
(* it is at.                                                               *)
Idle == [at |-> "idle", nics |-> {}, i |-> 0, created |-> {}, tries |-> 0, superseded |-> FALSE]

(* The first instance of the Pod has its NICs; nothing is attached yet.    *)
Init ==
    /\ world \in Worlds
    /\ pod = [uid |-> Uids[1], wants |-> world.asks, done |-> FALSE, gen |-> 1]
    /\ nic = [n \in Nics |-> IF n \in pod.wants THEN [uid |-> Uids[1], ready |-> TRUE] ELSE NoNic]
    /\ ep = [n \in Nics |-> NoEp]
    /\ fresh = {}
    /\ cache = [pod |-> pod, nic |-> nic, eps |-> [n \in Extra |-> None]]
    /\ links = {} /\ route = None
    /\ probes = [u \in Uid |-> None] /\ pins = [u \in Uid |-> None]
    /\ call = [c \in Calls |-> Idle]
    /\ box = [b \in Box |-> [state |-> "none", dels |-> 0]]
    /\ edits = 0 /\ faults = 0

May(f) == f \in Faults /\ faults < MaxFaults
Fault(f) == May(f) /\ faults' = faults + 1
Fine == faults' = faults

Serving(c, at) == call[c].at = at
NicOf(c) == NicOrder[call[c].i]
Ahead(c) == {j \in DOMAIN NicOrder : j > call[c].i /\ NicOrder[j] \in call[c].nics}
Behind(c) == {j \in DOMAIN NicOrder : j < call[c].i /\ NicOrder[j] \in call[c].nics}
First(places) == {j \in places : \A k \in places : j <= k}
Last(places) == {j \in places : \A k \in places : j >= k}
Goto(c, at) == call' = [call EXCEPT ![c].at = at]

(* A write to the endpoint of NIC n: only the writer's copy stays current. *)
Written(n, by) == {f \in fresh : f[2] # n} \cup (by \X {n})

(***************************************************************************)
(* The cluster: Pods, their NetworkInterfaces, garbage collection.         *)
(***************************************************************************)
PodDrops(n) ==
    /\ "drop" \in world.edits
    /\ pod.uid # None /\ n \in pod.wants \cap Extra
    /\ pod' = [pod EXCEPT !.wants = @ \ {n}]

PodFinishes ==
    /\ "finish" \in world.edits
    /\ pod.uid # None /\ ~ pod.done
    /\ pod' = [pod EXCEPT !.done = TRUE]

PodDeleted ==
    /\ "delete" \in world.edits
    /\ pod.uid # None
    /\ pod' = [pod EXCEPT !.uid = None]

(* The name passes to the next instance.                                   *)
PodCreated ==
    /\ pod.uid = None /\ pod.gen < Len(Uids)
    /\ pod' = [uid |-> Uids[pod.gen + 1], wants |-> world.asks, done |-> FALSE, gen |-> pod.gen + 1]

PodChanges ==
    /\ \/ PodCreated /\ UNCHANGED edits
       \/ /\ (\E n \in Nics : PodDrops(n)) \/ PodFinishes \/ PodDeleted
          /\ edits < MaxEdits /\ edits' = edits + 1
    /\ UNCHANGED <<nic, ep, fresh, cache, node, call, box, world, faults>>

(* The Pod controller makes a NetworkInterface for each NIC of a Pod that  *)
(* is still running.  SetControllerReference refuses an object that an     *)
(* older instance owns.                                                    *)
applyNetworkInterface(n) ==
    /\ pod.uid # None /\ ~ pod.done /\ n \in pod.wants
    /\ nic[n] = NoNic
    /\ nic' = [nic EXCEPT ![n].uid = pod.uid]

(* The NetworkInterface controller has its address.                        *)
Allocated(n) ==
    /\ nic[n].uid # None /\ ~ nic[n].ready
    /\ nic' = [nic EXCEPT ![n].ready = TRUE]

(* The NIC of a finished Pod and one no longer asked for are deleted by    *)
(* the Pod controller, those of a Pod that is gone by garbage collection.  *)
deleteNetworkInterface(n) ==
    /\ nic[n].uid # None
    /\ nic[n].uid # pod.uid \/ pod.done \/ n \notin pod.wants
    /\ nic' = [nic EXCEPT ![n] = NoNic]

NicChanges ==
    /\ \E n \in Nics : applyNetworkInterface(n) \/ Allocated(n) \/ deleteNetworkInterface(n)
    /\ UNCHANGED <<pod, ep, fresh, cache, node, call, box, world, edits, faults>>

(* An endpoint goes with the NetworkInterface that owns it.                *)
EndpointCollected ==
    /\ \E n \in Nics :
          /\ ep[n].uid # None /\ nic[n].uid # ep[n].uid
          /\ ep' = [ep EXCEPT ![n] = NoEp]
          /\ fresh' = Written(n, {})
    /\ UNCHANGED <<cluster, cache, node, call, box, faults>>

(* The NetworkEndpoint controller writes status.nodeIP when the node's     *)
(* address is not the one recorded, at any time; all that the calls see of *)
(* it is that their copy is no longer current.                             *)
NodeIPWritten ==
    /\ \E n \in Nics :
          /\ \E f \in fresh : f[2] = n
          /\ fresh' = Written(n, {})
          /\ ep' = [ep EXCEPT ![n].late = @ \/ \E f \in fresh : f[1][1] = "del" /\ f[2] = n]
    /\ UNCHANGED <<cluster, cache, node, call, box, faults>>

(* Each informer catches up by itself.                                     *)
CacheSyncs ==
    /\ \/ cache' = [cache EXCEPT !.pod = pod]
       \/ cache' = [cache EXCEPT !.nic = nic]
       \/ cache' = [cache EXCEPT !.eps = [n \in Extra |-> ep[n].uid]]
    /\ cache' # cache
    /\ UNCHANGED <<cluster, ep, fresh, node, call, box, faults>>

(***************************************************************************)
(* The container runtime.                                                  *)
(***************************************************************************)
Started(b) == box[b].state # "none"

(* A new sandbox of the current instance.  The one before it need not have *)
(* been deleted; its ADD has returned, for the caller at least.            *)
RunSandbox ==
    /\ \E k \in DOMAIN Boxes :
          LET b == Boxes[k]
          IN  /\ ~ Started(b) /\ UidOf[b] = pod.uid /\ ~ pod.done
              /\ \A j \in 1..(k - 1) : UidOf[Boxes[j]] = pod.uid => Started(Boxes[j])
              /\ \A x \in Box : box[x].state # "adding"
              /\ box' = [box EXCEPT ![b].state = "adding"]
              /\ Goto(<<"add", b>>, "begin")
    /\ UNCHANGED <<cluster, ep, fresh, cache, node, faults>>

(* DEL follows a failed ADD too, is repeated until it succeeds, and may be *)
(* repeated after that.                                                    *)
StopSandbox ==
    /\ \E b \in Box :
          /\ box[b].state \notin {"none", "adding"} /\ box[b].dels < MaxDels[b]
          /\ Serving(<<"del", b>>, "idle")
          /\ box' = [box EXCEPT ![b].state = "stopping"]
          /\ Goto(<<"del", b>>, "veths")
    /\ UNCHANGED <<cluster, ep, fresh, cache, node, faults>>

(* The caller's context ends while an API call of the handler is under     *)
(* way.  The steps on the node itself are taken to be too short for that.  *)
Abandon ==
    /\ \E b \in Box :
          /\ box[b].state = "adding" /\ call[<<"add", b>>].at \in {"create", "get", "update"}
          /\ box' = [box EXCEPT ![b].state = "failed"]
    /\ Fault("abandon")
    /\ UNCHANGED <<cluster, ep, fresh, cache, node, call>>

(***************************************************************************)
(* ADD.                                                                    *)
(***************************************************************************)
(* The checks before anything is built, on the cached NetworkInterfaces of *)
(* the instance and the NICs the cached Pod asks for: complete, allocated, *)
(* with a primary.                                                         *)
podNetworkAttachments(u) == IF cache.pod.uid = u THEN cache.pod.wants ELSE {}
checkPodInterfaces(u) ==
    /\ cache.pod.uid = u
    /\ Primary \in podNetworkAttachments(u)
    /\ \A n \in podNetworkAttachments(u) : cache.nic[n] = [uid |-> u, ready |-> TRUE]

Returned(b, state) ==
    /\ call' = [call EXCEPT ![<<"add", b>>] = Idle]
    /\ fresh' = {f \in fresh : f[1] # <<"add", b>>}
    /\ box' = [box EXCEPT ![b].state = IF @ = "adding" THEN state ELSE @]

AddBegins(b) ==
    LET c == <<"add", b>>
        u == UidOf[b]
    IN  /\ Serving(c, "begin")
        /\ \/ /\ checkPodInterfaces(u)
              /\ Fine
              /\ call' = [call EXCEPT ![c].at = "veth", ![c].i = 1, ![c].nics = podNetworkAttachments(u)]
              /\ UNCHANGED <<fresh, box>>
           \/ /\ (~ checkPodInterfaces(u) /\ Fine) \/ Fault("io")
              /\ Returned(b, "failed")
        /\ UNCHANGED <<cluster, ep, cache, node>>

(* createPodVeth, configurePodInterface, and for an ElasticIP RouteReplace,*)
(* which moves the route here from whatever veth it left through.  A       *)
(* failure may leave the veth for the undo.                                *)
createPodVeth(b) ==
    LET c == <<"add", b>>
        made == links \cup {<<NicOf(c), b>>}
    IN  /\ Serving(c, "veth")
        /\ \/ /\ Fine
              /\ links' = made
              /\ route' = IF reach = "route" /\ NicOf(c) = Primary THEN b ELSE route
              /\ Goto(c, "create")
           \/ /\ Fault("io")
              /\ links' \in {links, made} /\ UNCHANGED route
              /\ Goto(c, "undo")
        /\ UNCHANGED <<cluster, ep, fresh, cache, probes, pins, box>>

(* upsertNetworkEndpoint: create, or read and refresh the attachment, and  *)
(* start over when another writer got there first.  A write that fails may *)
(* have been applied; the ADD then does not know that it made the object.  *)
Cancelled(b) == box[b].state # "adding"
Attached(b) == [uid |-> UidOf[b], box |-> b, late |-> FALSE]
Refreshed(n, b) == [ep[n] EXCEPT !.box = b, !.late = @ /\ ep[n].box = b]

NextNic(c, made) ==
    \/ \E j \in First(Ahead(c)) :
          call' = [call EXCEPT ![c].at = "veth", ![c].i = j, ![c].created = @ \cup made, ![c].tries = 0]
    \/ /\ Ahead(c) = {}
       /\ call' = [call EXCEPT ![c].at = "register", ![c].created = @ \cup made, ![c].tries = 0]

Race(c) ==
    call' = [call EXCEPT ![c].tries = @ + 1,
                         ![c].at = IF call[c].tries + 1 < MaxTries THEN "create" ELSE "undo"]

(* A write that fails: by an error, by an applied write whose answer is    *)
(* lost, or because the context is over.                                   *)
WriteFails(b, n, after) ==
    /\ \/ (Fault("io") \/ (Cancelled(b) /\ Fine)) /\ UNCHANGED <<ep, fresh>>
       \/ /\ Fault("lost") /\ after # ep[n]
          /\ ep' = [ep EXCEPT ![n] = after]
          /\ fresh' = Written(n, {})
    /\ Goto(<<"add", b>>, "undo")

CreateEndpoint(b) ==
    LET c == <<"add", b>>
        n == NicOf(c)
        up == <<n, b>> \in links
    IN  /\ Serving(c, "create")
        /\ \/ /\ up /\ ~ Cancelled(b) /\ ep[n] = NoEp /\ Fine
              /\ ep' = [ep EXCEPT ![n] = Attached(b)]
              /\ fresh' = Written(n, {c})
              /\ NextNic(c, {n})
           \/ /\ up /\ ~ Cancelled(b) /\ ep[n] # NoEp /\ Fine
              /\ Goto(c, "get") /\ UNCHANGED <<ep, fresh>>
           \/ /\ up
              /\ WriteFails(b, n, IF ep[n] = NoEp THEN Attached(b) ELSE ep[n])
           \/ ~ up /\ Fine /\ Goto(c, "undo") /\ UNCHANGED <<ep, fresh>>
        /\ UNCHANGED <<cluster, cache, node, box>>

GetEndpoint(b) ==
    LET c == <<"add", b>>
        n == NicOf(c)
    IN  /\ Serving(c, "get")
        /\ \/ /\ ~ Cancelled(b) /\ Fine
              /\ \/ ep[n] = NoEp /\ Race(c) /\ UNCHANGED fresh
                 \/ ep[n].uid = UidOf[b] /\ Goto(c, "update") /\ fresh' = fresh \cup {<<c, n>>}
                 \/ ep[n].uid \notin {None, UidOf[b]} /\ Goto(c, "undo") /\ UNCHANGED fresh
           \/ /\ (Cancelled(b) /\ Fine) \/ Fault("io")
              /\ Goto(c, "undo") /\ UNCHANGED fresh
        /\ UNCHANGED <<cluster, ep, cache, node, box>>

UpdateEndpoint(b) ==
    LET c == <<"add", b>>
        n == NicOf(c)
        current == <<c, n>> \in fresh
    IN  /\ Serving(c, "update")
        /\ \/ /\ current /\ ~ Cancelled(b) /\ Fine
              /\ ep' = [ep EXCEPT ![n] = Refreshed(n, b)]
              /\ fresh' = Written(n, {c})
              /\ NextNic(c, {})
           \/ ~ current /\ ~ Cancelled(b) /\ Fine /\ Race(c) /\ UNCHANGED <<ep, fresh>>
           \/ WriteFails(b, n, IF current THEN Refreshed(n, b) ELSE ep[n])
        /\ UNCHANGED <<cluster, cache, node, box>>

(* RegisterPod pins the namespace, then publishes the targets under the    *)
(* lock.  A Pod whose probes are not rewritten has nothing to register.    *)
pinNetNS(b) ==
    LET c == <<"add", b>>
        u == UidOf[b]
        known == cache.pod.uid = u
    IN  /\ Serving(c, "register")
        /\ \/ /\ known /\ reach = "probe" /\ Fine
              /\ pins' = [pins EXCEPT ![u] = b]
              /\ Goto(c, "publish") /\ UNCHANGED <<fresh, box>>
           \/ /\ known /\ reach # "probe" /\ Fine
              /\ Returned(b, "up") /\ UNCHANGED pins
           \/ /\ ~ known /\ Fine
              /\ Goto(c, "undo") /\ UNCHANGED <<pins, fresh, box>>
           \/ /\ known /\ reach = "probe" /\ Fault("io")
              /\ pins' \in {pins, [pins EXCEPT ![u] = None]}
              /\ Goto(c, "undo") /\ UNCHANGED <<fresh, box>>
        /\ UNCHANGED <<cluster, ep, cache, links, route, probes>>

publish(b) ==
    LET c == <<"add", b>>
        u == UidOf[b]
    IN  /\ Serving(c, "publish")
        /\ \/ /\ Fine /\ probes' = [probes EXCEPT ![u] = b]
              /\ Returned(b, "up") /\ UNCHANGED pins
           \/ /\ Fault("io") /\ pins' = [pins EXCEPT ![u] = None]
              /\ Goto(c, "undo") /\ UNCHANGED <<probes, fresh, box>>
        /\ UNCHANGED <<cluster, ep, cache, links, route>>

(* The undo, one NIC at a time from the last: the endpoint this ADD made,  *)
(* if it is still the version it made, then the host route while it leaves *)
(* through this veth, and the veth.  Each is best effort.                  *)
rollback(b) ==
    LET c == <<"add", b>>
        n == NicOf(c)
        mine == n \in call[c].created /\ <<c, n>> \in fresh
        deleted == mine /\ ep' = [ep EXCEPT ![n] = NoEp] /\ fresh' = Written(n, {})
        kept == UNCHANGED <<ep, fresh>>
        unlinked == /\ links' = links \ {<<n, b>>}
                    /\ route' = IF route = b /\ n = Primary THEN None ELSE route
    IN  /\ Serving(c, "undo")
        /\ \/ /\ call[c].i > 0
              /\ \/ Fine /\ (deleted \/ (~ mine /\ kept)) /\ unlinked
                 \/ /\ Fault("io")
                    /\ \/ kept /\ unlinked
                       \/ (deleted \/ (~ mine /\ kept)) /\ UNCHANGED <<links, route>>
              /\ \E j \in Last(Behind(c) \cup {0}) : call' = [call EXCEPT ![c].i = j]
              /\ UNCHANGED box
           \/ /\ call[c].i = 0 /\ Fine
              /\ Returned(b, "failed")
              /\ UNCHANGED <<ep, links, route>>
        /\ UNCHANGED <<cluster, cache, probes, pins>>

(***************************************************************************)
(* DEL.                                                                    *)
(***************************************************************************)
Deleted(b, ok) ==
    /\ call' = [call EXCEPT ![<<"del", b>>] = Idle]
    /\ fresh' = {f \in fresh : f[1] # <<"del", b>>}
    /\ box' = IF ok THEN [box EXCEPT ![b] = [state |-> "gone", dels |-> @.dels + 1]] ELSE box

(* Mutant: the NICs are taken from the endpoint list alone.                *)
NICsFromEndpoints(u) == {n \in Nics : n = Primary \/ cache.eps[n] = u}

(* The NICs of the cached endpoints of this instance, those the cached Pod *)
(* asks for, and the primary, which comes first.                           *)
podNICsToRelease(u) == {n \in Nics : n = Primary \/ cache.eps[n] = u \/ n \in podNetworkAttachments(u)}

(* The host routes through each veth of the sandbox and the veth itself,   *)
(* then the list of the NICs to release.                                   *)
deleteSandboxVeths(b) ==
    LET c == <<"del", b>>
        own == links \cap (Nics \X {b})
    IN  /\ Serving(c, "veths")
        /\ \E kept \in SUBSET own :
              /\ links' = links \ (own \ kept)
              /\ route' = IF route = b /\ <<Primary, b>> \notin kept THEN None ELSE route
              /\ \/ /\ kept = {} /\ Fine
                    /\ call' = [call EXCEPT ![c].at = "read", ![c].i = 1,
                                            ![c].nics = podNICsToRelease(UidOf[b])]
                    /\ UNCHANGED <<fresh, box>>
                 \/ Fault("io") /\ Deleted(b, FALSE)
        /\ UNCHANGED <<cluster, ep, cache, probes, pins>>

(* The loop goes on with the next NIC; a newer sandbox that holds the      *)
(* primary endpoint keeps its probes.                                      *)
Released(c, superseded) ==
    LET kept == call[c].superseded \/ (superseded /\ NicOf(c) = Primary) IN
    \/ \E j \in First(Ahead(c)) :
          call' = [call EXCEPT ![c].at = "read", ![c].i = j, ![c].superseded = kept]
    \/ /\ Ahead(c) = {}
       /\ call' = [call EXCEPT ![c].at = "unregister", ![c].superseded = kept]

(* releaseNetworkEndpoint, the read: an endpoint of another instance is    *)
(* none of this DEL's business, one of another sandbox is superseded.      *)
readEndpoint(b) ==
    LET c == <<"del", b>>
        n == NicOf(c)
    IN  /\ Serving(c, "read")
        /\ \/ /\ Fine /\ UNCHANGED box
              /\ \/ ep[n].uid # UidOf[b] /\ Released(c, FALSE) /\ UNCHANGED <<ep, fresh>>
                 \/ ep[n].uid = UidOf[b] /\ ep[n].box # b /\ Released(c, TRUE) /\ UNCHANGED <<ep, fresh>>
                 \/ ep[n].uid = UidOf[b] /\ ep[n].box = b /\ Goto(c, "delete")
                    /\ fresh' = fresh \cup {<<c, n>>} /\ ep' = [ep EXCEPT ![n].late = FALSE]
           \/ Fault("io") /\ Deleted(b, FALSE) /\ UNCHANGED ep
        /\ UNCHANGED <<cluster, cache, node>>

(* Mutant: the delete has no preconditions.                                *)
ReleaseUnguarded(b) ==
    LET c == <<"del", b>>
        n == NicOf(c)
    IN  /\ Serving(c, "delete")
        /\ ep' = [ep EXCEPT ![n] = NoEp]
        /\ fresh' = Written(n, {})
        /\ Released(c, FALSE)
        /\ UNCHANGED <<cluster, cache, node, box, faults>>

(* ... and the delete, guarded by UID and resourceVersion.  A Conflict     *)
(* counts as superseded.                                                   *)
releaseNetworkEndpoint(b) ==
    LET c == <<"del", b>>
        n == NicOf(c)
    IN  /\ Serving(c, "delete")
        /\ \/ /\ <<c, n>> \in fresh /\ Fine
              /\ ep' = [ep EXCEPT ![n] = NoEp]
              /\ fresh' = Written(n, {})
              /\ Released(c, FALSE) /\ UNCHANGED box
           \/ /\ <<c, n>> \notin fresh /\ Fine
              /\ Released(c, ep[n] # NoEp) /\ UNCHANGED <<ep, fresh, box>>
           \/ Fault("io") /\ Deleted(b, FALSE) /\ UNCHANGED ep
        /\ UNCHANGED <<cluster, cache, node>>

(* UnregisterPod: under the lock unless another sandbox has published; the *)
(* pin goes after the lock is released.  Its failure is only logged.       *)
UnregisterPod(b) ==
    LET c == <<"del", b>>
        u == UidOf[b]
        stale == call[c].superseded \/ probes[u] \notin {None, b}
    IN  /\ Serving(c, "unregister")
        /\ \/ stale /\ Deleted(b, TRUE) /\ UNCHANGED probes
           \/ /\ ~ stale /\ probes' = [probes EXCEPT ![u] = None]
              /\ Goto(c, "unpin") /\ UNCHANGED <<fresh, box>>
        /\ UNCHANGED <<cluster, ep, cache, links, route, pins, faults>>

unpinNetNS(b) ==
    LET c == <<"del", b>>
    IN  /\ Serving(c, "unpin")
        /\ \/ Fine /\ pins' = [pins EXCEPT ![UidOf[b]] = None]
           \/ Fault("io") /\ UNCHANGED pins
        /\ Deleted(b, TRUE)
        /\ UNCHANGED <<cluster, ep, cache, links, route, probes>>

(***************************************************************************)
(* CHECK, which changes nothing: what it answers for sandbox b when the    *)
(* caches are current.  The sandbox an endpoint names is not compared.     *)
(***************************************************************************)
verifyPodInterface(b, n) == <<n, b>> \in links

(* Mutant: every NIC is taken to need a route from the host.               *)
RouteOfEveryNic(n) == TRUE

hostRouteToPod(n) == reach = "route" /\ n = Primary

Check(b) ==
    LET u == UidOf[b]
    IN  /\ checkPodInterfaces(u)
        /\ \A n \in podNetworkAttachments(u) :
              /\ ep[n].uid = u
              /\ <<n, b>> \in links
              /\ hostRouteToPod(n) => route = b
              /\ verifyPodInterface(b, n)

(***************************************************************************)
(* The daemon restarts: calls end without their undo, the caches are read  *)
(* anew, and Recover rebuilds the targets before the socket is served, for *)
(* the Pods that have a pin and a primary endpoint.  Other pins go.        *)
(***************************************************************************)
Restart ==
    LET Recovered(u) == /\ pod.uid = u /\ reach = "probe"
                        /\ pins[u] # None /\ ep[Primary].uid = u
    IN  /\ Fault("crash")
        /\ call' = [c \in Calls |-> Idle]
        /\ fresh' = {}
        /\ box' = [b \in Box |-> IF box[b].state = "adding"
                                  THEN [box[b] EXCEPT !.state = "failed"] ELSE box[b]]
        /\ cache' = [pod |-> pod, nic |-> nic, eps |-> [n \in Extra |-> ep[n].uid]]
        /\ probes' = [u \in Uid |-> IF Recovered(u) THEN ep[Primary].box ELSE None]
        /\ pins' = [u \in Uid |-> IF Recovered(u) THEN pins[u] ELSE None]
        /\ UNCHANGED <<cluster, ep, links, route>>

Add(b) ==
    \/ AddBegins(b) \/ createPodVeth(b) \/ CreateEndpoint(b)
    \/ GetEndpoint(b) \/ UpdateEndpoint(b)
    \/ pinNetNS(b) \/ publish(b) \/ rollback(b)

Del(b) ==
    \/ deleteSandboxVeths(b) \/ readEndpoint(b)
    \/ releaseNetworkEndpoint(b) \/ UnregisterPod(b) \/ unpinNetNS(b)

Next ==
    \/ PodChanges \/ NicChanges \/ EndpointCollected \/ NodeIPWritten \/ CacheSyncs
    \/ RunSandbox \/ StopSandbox \/ Abandon \/ Restart
    \/ \E b \in Box : Add(b) \/ Del(b)

Spec == Init /\ [][Next]_vars

(***************************************************************************)
(* Properties.                                                             *)
(***************************************************************************)
(* The sandbox that the Pod runs in: the newest, its ADD has succeeded and *)
(* its DEL has not begun.                                                  *)
Live(b) ==
    /\ box[b].state = "up" /\ pod.uid = UidOf[b]
    /\ \A k \in DOMAIN Boxes : Boxes[k] = b =>
          \A j \in (k + 1)..Len(Boxes) : ~ Started(Boxes[j])

(* Whatever the late DELs and undos of older sandboxes do, and across a    *)
(* restart of the daemon, the live sandbox keeps the veth of each NIC, the *)
(* endpoint of each NIC names it, and so do the host route to an ElasticIP *)
(* and, while its namespace is pinned, the published probe targets (cni.go,*)
(* releaseNetworkEndpoint).                                                *)
LiveAttached ==
    \A b \in Box : Live(b) =>
        /\ \A n \in pod.wants : nic[n].uid = pod.uid =>
              <<n, b>> \in links /\ ep[n].uid = pod.uid /\ ep[n].box = b
        /\ reach = "route" => route = b
        /\ pins[pod.uid] = b /\ nic[Primary].uid = pod.uid => probes[pod.uid] = b

(* Kubelet is not told to rebuild a sandbox that works: while the Pod runs,*)
(* its NICs are allocated and the caches are current, CHECK of the live    *)
(* sandbox succeeds, whatever older sandboxes are being torn down (cni.go, *)
(* Check).                                                                 *)
LiveChecks ==
    \A b \in Box :
        /\ Live(b) /\ ~ pod.done
        /\ cache.pod = pod /\ cache.nic = nic
        /\ \A n \in pod.wants : nic[n] = [uid |-> pod.uid, ready |-> TRUE]
        => Check(b)

(* After a DEL that succeeded, no veth and no host route of the sandbox is *)
(* left, and an endpoint of a NIC that the Pod still asks for names it in  *)
(* one case only: the controller wrote the endpoint's status between the   *)
(* DEL's read and its guarded delete, and the DEL took the conflict for a  *)
(* newer sandbox.  In every other interleaving a DEL that gives up on an   *)
(* endpoint does so because a newer sandbox owns it (cni.go,               *)
(* releaseNetworkEndpoint).                                                *)
ReleasedByDel ==
    \A b \in Box :
        box[b].state = "gone" /\ Serving(<<"add", b>>, "idle") =>
            /\ links \cap (Nics \X {b}) = {}
            /\ route # b
            /\ UidOf[b] = pod.uid =>
                  \A n \in pod.wants :
                      nic[n].uid = pod.uid /\ ep[n].box = b => ep[n].late
=============================================================================
