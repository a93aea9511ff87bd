---------------------------- MODULE PolicyPlane ----------------------------
(***************************************************************************)
(* The policy plane of one node: the three runners of the daemon that      *)
(* write rules, group membership and the generation counter ("epoch") into *)
(* BPF maps, the packets that are evaluated against those maps on other    *)
(* CPUs meanwhile, the conntrack entries that admissions leave behind, and *)
(* the garbage collector that sweeps them.                                 *)
(*                                                                         *)
(* A step reads or writes one BPF map, so that all interleavings of the    *)
(* user-space writers with the packets are there; the two membership       *)
(* entries of a packet, the keys of a group the GC rechecks and the GC's   *)
(* snapshot are each read in one step.  Packets whose ports cannot be read *)
(* (later fragments) are left out, as is the Subnet's choice of ACL.  A    *)
(* restart of the daemon wipes the maps before it loads the programs       *)
(* (Manager.Start), so nothing survives it.                                *)
(***************************************************************************)
EXTENDS PolicyRules

CONSTANTS
    Groups,    \* SecurityGroups, by name; the name stands for its GroupID too
    Acls,      \* NetworkACLs, by name; the name stands for its ACLID too
    Nics,      \* NetworkInterfaces, the owners of membership entries
    Addrs,     \* Pod addresses
    Packets,   \* the packets that cross the node, closed under Mirror
    Local,     \* addresses whose Pod runs on this node, so has hooks here
    AclOf,     \* the ACL on the Subnet of a local address, or None
    Specs,     \* Specs[r]: the specs a group or an ACL may have
    Joins,     \* Joins[o]: the [addr, groups] an interface may have
    Window,    \* bound of the code: rules per direction (MAX_*_RULES_PER_DIR)
    CtSize,    \* bound of the code: entries of policy_ct_map
    Cpus,      \* CPUs that process packets
    Flags,     \* TCP flags packets carry
    Faults,    \* which map writes may fail
    Founded,   \* the objects that exist at the start
    Sweeps,    \* do entries age and does the GC run?
    MaxEdits,  \* bound: edits of API objects
    MaxFaults, \* bound: failing map writes
    MaxEpoch   \* bound: packets stop once the counter has reached this value

Policies == Groups \cup Acls
Kinds == {"sg", "acl", "nic"}
KeysOf(k) == CASE k = "sg" -> Groups [] k = "acl" -> Acls [] OTHER -> Nics
KindOf(x) == CHOOSE k \in Kinds : x \in KeysOf(k)

MaxSGsPerNIC == 2

\* The Cardinality conjuncts say that there are finitely many groups and objects.
ASSUME PolicyAssumption ==
    /\ \A p \in Packets : /\ Mirror(p) \in Packets /\ Mirror(Mirror(p)) = p
                          /\ {p.src, p.dst} \subseteq Addrs
    /\ AclOf \in [Local -> Acls \cup {None}]
    /\ \A G \in SUBSET Groups : Cardinality(G) \in Nat
    /\ Cardinality(Founded) \in Nat
    /\ Groups \cap Acls = {} /\ (Groups \cup Acls) \cap Nics = {}
    /\ \A o \in Nics : \A e \in Joins[o] : e.addr \in Addrs /\ e.groups \in Seq(Groups)
    /\ Faults \subseteq {"rules", "meta", "bump", "delete", "member", "sweep"}
    /\ Sweeps \in BOOLEAN
    /\ {Window, CtSize, MaxEdits, MaxFaults, MaxEpoch} \subseteq Nat

VARIABLES
    desired,   \* the objects as the informer cache shows them, None if absent
    queue,     \* per kind, the keys in the workqueue
    delayed,   \* keys waiting for the rate limiter
    worker,    \* per kind, what the runner's worker is doing
    snap,      \* reconciler snapshots: the policies a delete can still reach
    installed, \* invalidator.installed
    joined,    \* MembershipStore.snapshots
    rules,     \* the inner map of a policy, None if the outer map has none
    meta,      \* sg_meta_map and acl_meta_map
    members,   \* sg_membership_map
    epoch,     \* policy_epoch_map
    ct,        \* policy_ct_map
    cpu,       \* per CPU, the packet under evaluation
    gc,        \* the pass of the conntrack GC
    edits, faults

api == <<desired, queue, delayed, edits>>
tables == <<rules, meta, members>>
memory == <<snap, installed, joined>>
vars == <<api, worker, memory, tables, epoch, ct, cpu, gc, faults>>

NoWork == [pc |-> "idle"]
NoPacket == [pc |-> "idle"]
NoPass == [pc |-> "idle", seen |-> <<>>, epoch |-> 0, groups |-> {}, todo |-> {}]

(* What the reconciler is about to install: the expansion resolves group   *)
(* names through the groups applied so far.                                *)
ExpandedWith(r, spec, known) ==
    fitRuleSet(IF r \in Groups THEN ExpandSecurityGroup(spec, known)
                               ELSE ExpandNetworkACL(spec), Window)

Trimmed(gs) == SubSeq(gs, 1, IF Len(gs) > MaxSGsPerNIC THEN MaxSGsPerNIC ELSE Len(gs))

(* None is no content of a store.                                          *)
ASSUME ContentAssumption ==
    /\ \A r \in Policies : \A s \in Specs[r], known \in SUBSET Groups :
          ExpandedWith(r, s, known) # None
    /\ \A o \in Nics : \A e \in Joins[o] : [addr |-> e.addr, groups |-> Trimmed(e.groups)] # None

(* The runners have caught up with the objects that exist; the daemon came *)
(* up with epoch 1 and each of the objects took one bump.                  *)
Init ==
    /\ desired \in [Policies \cup Nics -> {None} \cup UNION {Specs[r] : r \in Policies}
                                                 \cup UNION {Joins[o] : o \in Nics}]
    /\ \A r \in Policies : IF r \in Founded THEN desired[r] \in Specs[r] ELSE desired[r] = None
    /\ \A o \in Nics : IF o \in Founded THEN desired[o] \in Joins[o] ELSE desired[o] = None
    /\ \A o, q \in Nics \cap Founded : o # q => desired[o].addr # desired[q].addr
    /\ queue = [k \in Kinds |-> <<>>]
    /\ delayed = {}
    /\ worker = [k \in Kinds |-> NoWork]
    /\ snap = Policies \cap Founded
    /\ installed = [r \in Policies |-> IF r \in Founded
                       THEN ExpandedWith(r, desired[r], Groups \cap Founded) ELSE None]
    /\ joined = [o \in Nics |-> IF o \in Founded /\ desired[o].groups # <<>>
                    THEN [addr |-> desired[o].addr, groups |-> Trimmed(desired[o].groups)] ELSE None]
    /\ rules = installed
    /\ meta = [r \in Policies |-> IF r \in Founded THEN MetaOf(installed[r]) ELSE None]
    /\ members = [a \in Addrs |->
          LET on == {o \in Nics : joined[o] # None /\ joined[o].addr = a}
          IN  IF on = {} THEN <<>> ELSE joined[CHOOSE o \in on : TRUE].groups]
    /\ epoch = 1 + Cardinality(Founded)
    /\ ct = <<>>
    /\ cpu = [c \in Cpus |-> NoPacket]
    /\ gc = NoPass
    /\ edits = 0
    /\ faults = 0

(***************************************************************************)
(* API events and the workqueues.                                          *)
(***************************************************************************)

RangeOf(s) == {s[i] : i \in DOMAIN s}

(* Workqueue.Add: a key that is queued already is not queued again.        *)
Added(q, x) == IF x \in RangeOf(q) THEN q ELSE Append(q, x)

(* A SecurityGroup event reaches two handlers, one that enqueues the group *)
(* itself and one that enqueues the other groups of the Vpc, in the order  *)
(* in which the cache lists them; they run in goroutines of their own.  So *)
(* the keys that are not queued yet are appended in any order.             *)
Enqueued(x) ==
    LET q == queue[KindOf(x)]
        missing == Groups \ RangeOf(q)
        orders == {s \in [1 .. Cardinality(missing) -> missing] : RangeOf(s) = missing}
    IN  {[queue EXCEPT ![KindOf(x)] = s] :
            s \in IF x \in Groups THEN {q \o t : t \in orders} ELSE {Added(q, x)}}

(* A user or the controller changes, creates or deletes an object.  Two    *)
(* interfaces never hold one address at a time: the allocator sees to it.  *)
Edit(x) ==
    /\ edits < MaxEdits
    /\ \E v \in {None} \cup (IF x \in Nics THEN Joins[x] ELSE Specs[x]) :
          /\ v # desired[x]
          /\ x \in Nics /\ v # None =>
                \A o \in Nics \ {x} : desired[o] # None => desired[o].addr # v.addr
          /\ desired' = [desired EXCEPT ![x] = v]
    /\ queue' \in Enqueued(x)
    /\ edits' = edits + 1
    /\ UNCHANGED <<delayed, worker, memory, tables, epoch, ct, cpu, gc, faults>>

(* The informers' resync replays an object that has not changed.           *)
Resync(x) ==
    /\ edits < MaxEdits
    /\ desired[x] # None
    /\ queue' = [queue EXCEPT ![KindOf(x)] = Added(@, x)]
    /\ queue' # queue
    /\ edits' = edits + 1
    /\ UNCHANGED <<desired, delayed, worker, memory, tables, epoch, ct, cpu, gc, faults>>

(* The rate limiter lets a failed key back into its queue.                 *)
Requeue(x) ==
    /\ x \in delayed
    /\ delayed' = delayed \ {x}
    /\ queue' = [queue EXCEPT ![KindOf(x)] = Added(@, x)]
    /\ UNCHANGED <<desired, edits, worker, memory, tables, epoch, ct, cpu, gc, faults>>

(***************************************************************************)
(* The runners' workers.                                                   *)
(***************************************************************************)
Goto(k, pc) == worker' = [worker EXCEPT ![k].pc = pc]
Finish(k) == worker' = [worker EXCEPT ![k] = NoWork]

(* Mutant of Fail: the key of a failed pass is forgotten.                  *)
FailForget(k, kind) ==
    /\ kind \in Faults
    /\ faults < MaxFaults
    /\ faults' = faults + 1
    /\ Finish(k)
    /\ UNCHANGED <<desired, queue, delayed, edits, memory, tables, epoch, ct, cpu, gc>>

(* Reconcile returned an error: processNext adds the key rate-limited.     *)
Fail(k, kind) ==
    /\ kind \in Faults
    /\ faults < MaxFaults
    /\ faults' = faults + 1
    /\ delayed' = delayed \cup {worker[k].key}
    /\ Finish(k)
    /\ UNCHANGED <<desired, queue, edits, memory, tables, epoch, ct, cpu, gc>>

Silent == UNCHANGED <<desired, queue, delayed, edits, ct, cpu, gc, faults>>

Expanded(r) == ExpandedWith(r, desired[r], snap \cap Groups)

(* SecurityGroup.Reconcile and NetworkACL.Reconcile up to the first map    *)
(* call: a missing object drops the snapshot before anything is deleted.   *)
TakePolicy(k) ==
    /\ k # "nic"
    /\ worker[k] = NoWork
    /\ queue[k] # <<>>
    /\ LET r == Head(queue[k])
       IN  IF desired[r] = None
           THEN /\ snap' = snap \ {r}
                /\ worker' = [worker EXCEPT ![k] =
                                 IF r \in snap THEN [pc |-> "delrules", key |-> r] ELSE NoWork]
           ELSE /\ worker' = [worker EXCEPT ![k] =
                                 [pc |-> "rules", key |-> r, rs |-> Expanded(r)]]
                /\ UNCHANGED snap
    /\ queue' = [queue EXCEPT ![k] = Tail(@)]
    /\ UNCHANGED <<desired, delayed, edits, installed, joined, tables, epoch, ct, cpu, gc, faults>>

(* Rotator.Apply: swap the new inner map in, then write the meta entry,    *)
(* whose failure is only logged.                                           *)
SwapRules(k) ==
    /\ worker[k].pc = "rules"
    /\ \/ /\ rules' = [rules EXCEPT ![worker[k].key] = worker[k].rs]
          /\ Goto(k, "meta")
          /\ Silent
          /\ UNCHANGED <<memory, meta, members, epoch>>
       \/ Fail(k, "rules")

WriteMeta(k) ==
    /\ worker[k].pc = "meta"
    /\ \/ /\ meta' = [meta EXCEPT ![worker[k].key] = MetaOf(worker[k].rs)]
          /\ UNCHANGED faults
       \/ /\ "meta" \in Faults
          /\ faults < MaxFaults
          /\ faults' = faults + 1
          /\ UNCHANGED meta
    /\ Goto(k, "bump")
    /\ UNCHANGED <<desired, queue, delayed, edits, ct, cpu, gc, memory, rules, members, epoch>>

(* Epoch.Bump, under its mutex.                                            *)
Bump == epoch' = epoch + 1

(* invalidator.applied: replaying the installed content bumps nothing.     *)
(* Then the reconciler records the policy.                                 *)
ApplyDone(k) ==
    /\ worker[k].pc = "bump"
    /\ LET r == worker[k].key
       IN  \/ /\ IF installed[r] = worker[k].rs THEN UNCHANGED epoch ELSE Bump
              /\ installed' = [installed EXCEPT ![r] = worker[k].rs]
              /\ snap' = snap \cup {r}
              /\ Finish(k)
              /\ Silent
              /\ UNCHANGED <<joined, tables>>
           \/ installed[r] # worker[k].rs /\ Fail(k, "bump")

(* Rotator.Delete and invalidator.deleted.                                 *)
DeleteRules(k) ==
    /\ worker[k].pc = "delrules"
    /\ \/ /\ rules' = [rules EXCEPT ![worker[k].key] = None]
          /\ Goto(k, "delmeta")
          /\ Silent
          /\ UNCHANGED <<memory, meta, members, epoch>>
       \/ Fail(k, "delete")

DeleteMeta(k) ==
    /\ worker[k].pc = "delmeta"
    /\ \/ /\ meta' = [meta EXCEPT ![worker[k].key] = None]
          /\ Goto(k, "delbump")
          /\ Silent
          /\ UNCHANGED <<memory, rules, members, epoch>>
       \/ Fail(k, "delete")

DeleteDone(k) ==
    /\ worker[k].pc = "delbump"
    /\ \/ /\ Bump
          /\ installed' = [installed EXCEPT ![worker[k].key] = None]
          /\ Finish(k)
          /\ Silent
          /\ UNCHANGED <<snap, joined, tables>>
       \/ Fail(k, "bump")

(***************************************************************************)
(* SGMembership.Reconcile and MembershipStore.                             *)
(***************************************************************************)
TakeNic ==
    /\ worker["nic"] = NoWork
    /\ queue["nic"] # <<>>
    /\ LET o == Head(queue["nic"])
           gone == desired[o] = None \/ desired[o].groups = <<>>
       IN  worker' = [worker EXCEPT !["nic"] =
              IF ~gone
              THEN [pc |-> "write", key |-> o,
                    entry |-> [addr |-> desired[o].addr, groups |-> Trimmed(desired[o].groups)]]
              ELSE IF joined[o] = None THEN NoWork ELSE [pc |-> "leave", key |-> o]]
    /\ queue' = [queue EXCEPT !["nic"] = Tail(@)]
    /\ UNCHANGED <<desired, delayed, edits, memory, tables, epoch, ct, cpu, gc, faults>>

(* MembershipStore.Apply: the new entry is written first ...               *)
WriteMember ==
    /\ worker["nic"].pc = "write"
    /\ \/ LET e == worker["nic"].entry
          IN  /\ members' = [members EXCEPT ![e.addr] = e.groups]
              /\ Goto("nic", "clean")
              /\ Silent
              /\ UNCHANGED <<memory, rules, meta, epoch>>
       \/ Fail("nic", "member")

(* ... then the entry under the owner's former address goes, a failure of  *)
(* which is only logged ...                                                *)
CleanMember ==
    /\ worker["nic"].pc = "clean"
    /\ LET old == joined[worker["nic"].key]
           new == worker["nic"].entry
       IN  /\ \/ /\ members' = IF old # None /\ old.addr # new.addr
                               THEN [members EXCEPT ![old.addr] = <<>>] ELSE members
                 /\ UNCHANGED faults
              \/ /\ old # None /\ old.addr # new.addr
                 /\ "member" \in Faults
                 /\ faults < MaxFaults
                 /\ faults' = faults + 1
                 /\ UNCHANGED members
           /\ IF old = new THEN Finish("nic") ELSE Goto("nic", "joinbump")
    /\ UNCHANGED <<desired, queue, delayed, edits, ct, cpu, gc, memory, rules, meta, epoch>>

(* ... and an entry that changed bumps the counter.                        *)
JoinDone ==
    /\ worker["nic"].pc = "joinbump"
    /\ \/ /\ Bump
          /\ joined' = [joined EXCEPT ![worker["nic"].key] = worker["nic"].entry]
          /\ Finish("nic")
          /\ Silent
          /\ UNCHANGED <<snap, installed, tables>>
       \/ Fail("nic", "bump")

(* MembershipStore.Delete removes the entry under the key it wrote last.   *)
DeleteMember ==
    /\ worker["nic"].pc = "leave"
    /\ \/ /\ members' = [members EXCEPT ![joined[worker["nic"].key].addr] = <<>>]
          /\ Goto("nic", "leavebump")
          /\ Silent
          /\ UNCHANGED <<memory, rules, meta, epoch>>
       \/ Fail("nic", "member")

LeaveDone ==
    /\ worker["nic"].pc = "leavebump"
    /\ \/ /\ Bump
          /\ joined' = [joined EXCEPT ![worker["nic"].key] = None]
          /\ Finish("nic")
          /\ Silent
          /\ UNCHANGED <<snap, installed, tables>>
       \/ Fail("nic", "bump")

(***************************************************************************)
(* One packet at one hook: apply_policy.                                   *)
(***************************************************************************)
Held == UNCHANGED <<api, worker, memory, tables, epoch, gc, faults>>

Step(c, pc) == cpu' = [cpu EXCEPT ![c].pc = pc]
Verdict(c) == cpu' = [cpu EXCEPT ![c] = NoPacket]

(* Mutant of KeyOf: the epoch is read again when the key is used.          *)
KeyOfLate(c) == [epoch |-> epoch, hook |-> cpu[c].hook, pkt |-> cpu[c].pkt]

(* policy_ct_fill_key, with the epoch that was read on arrival.            *)
KeyOf(c) == [epoch |-> cpu[c].epoch, hook |-> cpu[c].hook, pkt |-> cpu[c].pkt]

(* The caller has read the Subnet's ACL; the epoch is read before any rule *)
(* is.                                                                     *)
Arrive(c, h, p) ==
    /\ cpu[c] = NoPacket
    /\ epoch < MaxEpoch
    /\ SelfOf(h, p) \in Local
    /\ \E f \in Flags :
          cpu' = [cpu EXCEPT ![c] = [pc |-> "lookup", hook |-> h, pkt |-> p, flag |-> f,
                                     epoch |-> epoch, acl |-> AclOf[SelfOf(h, p)],
                                     m |-> None, todo |-> <<>>, peer |-> {}, any |-> FALSE]]
    /\ Held
    /\ UNCHANGED ct

(* A hit refreshes the entry and steps its TCP state; a closed one loses   *)
(* its other half here and itself in the next step.                        *)
Lookup(c) ==
    /\ cpu[c].pc = "lookup"
    /\ LET k == KeyOf(c)
           next == ct_derive_next_state(ct[k].state, cpu[c].flag)
           rev == policy_ct_reverse_key(k)
       IN  IF k \notin DOMAIN ct
           THEN Step(c, "aclmeta") /\ UNCHANGED ct
           ELSE IF next # "closed"
           THEN /\ ct' = [ct EXCEPT ![k] = [state |-> next, idle |-> FALSE]]
                /\ Verdict(c)
           ELSE /\ ct' = [x \in DOMAIN ct \ {rev} |->
                            IF x = k THEN [state |-> next, idle |-> FALSE] ELSE ct[x]]
                /\ Step(c, "close")
    /\ Held

CloseSelf(c) ==
    /\ cpu[c].pc = "close"
    /\ ct' = [x \in DOMAIN ct \ {KeyOf(c)} |-> ct[x]]
    /\ Verdict(c)
    /\ Held

(* acl_evaluate: the meta entry, then the inner map.                       *)
AclMeta(c) ==
    /\ cpu[c].pc = "aclmeta"
    /\ LET a == cpu[c].acl
       IN  IF a # None /\ acl_has_rules(meta[a], cpu[c].hook)
           THEN cpu' = [cpu EXCEPT ![c].pc = "aclrules", ![c].m = meta[a]]
           ELSE Step(c, "members")
    /\ Held
    /\ UNCHANGED ct

AclRules(c) ==
    /\ cpu[c].pc = "aclrules"
    /\ IF acl_evaluate(cpu[c].m, rules[cpu[c].acl], cpu[c].hook, cpu[c].pkt) = "deny"
       THEN Verdict(c)
       ELSE cpu' = [cpu EXCEPT ![c].pc = "members", ![c].m = None]
    /\ Held
    /\ UNCHANGED ct

(* The layers let the packet through; what they read is not needed again.  *)
Admit(c) ==
    cpu' = [cpu EXCEPT ![c].pc = "installrev", ![c].m = None, ![c].todo = <<>>,
                       ![c].peer = {}, ![c].any = FALSE]

(* The groups of both ends.  A Pod in no group skips the group layer, and  *)
(* leaves a conntrack entry only if an ACL is attached.                    *)
Members(c) ==
    /\ cpu[c].pc = "members"
    /\ LET self == members[SelfOf(cpu[c].hook, cpu[c].pkt)]
           peer == RangeOf(members[PeerOf(cpu[c].hook, cpu[c].pkt)])
       IN  IF self # <<>>
           THEN cpu' = [cpu EXCEPT ![c].pc = "sgmeta", ![c].todo = self, ![c].peer = peer]
           ELSE IF cpu[c].acl = None THEN Verdict(c) ELSE Admit(c)
    /\ Held
    /\ UNCHANGED ct

(* sg_eval: group by group, the meta entry and then the rules.  The first  *)
(* match admits the packet.                                                *)
SgMeta(c) ==
    /\ cpu[c].pc = "sgmeta"
    /\ LET h == cpu[c].hook
           m == meta[Head(cpu[c].todo)]
           admitted == sg_default(cpu[c].any, h) = "pass"
       IN  IF cpu[c].todo = <<>>
           THEN IF admitted THEN Admit(c) ELSE Verdict(c)
           ELSE IF ~sg_declared(m, h)
           THEN cpu' = [cpu EXCEPT ![c].todo = Tail(@)]
           ELSE IF m[h] = 0
           THEN cpu' = [cpu EXCEPT ![c].todo = Tail(@), ![c].any = TRUE]
           ELSE cpu' = [cpu EXCEPT ![c].pc = "sgrules", ![c].m = m, ![c].any = TRUE]
    /\ Held
    /\ UNCHANGED ct

SgRules(c) ==
    /\ cpu[c].pc = "sgrules"
    /\ IF sg_eval_one_sg(cpu[c].m, rules[Head(cpu[c].todo)], cpu[c].hook, cpu[c].pkt, cpu[c].peer)
       THEN Admit(c)
       ELSE cpu' = [cpu EXCEPT ![c].todo = Tail(@), ![c].pc = "sgmeta", ![c].m = None]
    /\ Held
    /\ UNCHANGED ct

(* policy_ct_install: the reverse half first, the forward half only once   *)
(* the reverse half is in.  A write fails when the map is full.            *)
Fits(k) == k \in DOMAIN ct \/ Cardinality(DOMAIN ct) < CtSize

Put(c, k) ==
    ct' = [x \in DOMAIN ct \cup {k} |->
              IF x = k THEN [state |-> ct_initial_state_for_syn(cpu[c].flag), idle |-> FALSE]
              ELSE ct[x]]

(* Mutant of InstallReverse: the reverse half is keyed with the hook of    *)
(* the forward half.                                                       *)
InstallReverseHere(c) ==
    LET rev == [epoch |-> cpu[c].epoch, hook |-> cpu[c].hook, pkt |-> Mirror(cpu[c].pkt)]
    IN  /\ cpu[c].pc = "installrev"
        /\ IF Fits(rev) THEN Put(c, rev) /\ Step(c, "installfwd") ELSE Verdict(c) /\ UNCHANGED ct
        /\ Held

InstallReverse(c) ==
    /\ cpu[c].pc = "installrev"
    /\ IF Fits(policy_ct_reverse_key(KeyOf(c)))
       THEN Put(c, policy_ct_reverse_key(KeyOf(c))) /\ Step(c, "installfwd")
       ELSE Verdict(c) /\ UNCHANGED ct
    /\ Held

InstallForward(c) ==
    /\ cpu[c].pc = "installfwd"
    /\ IF Fits(KeyOf(c)) THEN Put(c, KeyOf(c)) ELSE UNCHANGED ct
    /\ Verdict(c)
    /\ Held

(***************************************************************************)
(* The conntrack GC: policySweeper.sweep over mapsweep.Sweep.              *)
(***************************************************************************)
Apart == UNCHANGED <<api, worker, memory, tables, epoch, cpu, faults>>

(* The TTL of an entry runs out.  TTLs are seconds at least, so none runs  *)
(* out while a packet is under evaluation.  The pass judges every entry by *)
(* the time at which it started.                                           *)
Expire(k) ==
    /\ Sweeps
    /\ gc = NoPass
    /\ \A c \in Cpus : cpu[c] = NoPacket
    /\ k \in DOMAIN ct
    /\ ~ct[k].idle
    /\ ct' = [ct EXCEPT ![k].idle = TRUE]
    /\ UNCHANGED gc
    /\ Apart

Idle(table, k) == table[k].idle \/ table[k].state = "closed"

GcSnapshot ==
    /\ Sweeps
    /\ gc = NoPass
    /\ ct # <<>>
    /\ gc' = [gc EXCEPT !.pc = "plan", !.seen = ct]
    /\ UNCHANGED ct
    /\ Apart

(* Mutant of GcPlan: entries of every epoch wait for their TTL.            *)
GcPlanIdleOnly ==
    /\ gc.pc = "plan"
    /\ LET seen == gc.seen
           over == {k \in DOMAIN seen :
                      /\ Idle(seen, k)
                      /\ LET partner == policy_ct_reverse_key(k)
                         IN  partner \in DOMAIN seen => Idle(seen, partner)}
       IN  gc' = [gc EXCEPT !.pc = "group", !.seen = <<>>, !.epoch = epoch,
                            !.groups = {{k, policy_ct_reverse_key(k)} : k \in over}]
    /\ UNCHANGED ct
    /\ Apart

(* planPolicyCT: an entry of another epoch goes on its own, one of this    *)
(* epoch goes with its partner, once every half that is there is idle.     *)
GcPlan ==
    /\ gc.pc = "plan"
    /\ LET seen == gc.seen
           stale == {k \in DOMAIN seen : k.epoch # epoch}
           over == {k \in DOMAIN seen \ stale :
                      /\ Idle(seen, k)
                      /\ LET partner == policy_ct_reverse_key(k)
                         IN  partner \in DOMAIN seen => Idle(seen, partner)}
       IN  gc' = [gc EXCEPT !.pc = "group", !.seen = <<>>, !.epoch = epoch,
                            !.groups = {{k} : k \in stale}
                                          \cup {{k, policy_ct_reverse_key(k)} : k \in over}]
    /\ UNCHANGED ct
    /\ Apart

(* The keys of a group are read again, and the group is kept if one of     *)
(* them is in use by now.                                                  *)
GcRecheck ==
    /\ gc.pc = "group"
    /\ IF gc.groups = {} THEN gc' = NoPass
       ELSE \E group \in gc.groups :
               LET present == group \cap DOMAIN ct
                   confirmed == \/ \A k \in group : k.epoch # gc.epoch
                                \/ \A k \in present : Idle(ct, k)
               IN  gc' = [gc EXCEPT !.groups = @ \ {group},
                                    !.pc = IF confirmed /\ present # {} THEN "remove" ELSE @,
                                    !.todo = IF confirmed THEN present ELSE {}]
    /\ UNCHANGED ct
    /\ Apart

(* They are deleted one at a time.                                         *)
GcRemove ==
    /\ gc.pc = "remove"
    /\ \E k \in gc.todo :
          /\ ct' = [x \in DOMAIN ct \ {k} |-> ct[x]]
          /\ gc' = [gc EXCEPT !.todo = @ \ {k}, !.pc = IF gc.todo = {k} THEN "group" ELSE @]
    /\ Apart

(* A map call of the pass fails: Sweep returns and leaves the rest to the  *)
(* next pass.                                                              *)
GcAbort ==
    /\ gc # NoPass
    /\ "sweep" \in Faults
    /\ faults < MaxFaults
    /\ faults' = faults + 1
    /\ gc' = NoPass
    /\ UNCHANGED <<api, worker, memory, tables, epoch, cpu, ct>>

(***************************************************************************)
(* The specification.                                                      *)
(***************************************************************************)
WorkerStep(k) ==
    \/ TakePolicy(k) \/ SwapRules(k) \/ WriteMeta(k) \/ ApplyDone(k)
    \/ DeleteRules(k) \/ DeleteMeta(k) \/ DeleteDone(k)

NicStep ==
    \/ TakeNic \/ WriteMember \/ CleanMember \/ JoinDone \/ DeleteMember \/ LeaveDone

PacketStep(c) ==
    \/ Lookup(c) \/ CloseSelf(c) \/ AclMeta(c) \/ AclRules(c) \/ Members(c)
    \/ SgMeta(c) \/ SgRules(c) \/ InstallReverse(c) \/ InstallForward(c)

GcStep == GcSnapshot \/ GcPlan \/ GcRecheck \/ GcRemove

Next ==
    \/ \E x \in Policies \cup Nics : Edit(x) \/ Resync(x) \/ Requeue(x)
    \/ \E k \in Kinds : WorkerStep(k)
    \/ NicStep
    \/ \E c \in Cpus : \/ \E h \in Hooks, p \in Packets : Arrive(c, h, p)
                        \/ PacketStep(c)
    \/ \E k \in DOMAIN ct : Expire(k)
    \/ GcStep
    \/ GcAbort

Spec == Init /\ [][Next]_vars

FairSpec ==
    /\ Spec
    /\ \A x \in Policies \cup Nics : WF_vars(Requeue(x))
    /\ \A k \in Kinds : WF_vars(WorkerStep(k))
    /\ WF_vars(NicStep)
    /\ \A c \in Cpus : WF_vars(PacketStep(c))
    /\ WF_vars(GcStep)

(***************************************************************************)
(* Properties.                                                             *)
(***************************************************************************)
(* What apply_policy would decide if all of it ran now.                    *)
AdmitsNow(h, p) ==
    LET a == AclOf[SelfOf(h, p)]
        self == members[SelfOf(h, p)]
        peer == RangeOf(members[PeerOf(h, p)])
        declaring == {g \in RangeOf(self) : sg_declared(meta[g], h)}
    IN  /\ a # None => acl_evaluate(meta[a], rules[a], h, p) # "deny"
        /\ self # <<>> =>
              \/ \E g \in declaring : sg_eval_one_sg(meta[g], rules[g], h, p, peer)
              \/ sg_default(declaring # {}, h) = "pass"

(* Do the tables hold exactly what the stores remember to have installed,  *)
(* and bumped the counter for?                                             *)
Published ==
    /\ \A r \in Policies :
          /\ rules[r] = installed[r]
          /\ meta[r] = IF installed[r] = None THEN None ELSE MetaOf(installed[r])
    /\ \A a \in Addrs :
          members[a] = IF \E o \in Nics : joined[o] # None /\ joined[o].addr = a
                       THEN joined[CHOOSE o \in Nics : joined[o] # None /\ joined[o].addr = a].groups
                       ELSE <<>>

(* The admissions that lookups can reach are never older than the rules:   *)
(* whenever every change has been published, each conntrack entry of the   *)
(* current epoch is half of an admission that the rules in force would     *)
(* grant again, whichever packets were being evaluated while the rules     *)
(* changed (policy.Epoch, invalidator, apply_policy).                      *)
AdmittedByCurrentRules ==
    Published => \A k \in DOMAIN ct : k.epoch = epoch =>
        \/ SelfOf(k.hook, k.pkt) \in Local /\ AdmitsNow(k.hook, k.pkt)
        \/ LET r == policy_ct_reverse_key(k)
           IN  SelfOf(r.hook, r.pkt) \in Local /\ AdmitsNow(r.hook, r.pkt)

(* Do the maps hold what the objects say: each policy as its spec expands  *)
(* when every group that exists can be resolved, each address with the     *)
(* groups of the interface that has it?  Nothing is asked about objects    *)
(* that are gone: a delete only reaches what an earlier pass completed.    *)
Converged ==
    LET live == {g \in Groups : desired[g] # None}
        want(r) == ExpandedWith(r, desired[r], live)
    IN  /\ \A r \in Policies : desired[r] # None =>
              rules[r] = want(r) /\ meta[r] = MetaOf(want(r))
        /\ \A o \in Nics : desired[o] # None /\ desired[o].groups # <<>> =>
              members[desired[o].addr] = Trimmed(desired[o].groups)

(* Once objects stop changing the maps come to hold what the objects say,  *)
(* whichever map writes failed on the way: every failure that Reconcile    *)
(* reports brings the key back through the rate limiter.                   *)
Converges == <>[]Converged

(* The entries that a bump has put out of reach are removed in the end,    *)
(* also those that packets in flight add after the bump; nothing but the   *)
(* GC removes them.                                                        *)
StaleSwept == <>[](\A k \in DOMAIN ct : k.epoch = epoch)

(* An admission whose packets take the conntrack shortcut has its other    *)
(* half too, unless the rules would let the replies in anyway: a map that  *)
(* is full at the first or the second write of policy_ct_install, a flow   *)
(* that closes, and a bump between any two reads of a packet, never leave  *)
(* a forward half on its own, which would short-circuit the flow while its *)
(* replies are dropped.  This is about packets that pass one at a time and *)
(* without the GC: mapsweep deletes the halves one by one while packets    *)
(* refresh them, and two CPUs may close and install one flow at once; with *)
(* either, a half can be left alone.                                       *)
RepliesPass ==
    (Published /\ gc = NoPass /\ \A c \in Cpus : cpu[c] = NoPacket) =>
        \A k \in DOMAIN ct :
            LET r == policy_ct_reverse_key(k)
            IN  k.epoch = epoch /\ SelfOf(k.hook, k.pkt) \in Local /\ AdmitsNow(k.hook, k.pkt)
                  => \/ r \in DOMAIN ct
                     \/ SelfOf(r.hook, r.pkt) \in Local /\ AdmitsNow(r.hook, r.pkt)
=============================================================================
