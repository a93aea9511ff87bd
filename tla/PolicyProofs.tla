---------------------------- MODULE PolicyProofs ----------------------------
(***************************************************************************)
(* No admission of the current epoch outlives the rules that granted it,   *)
(* for every set of groups, ACLs, interfaces, packets and CPUs, and every  *)
(* number of edits and of failing map writes: the steps of the writers,    *)
(* of the API and of the garbage collector, and the theorems.              *)
(***************************************************************************)
EXTENDS PolicyPacketProofs

(***************************************************************************)
(* The writers.  A step of theirs is quiet, and does not bring the tables  *)
(* back to the memory, or it bumps the counter.                            *)
(***************************************************************************)
Quiet ==
    /\ epoch' = epoch /\ installed' = installed /\ joined' = joined
    /\ Nearly' => Nearly
    /\ cpu' = cpu /\ ct' = ct

Loud == epoch' = epoch + 1 /\ cpu' = cpu /\ ct' = ct

LEMMA PromisesKept ==
    ASSUME PInv, Quiet \/ Loud
    PROVE  PacketInv'
<1>1. PacketInv /\ epoch \in Nat BY Zenon DEF PInv, WriterInv, Shape, StoreShape
<1>2. CASE Quiet
  BY Zenon, <1>1, <1>2, SameEpoch DEF Quiet
<1>3. CASE Loud
  BY Zenon, <1>1, <1>3, NextEpoch DEF Loud
<1> QED BY Zenon, <1>2, <1>3

(* Tables that stay as they are agree with an unchanged memory as before.  *)
LEMMA TablesStay ==
    ASSUME UNCHANGED <<memory, tables>>
    PROVE  Nearly' <=> Nearly
<1>1. /\ installed' = installed /\ joined' = joined /\ rules' = rules /\ meta' = meta
      /\ members' = members
  BY Zenon DEF memory, tables
<1> QED BY Zenon, <1>1, VerdictFollowsMemory DEF Nearly

LEMMA KindFacts ==
    /\ Kinds = PolicyKinds \cup {"nic"} /\ "nic" \notin PolicyKinds
    /\ KeysOf("sg") = Groups /\ KeysOf("acl") = Acls /\ KeysOf("nic") = Nics
    /\ \A k \in PolicyKinds : KeysOf(k) \subseteq Policies
    /\ \A r \in Policies : \E k \in PolicyKinds : r \in KeysOf(k)
    /\ \A j, k \in PolicyKinds : j # k => KeysOf(j) \cap KeysOf(k) = {}
    /\ \A x \in Policies \cup Nics : KindOf(x) \in Kinds /\ x \in KeysOf(KindOf(x))
<1>1. /\ Kinds = PolicyKinds \cup {"nic"} /\ "nic" \notin PolicyKinds
      /\ KeysOf("sg") = Groups /\ KeysOf("acl") = Acls /\ KeysOf("nic") = Nics
  BY Zenon DEF Kinds, PolicyKinds, KeysOf
<1>2. \A k \in PolicyKinds : KeysOf(k) \subseteq Policies
  BY Zenon, <1>1 DEF PolicyKinds, Policies
<1>3. \A r \in Policies : \E k \in PolicyKinds : r \in KeysOf(k)
  BY Zenon, <1>1 DEF PolicyKinds, Policies
<1>4. \A j, k \in PolicyKinds : j # k => KeysOf(j) \cap KeysOf(k) = {}
  BY Zenon, <1>1, PolicyAssumption DEF PolicyKinds
<1>5. ASSUME NEW x \in Policies \cup Nics PROVE KindOf(x) \in Kinds /\ x \in KeysOf(KindOf(x))
  <2>1. \E k \in Kinds : x \in KeysOf(k)
    BY Zenon, <1>1, <1>3
  <2> QED BY Zenon, <2>1 DEF KindOf
<1> QED BY Zenon, <1>1, <1>2, <1>3, <1>4, <1>5

(* A step of the worker of kind k on policy x, or the end of one.          *)
LEMMA PolicyMoves ==
    ASSUME WriterInv, NEW k \in PolicyKinds, NEW x \in KeysOf(k), NEW w, PolicyWork(w, k),
           worker' = [worker EXCEPT ![k] = w],
           worker[k] = NoWork \/ worker[k].key = x, w = NoWork \/ w.key = x,
           \A r \in Policies \ {x} :
               rules'[r] = rules[r] /\ meta'[r] = meta[r] /\ installed'[r] = installed[r],
           PointSound(x, w)',
           ApiShape', StoreShape', joined' = joined, members' = members
    PROVE  WriterInv'
<1>1. /\ ApiShape /\ WorkShape /\ StoreShape /\ PolicySound /\ MemberSound
  BY Zenon DEF WriterInv, Shape
<1>2. /\ DOMAIN worker' = Kinds /\ worker'[k] = w /\ worker'["nic"] = worker["nic"]
      /\ \A j \in PolicyKinds \ {k} : worker'[j] = worker[j]
  BY Zenon, <1>1, KindFacts DEF WorkShape
<1>3. WorkShape'
  <2>1. NicWork(worker["nic"])' <=> NicWork(worker["nic"])
    BY Zenon, <1>2 DEF NicWork, Leaving, Entering, Entry
  <2>2. \A j \in PolicyKinds : PolicyWork(worker'[j], j)
    BY Zenon, <1>1, <1>2 DEF WorkShape
  <2> QED BY Zenon, <1>1, <1>2, <2>1, <2>2 DEF WorkShape, PolicyWork, Applying, Deleting
<1>4. PolicySound'
  <2> SUFFICES ASSUME NEW j \in PolicyKinds, NEW r \in KeysOf(j) PROVE PointSound(r, WorkOn(j, r))'
    BY Zenon DEF PolicySound
  <2>1. PointSound(r, WorkOn(j, r)) BY Zenon, <1>1 DEF PolicySound
  <2>2. CASE r = x
    <3>1. j = k BY Zenon, <2>2, KindFacts
    <3>2. WorkOn(j, r)' = w BY Zenon, <1>2, <2>2, <3>1 DEF WorkOn
    <3> QED BY Zenon, <2>2, <3>2 DEF PointSound
  <2>3. CASE r # x
    <3>1. WorkOn(j, r)' = WorkOn(j, r)
      BY Zenon, <1>2, <2>3 DEF WorkOn
    <3>2. r \in Policies BY Zenon, KindFacts
    <3>3. /\ rules'[r] = rules[r] /\ meta'[r] = meta[r] /\ installed'[r] = installed[r]
      BY Zenon, <2>3, <3>2
    <3>4. TargetMeta(r)' = TargetMeta(r)
      BY Zenon, <3>3 DEF TargetMeta
    <3> QED BY Zenon, <2>1, <3>1, <3>3, <3>4 DEF PointSound
  <2> QED BY Zenon, <2>2, <2>3
<1>5. MemberSound'
  BY ZenonT(30), <1>1, <1>2 DEF MemberSound, NicSound
<1> QED BY Zenon, <1>3, <1>4, <1>5 DEF WriterInv, Shape

(* Such a step that leaves the memory and the epoch alone is quiet if the  *)
(* policy it writes had agreed with the memory.                            *)
LEMMA PolicyQuiet ==
    ASSUME NEW x \in Policies,
           \A r \in Policies \ {x} : rules'[r] = rules[r] /\ meta'[r] = meta[r],
           epoch' = epoch, installed' = installed, joined' = joined, members' = members,
           cpu' = cpu, ct' = ct,
           Nearly' => rules[x] \in {installed[x], None} /\ meta[x] = TargetMeta(x)
    PROVE  Quiet
<1>1. /\ \A r : TargetMeta(r)' = TargetMeta(r)
      /\ \A a : TargetGroups(a)' = TargetGroups(a)
  BY Zenon, VerdictFollowsMemory
<1>2. ASSUME Nearly' PROVE Nearly
  <2>1. ASSUME NEW r \in Policies PROVE rules[r] \in {installed[r], None} /\ meta[r] = TargetMeta(r)
    <3>1. CASE r = x BY Zenon, <1>2, <3>1
    <3>2. CASE r # x BY Zenon, <1>1, <1>2, <3>2 DEF Nearly
    <3> QED BY Zenon, <3>1, <3>2
  <2>2. \A a \in Addrs : members[a] = TargetGroups(a)
    BY Zenon, <1>1, <1>2 DEF Nearly
  <2> QED BY Zenon, <2>1, <2>2 DEF Nearly
<1> QED BY Zenon, <1>2 DEF Quiet

(* What is known of a policy whose worker is in a pass.                    *)
LEMMA ApplyingFacts ==
    ASSUME WriterInv, NEW k \in Kinds, worker[k].pc \in {"rules", "meta", "bump"}
    PROVE  LET w == worker[k]
           IN  /\ k \in PolicyKinds /\ Applying(w, k) /\ w.key \in KeysOf(k) /\ w.key \in Policies
               /\ w.rs # None /\ PointSound(w.key, w) /\ w # NoWork
<1>1. WorkShape /\ PolicySound BY Zenon DEF WriterInv, Shape
<1>2. k # "nic" /\ k \in PolicyKinds
  BY Zenon, <1>1, KindFacts, NoWorkIdle DEF WorkShape, NicWork, Entering, Leaving
<1>3. worker[k] # NoWork /\ Applying(worker[k], k)
  <2>1. worker[k] # NoWork BY Zenon, NoWorkIdle
  <2>2. PolicyWork(worker[k], k) BY Zenon, <1>1, <1>2 DEF WorkShape
  <2>3. ~Deleting(worker[k], k) BY Zenon DEF Deleting
  <2> QED BY Zenon, <2>1, <2>2, <2>3 DEF PolicyWork
<1>4. worker[k].key \in KeysOf(k) /\ worker[k].rs # None
  BY Zenon, <1>3 DEF Applying
<1>5. WorkOn(k, worker[k].key) = worker[k]
  BY Zenon, <1>3 DEF WorkOn
<1> QED BY <1>1, <1>2, <1>3, <1>4, <1>5, KindFacts DEF PolicySound

LEMMA DeletingFacts ==
    ASSUME WriterInv, NEW k \in Kinds, worker[k].pc \in {"delrules", "delmeta", "delbump"}
    PROVE  LET w == worker[k]
           IN  /\ k \in PolicyKinds /\ Deleting(w, k) /\ w.key \in KeysOf(k) /\ w.key \in Policies
               /\ PointSound(w.key, w) /\ w # NoWork
<1>1. WorkShape /\ PolicySound BY Zenon DEF WriterInv, Shape
<1>2. k # "nic" /\ k \in PolicyKinds
  BY Zenon, <1>1, KindFacts, NoWorkIdle DEF WorkShape, NicWork, Entering, Leaving
<1>3. worker[k] # NoWork /\ Deleting(worker[k], k)
  <2>1. worker[k] # NoWork BY Zenon, NoWorkIdle
  <2>2. PolicyWork(worker[k], k) BY Zenon, <1>1, <1>2 DEF WorkShape
  <2>3. ~Applying(worker[k], k) BY Zenon DEF Applying
  <2> QED BY Zenon, <2>1, <2>2, <2>3 DEF PolicyWork
<1>4. worker[k].key \in KeysOf(k)
  BY Zenon, <1>3 DEF Deleting
<1>5. WorkOn(k, worker[k].key) = worker[k]
  BY Zenon, <1>3 DEF WorkOn
<1> QED BY <1>1, <1>2, <1>3, <1>4, <1>5, KindFacts DEF PolicySound

(* The worker of a policy goes on to the next write of its pass.           *)
LEMMA ApplyingGoes ==
    ASSUME WriterInv, NEW k \in PolicyKinds, Applying(worker[k], k),
           NEW pc \in {"rules", "meta", "bump"}, Goto(k, pc)
    PROVE  LET w == [pc |-> pc, key |-> worker[k].key, rs |-> worker[k].rs]
           IN  worker' = [worker EXCEPT ![k] = w] /\ PolicyWork(w, k)
<1>1. worker[k] = [pc |-> worker[k].pc, key |-> worker[k].key, rs |-> worker[k].rs]
  BY Zenon DEF Applying
<1>2. [worker[k] EXCEPT !.pc = pc] = [pc |-> pc, key |-> worker[k].key, rs |-> worker[k].rs]
  BY <1>1
<1>3. worker' = [worker EXCEPT ![k] = [worker[k] EXCEPT !.pc = pc]]
  BY Zenon DEF Goto
<1> QED BY Zenon, <1>2, <1>3 DEF PolicyWork, Applying

LEMMA DeletingGoes ==
    ASSUME WriterInv, NEW k \in PolicyKinds, Deleting(worker[k], k),
           NEW pc \in {"delrules", "delmeta", "delbump"}, Goto(k, pc)
    PROVE  LET w == [pc |-> pc, key |-> worker[k].key]
           IN  worker' = [worker EXCEPT ![k] = w] /\ PolicyWork(w, k)
<1>1. worker[k] = [pc |-> worker[k].pc, key |-> worker[k].key]
  BY Zenon DEF Deleting
<1>2. [worker[k] EXCEPT !.pc = pc] = [pc |-> pc, key |-> worker[k].key]
  BY <1>1
<1>3. worker' = [worker EXCEPT ![k] = [worker[k] EXCEPT !.pc = pc]]
  BY Zenon DEF Goto
<1> QED BY Zenon, <1>2, <1>3 DEF PolicyWork, Deleting

(* A pass that fails before its writes have left the memory behind.        *)
LEMMA PolicyFails ==
    ASSUME WriterInv, NEW k \in PolicyKinds, NEW kind, Fail(k, kind),
           NEW x \in KeysOf(k), worker[k].key = x, PointSound(x, NoWork)
    PROVE  WriterInv' /\ Quiet
<1>1. /\ worker' = [worker EXCEPT ![k] = NoWork]
      /\ desired' = desired /\ queue' = queue /\ epoch' = epoch /\ ct' = ct /\ cpu' = cpu
      /\ UNCHANGED <<memory, tables>>
  BY Zenon DEF Fail, Finish
<1>2. /\ rules' = rules /\ meta' = meta /\ members' = members
      /\ installed' = installed /\ joined' = joined
  BY Zenon, <1>1 DEF memory, tables
<1>3. ApiShape' /\ StoreShape'
  BY Zenon, <1>1, <1>2 DEF WriterInv, Shape, ApiShape, StoreShape, Entry
<1>4. PointSound(x, NoWork)'
  BY Zenon, <1>2, NoWorkIdle DEF PointSound, TargetMeta
<1>5. PolicyWork(NoWork, k)
  BY Zenon DEF PolicyWork
<1>6. WriterInv'
  BY Zenon, <1>1, <1>2, <1>3, <1>4, <1>5, PolicyMoves
<1>7. Quiet
  BY Zenon, <1>1, <1>2, TablesStay DEF Quiet
<1> QED BY Zenon, <1>6, <1>7

LEMMA TakePolicySafe ==
    ASSUME WriterInv, NEW k \in Kinds, TakePolicy(k)
    PROVE  WriterInv' /\ Quiet
<1>0. PICK x : x = Head(queue[k])
  BY Zenon
<1>1. /\ k \in PolicyKinds /\ worker[k] = NoWork /\ queue[k] # <<>>
      /\ queue' = [queue EXCEPT ![k] = Tail(@)] /\ desired' = desired
      /\ installed' = installed /\ joined' = joined /\ rules' = rules /\ meta' = meta
      /\ members' = members /\ epoch' = epoch /\ ct' = ct /\ cpu' = cpu
  BY Zenon, KindFacts DEF TakePolicy, tables
<1>2. ApiShape /\ StoreShape /\ PolicySound
  BY Zenon DEF WriterInv, Shape
<1>3. queue[k] \in Seq(KeysOf(k)) /\ x \in KeysOf(k) /\ x \in Policies /\ Tail(queue[k]) \in Seq(KeysOf(k))
  BY <1>0, <1>1, <1>2, KindFacts DEF ApiShape
<1>4. ApiShape'
  BY Zenon, <1>1, <1>2, <1>3 DEF ApiShape
<1>5. StoreShape'
  BY Zenon, <1>1, <1>2 DEF StoreShape, Entry
<1>6. PointSound(x, NoWork)
  <2>1. WorkOn(k, x) = NoWork BY Zenon, <1>1 DEF WorkOn
  <2> QED BY Zenon, <1>1, <1>2, <1>3, <2>1 DEF PolicySound
<1>7. PICK w : /\ worker' = [worker EXCEPT ![k] = w] /\ PolicyWork(w, k)
               /\ w = NoWork \/ w.key = x
               /\ w.pc \in {"idle", "delrules", "rules"}
  <2>1. CASE desired[x] = None
    <3> DEFINE w == IF x \in snap THEN [pc |-> "delrules", key |-> x] ELSE NoWork
    <3>1. worker' = [worker EXCEPT ![k] = w] BY Zenon, <1>0, <2>1 DEF TakePolicy
    <3>2. PolicyWork(w, k) /\ (w = NoWork \/ w.key = x) /\ w.pc \in {"idle", "delrules"}
      BY Zenon, <1>3, NoWorkIdle DEF PolicyWork, Deleting
    <3> QED BY Zenon, <3>1, <3>2
  <2>2. CASE desired[x] # None
    <3> DEFINE w == [pc |-> "rules", key |-> x, rs |-> Expanded(x)]
    <3>1. worker' = [worker EXCEPT ![k] = w] BY Zenon, <1>0, <2>2 DEF TakePolicy
    <3>2. Expanded(x) # None
      <4>1. desired[x] \in Specs[x] BY Zenon, <1>2, <1>3, <2>2 DEF ApiShape
      <4>2. snap \cap Groups \in SUBSET Groups BY Zenon
      <4> QED BY Zenon, <1>3, <4>1, <4>2, ContentAssumption DEF Expanded
    <3>3. Applying(w, k) /\ w.key = x /\ w.pc = "rules"
      BY Zenon, <1>3, <3>2 DEF Applying
    <3> QED BY Zenon, <3>1, <3>3 DEF PolicyWork
  <2> QED BY Zenon, <2>1, <2>2
<1>8. PointSound(x, w)'
  BY Zenon, <1>1, <1>6, <1>7, NoWorkIdle DEF PointSound, TargetMeta
<1>9. WriterInv'
  BY Zenon, <1>1, <1>3, <1>4, <1>5, <1>7, <1>8, PolicyMoves
<1>10. Quiet
  BY Zenon, <1>1, VerdictFollowsMemory DEF Quiet, Nearly
<1> QED BY Zenon, <1>9, <1>10

(* The writes of a pass, up to the bump that ends it.                      *)
LEMMA SwapRulesSafe ==
    ASSUME WriterInv, NEW k \in Kinds, SwapRules(k)
    PROVE  WriterInv' /\ Quiet
<1>0. PICK x, rs : x = worker[k].key /\ rs = worker[k].rs
  BY Zenon
<1>1. /\ k \in PolicyKinds /\ Applying(worker[k], k) /\ x \in KeysOf(k) /\ x \in Policies
      /\ PointSound(x, worker[k]) /\ worker[k].pc = "rules"
  BY Zenon, <1>0, ApplyingFacts DEF SwapRules
<1>2. PointSound(x, NoWork)
  BY Zenon, <1>1, NoWorkIdle DEF PointSound
<1>3. CASE Fail(k, "rules")
  BY Zenon, <1>0, <1>1, <1>2, <1>3, PolicyFails
<1>4. CASE /\ rules' = [rules EXCEPT ![worker[k].key] = worker[k].rs]
           /\ Goto(k, "meta") /\ Silent /\ UNCHANGED <<memory, meta, members, epoch>>
  <2> DEFINE w == [pc |-> "meta", key |-> x, rs |-> rs]
  <2>1. /\ rules' = [rules EXCEPT ![x] = rs] /\ meta' = meta /\ members' = members
        /\ installed' = installed /\ joined' = joined /\ epoch' = epoch
        /\ desired' = desired /\ queue' = queue /\ ct' = ct /\ cpu' = cpu
    BY Zenon, <1>0, <1>4 DEF Silent, memory
  <2>2. worker' = [worker EXCEPT ![k] = w] /\ PolicyWork(w, k)
    BY Zenon, <1>0, <1>1, <1>4, ApplyingGoes
  <2>3. ApiShape' /\ StoreShape'
    BY Zenon, <2>1 DEF WriterInv, Shape, ApiShape, StoreShape, Entry
  <2>4. rules'[x] = rs /\ \A r \in Policies \ {x} : rules'[r] = rules[r]
    BY Zenon, <1>1, <2>1 DEF WriterInv, Shape, StoreShape
  <2>5. meta[x] = TargetMeta(x) /\ rules[x] \in {installed[x], None}
    BY Zenon, <1>1 DEF PointSound
  <2>6. w.pc = "meta" /\ w.key = x /\ w.rs = rs
    BY Zenon
  <2> HIDE DEF w
  <2>7. PointSound(x, w)'
    BY Zenon, <2>1, <2>4, <2>5, <2>6, VerdictFollowsMemory DEF PointSound
  <2>8. WriterInv'
    BY Zenon, <1>0, <1>1, <2>1, <2>2, <2>3, <2>4, <2>6, <2>7, PolicyMoves
  <2>9. Quiet
    BY Zenon, <1>1, <2>1, <2>4, <2>5, PolicyQuiet
  <2> QED BY Zenon, <2>8, <2>9
<1> QED BY Zenon, <1>3, <1>4 DEF SwapRules

LEMMA WriteMetaSafe ==
    ASSUME Bumping, WriterInv, NEW k \in Kinds, WriteMeta(k)
    PROVE  WriterInv' /\ Quiet
<1>0. PICK x, rs : x = worker[k].key /\ rs = worker[k].rs
  BY Zenon
<1>1. /\ k \in PolicyKinds /\ Applying(worker[k], k) /\ x \in KeysOf(k) /\ x \in Policies
      /\ PointSound(x, worker[k]) /\ worker[k].pc = "meta" /\ rs # None
  BY Zenon, <1>0, ApplyingFacts DEF WriteMeta
<1> DEFINE w == [pc |-> "bump", key |-> x, rs |-> rs]
<1>2. /\ meta' = [meta EXCEPT ![x] = MetaOf(rs)] /\ rules' = rules /\ members' = members
      /\ installed' = installed /\ joined' = joined /\ epoch' = epoch
      /\ desired' = desired /\ queue' = queue /\ ct' = ct /\ cpu' = cpu /\ Goto(k, "bump")
  BY Zenon, <1>0 DEF WriteMeta, Bumping, memory
<1>3. worker' = [worker EXCEPT ![k] = w] /\ PolicyWork(w, k)
  BY Zenon, <1>0, <1>1, <1>2, ApplyingGoes
<1>4. ApiShape' /\ StoreShape'
  BY Zenon, <1>2 DEF WriterInv, Shape, ApiShape, StoreShape, Entry
<1>5. meta'[x] = MetaOf(rs) /\ \A r \in Policies \ {x} : meta'[r] = meta[r]
  BY Zenon, <1>1, <1>2 DEF WriterInv, Shape, StoreShape
<1>6. meta[x] = TargetMeta(x) /\ rules[x] = rs
  BY Zenon, <1>0, <1>1 DEF PointSound
<1>7. w.pc = "bump" /\ w.key = x /\ w.rs = rs
  BY Zenon
<1> HIDE DEF w
<1>8. PointSound(x, w)'
  BY Zenon, <1>2, <1>5, <1>6, <1>7 DEF PointSound
<1>9. WriterInv'
  BY Zenon, <1>0, <1>1, <1>2, <1>3, <1>4, <1>5, <1>7, <1>8, PolicyMoves
<1>10. Nearly' => rules[x] \in {installed[x], None}
  BY Zenon, <1>1, <1>2 DEF Nearly
<1>11. Quiet
  BY Zenon, <1>1, <1>2, <1>5, <1>6, <1>10, PolicyQuiet
<1> QED BY Zenon, <1>9, <1>11

(* The bump is left out only for the content that was there before.        *)
LEMMA ApplyDoneSafe ==
    ASSUME Bumping, WriterInv, NEW k \in Kinds, ApplyDone(k)
    PROVE  WriterInv' /\ (Quiet \/ Loud)
<1>0. PICK x, rs : x = worker[k].key /\ rs = worker[k].rs
  BY Zenon
<1>1. /\ k \in PolicyKinds /\ x \in KeysOf(k) /\ x \in Policies
      /\ PointSound(x, worker[k]) /\ worker[k].pc = "bump" /\ rs # None
  BY Zenon, <1>0, ApplyingFacts DEF ApplyDone
<1>2. ~Fail(k, "bump")
  BY Zenon DEF Fail, Bumping
<1>3. /\ worker' = [worker EXCEPT ![k] = NoWork] /\ installed' = [installed EXCEPT ![x] = rs]
      /\ epoch' = (IF installed[x] = rs THEN epoch ELSE epoch + 1)
      /\ rules' = rules /\ meta' = meta /\ members' = members /\ joined' = joined
      /\ desired' = desired /\ queue' = queue /\ ct' = ct /\ cpu' = cpu
  BY Zenon, <1>0, <1>2 DEF ApplyDone, Finish, Bump, Silent, tables
<1>4. StoreShape BY Zenon DEF WriterInv, Shape
<1>5. /\ installed' = [r \in Policies |-> installed'[r]] /\ installed'[x] = rs
      /\ \A r \in Policies \ {x} : installed'[r] = installed[r]
  BY Zenon, <1>1, <1>3, <1>4 DEF StoreShape
<1>6. StoreShape'
  BY <1>3, <1>4, <1>5 DEF StoreShape, Entry
<1>7. ApiShape'
  BY Zenon, <1>3 DEF WriterInv, Shape, ApiShape
<1>8. rules[x] = rs /\ meta[x] = MetaOf(rs)
  BY Zenon, <1>0, <1>1 DEF PointSound
<1>9. PointSound(x, NoWork)'
  BY Zenon, <1>1, <1>3, <1>5, <1>8, NoWorkIdle DEF PointSound, TargetMeta
<1>10. PolicyWork(NoWork, k)
  BY Zenon DEF PolicyWork
<1>11. WriterInv'
  BY Zenon, <1>0, <1>1, <1>3, <1>5, <1>6, <1>7, <1>9, <1>10, PolicyMoves
<1>12. CASE installed[x] = rs
  <2>1. installed' = installed /\ epoch' = epoch
    BY Zenon, <1>1, <1>3, <1>4, <1>12 DEF StoreShape
  <2>2. Nearly' <=> Nearly
    BY Zenon, <1>3, <2>1, VerdictFollowsMemory DEF Nearly
  <2> QED BY Zenon, <1>3, <1>11, <2>1, <2>2 DEF Quiet
<1>13. CASE installed[x] # rs
  BY Zenon, <1>3, <1>11, <1>13 DEF Loud
<1> QED BY Zenon, <1>12, <1>13

LEMMA DeleteRulesSafe ==
    ASSUME WriterInv, NEW k \in Kinds, DeleteRules(k)
    PROVE  WriterInv' /\ Quiet
<1>0. PICK x : x = worker[k].key
  BY Zenon
<1>1. /\ k \in PolicyKinds /\ Deleting(worker[k], k) /\ x \in KeysOf(k) /\ x \in Policies
      /\ PointSound(x, worker[k]) /\ worker[k].pc = "delrules"
  BY Zenon, <1>0, DeletingFacts DEF DeleteRules
<1>2. PointSound(x, NoWork)
  BY Zenon, <1>1, NoWorkIdle DEF PointSound
<1>3. CASE Fail(k, "delete")
  BY Zenon, <1>0, <1>1, <1>2, <1>3, PolicyFails
<1>4. CASE /\ rules' = [rules EXCEPT ![worker[k].key] = None]
           /\ Goto(k, "delmeta") /\ Silent /\ UNCHANGED <<memory, meta, members, epoch>>
  <2> DEFINE w == [pc |-> "delmeta", key |-> x]
  <2>1. /\ rules' = [rules EXCEPT ![x] = None] /\ meta' = meta /\ members' = members
        /\ installed' = installed /\ joined' = joined /\ epoch' = epoch
        /\ desired' = desired /\ queue' = queue /\ ct' = ct /\ cpu' = cpu
    BY Zenon, <1>0, <1>4 DEF Silent, memory
  <2>2. worker' = [worker EXCEPT ![k] = w] /\ PolicyWork(w, k)
    BY Zenon, <1>0, <1>1, <1>4, DeletingGoes
  <2>3. ApiShape' /\ StoreShape'
    BY Zenon, <2>1 DEF WriterInv, Shape, ApiShape, StoreShape, Entry
  <2>4. rules'[x] = None /\ \A r \in Policies \ {x} : rules'[r] = rules[r]
    BY Zenon, <1>1, <2>1 DEF WriterInv, Shape, StoreShape
  <2>5. meta[x] = TargetMeta(x) /\ rules[x] \in {installed[x], None}
    BY Zenon, <1>1 DEF PointSound
  <2>6. w.pc = "delmeta" /\ w.key = x
    BY Zenon
  <2> HIDE DEF w
  <2>7. PointSound(x, w)'
    BY Zenon, <2>1, <2>4, <2>5, <2>6, VerdictFollowsMemory DEF PointSound
  <2>8. WriterInv'
    BY Zenon, <1>0, <1>1, <2>1, <2>2, <2>3, <2>4, <2>6, <2>7, PolicyMoves
  <2>9. Quiet
    BY Zenon, <1>1, <2>1, <2>4, <2>5, PolicyQuiet
  <2> QED BY Zenon, <2>8, <2>9
<1> QED BY Zenon, <1>3, <1>4 DEF DeleteRules

LEMMA DeleteMetaSafe ==
    ASSUME WriterInv, NEW k \in Kinds, DeleteMeta(k)
    PROVE  WriterInv' /\ Quiet
<1>0. PICK x : x = worker[k].key
  BY Zenon
<1>1. /\ k \in PolicyKinds /\ Deleting(worker[k], k) /\ x \in KeysOf(k) /\ x \in Policies
      /\ PointSound(x, worker[k]) /\ worker[k].pc = "delmeta"
  BY Zenon, <1>0, DeletingFacts DEF DeleteMeta
<1>2. PointSound(x, NoWork)
  BY Zenon, <1>1, NoWorkIdle DEF PointSound
<1>3. CASE Fail(k, "delete")
  BY Zenon, <1>0, <1>1, <1>2, <1>3, PolicyFails
<1>4. CASE /\ meta' = [meta EXCEPT ![worker[k].key] = None]
           /\ Goto(k, "delbump") /\ Silent /\ UNCHANGED <<memory, rules, members, epoch>>
  <2> DEFINE w == [pc |-> "delbump", key |-> x]
  <2>1. /\ meta' = [meta EXCEPT ![x] = None] /\ rules' = rules /\ members' = members
        /\ installed' = installed /\ joined' = joined /\ epoch' = epoch
        /\ desired' = desired /\ queue' = queue /\ ct' = ct /\ cpu' = cpu
    BY Zenon, <1>0, <1>4 DEF Silent, memory
  <2>2. worker' = [worker EXCEPT ![k] = w] /\ PolicyWork(w, k)
    BY Zenon, <1>0, <1>1, <1>4, DeletingGoes
  <2>3. ApiShape' /\ StoreShape'
    BY Zenon, <2>1 DEF WriterInv, Shape, ApiShape, StoreShape, Entry
  <2>4. meta'[x] = None /\ \A r \in Policies \ {x} : meta'[r] = meta[r]
    BY Zenon, <1>1, <2>1 DEF WriterInv, Shape, StoreShape
  <2>5. meta[x] = TargetMeta(x) /\ rules[x] = None
    BY Zenon, <1>1 DEF PointSound
  <2>6. w.pc = "delbump" /\ w.key = x
    BY Zenon
  <2> HIDE DEF w
  <2>7. PointSound(x, w)'
    BY Zenon, <2>1, <2>4, <2>5, <2>6 DEF PointSound
  <2>8. WriterInv'
    BY Zenon, <1>0, <1>1, <2>1, <2>2, <2>3, <2>4, <2>6, <2>7, PolicyMoves
  <2>9. Quiet
    BY Zenon, <1>1, <2>1, <2>4, <2>5, PolicyQuiet
  <2> QED BY Zenon, <2>8, <2>9
<1> QED BY Zenon, <1>3, <1>4 DEF DeleteMeta

LEMMA DeleteDoneSafe ==
    ASSUME Bumping, WriterInv, NEW k \in Kinds, DeleteDone(k)
    PROVE  WriterInv' /\ Loud
<1>0. PICK x : x = worker[k].key
  BY Zenon
<1>1. /\ k \in PolicyKinds /\ x \in KeysOf(k) /\ x \in Policies
      /\ PointSound(x, worker[k]) /\ worker[k].pc = "delbump"
  BY Zenon, <1>0, DeletingFacts DEF DeleteDone
<1>2. ~Fail(k, "bump")
  BY Zenon DEF Fail, Bumping
<1>3. /\ worker' = [worker EXCEPT ![k] = NoWork] /\ installed' = [installed EXCEPT ![x] = None]
      /\ epoch' = epoch + 1
      /\ rules' = rules /\ meta' = meta /\ members' = members /\ joined' = joined
      /\ desired' = desired /\ queue' = queue /\ ct' = ct /\ cpu' = cpu
  BY Zenon, <1>0, <1>2 DEF DeleteDone, Finish, Bump, Silent, tables
<1>4. StoreShape BY Zenon DEF WriterInv, Shape
<1>5. /\ installed' = [r \in Policies |-> installed'[r]] /\ installed'[x] = None
      /\ \A r \in Policies \ {x} : installed'[r] = installed[r]
  BY Zenon, <1>1, <1>3, <1>4 DEF StoreShape
<1>6. StoreShape'
  BY <1>3, <1>4, <1>5 DEF StoreShape, Entry
<1>7. ApiShape'
  BY Zenon, <1>3 DEF WriterInv, Shape, ApiShape
<1>8. rules[x] = None /\ meta[x] = None
  BY Zenon, <1>1 DEF PointSound
<1>9. PointSound(x, NoWork)'
  BY Zenon, <1>1, <1>3, <1>5, <1>8, NoWorkIdle DEF PointSound, TargetMeta
<1>10. PolicyWork(NoWork, k)
  BY Zenon DEF PolicyWork
<1>11. WriterInv'
  BY Zenon, <1>0, <1>1, <1>3, <1>5, <1>6, <1>7, <1>9, <1>10, PolicyMoves
<1> QED BY Zenon, <1>3, <1>11 DEF Loud

(* A step of the interfaces' worker.                                       *)
LEMMA NicMoves ==
    ASSUME WriterInv, NEW w, worker' = [worker EXCEPT !["nic"] = w], NicWork(w)', NicSound(w)',
           rules' = rules, meta' = meta, installed' = installed, ApiShape', StoreShape'
    PROVE  WriterInv'
<1>1. WorkShape /\ PolicySound BY Zenon DEF WriterInv, Shape
<1>2. DOMAIN worker' = Kinds /\ worker'["nic"] = w /\ \A k \in PolicyKinds : worker'[k] = worker[k]
  BY Zenon, <1>1, KindFacts DEF WorkShape
<1>3. WorkShape'
  <2>1. NicWork(worker["nic"])'
    BY Zenon, <1>2 DEF NicWork, Entering, Leaving, Entry
  <2>2. \A k \in PolicyKinds : PolicyWork(worker[k], k)'
    BY Zenon, <1>1, <1>2 DEF WorkShape, PolicyWork, Applying, Deleting
  <2> QED BY Zenon, <1>2, <2>1, <2>2 DEF WorkShape
<1>4. PolicySound'
  <2> SUFFICES ASSUME NEW k \in PolicyKinds, NEW r \in KeysOf(k) PROVE PointSound(r, WorkOn(k, r))'
    BY Zenon DEF PolicySound
  <2>1. PointSound(r, WorkOn(k, r)) BY Zenon, <1>1 DEF PolicySound
  <2>2. WorkOn(k, r)' = WorkOn(k, r) BY Zenon, <1>2 DEF WorkOn
  <2>3. TargetMeta(r)' = TargetMeta(r) BY Zenon DEF TargetMeta
  <2> QED BY Zenon, <2>1, <2>2, <2>3 DEF PointSound
<1>5. MemberSound'
  BY Zenon, <1>2 DEF MemberSound, NicSound
<1> QED BY Zenon, <1>3, <1>4, <1>5 DEF WriterInv, Shape

LEMMA TargetOf ==
    ASSUME WriterInv, NEW o \in Nics, joined[o] # None
    PROVE  /\ TargetGroups(joined[o].addr) = joined[o].groups
           /\ joined[o].addr \in Addrs /\ joined[o].groups # <<>>
<1>1. Entry(joined[o])
  BY Zenon DEF WriterInv, Shape, StoreShape
<1>2. PICK a : a = joined[o].addr
  BY Zenon
<1> DEFINE q == CHOOSE y \in Nics : joined[y] # None /\ joined[y].addr = a
<1>3. q \in Nics /\ joined[q] # None /\ joined[q].addr = a
  BY Zenon, <1>2
<1>4. TargetGroups(a) = joined[q].groups
  BY Zenon, <1>2 DEF TargetGroups
<1> HIDE DEF q
<1>5. q = o
  BY Zenon, <1>2, <1>3 DEF WriterInv, MemberSound, NicSound
<1> QED BY Zenon, <1>1, <1>2, <1>4, <1>5 DEF Entry

LEMMA MemberQuiet ==
    ASSUME NEW a \in Addrs, \A b \in Addrs \ {a} : members'[b] = members[b],
           rules' = rules, meta' = meta, epoch' = epoch, installed' = installed, joined' = joined,
           cpu' = cpu, ct' = ct, Nearly' => members[a] = TargetGroups(a)
    PROVE  Quiet
<1>1. /\ \A r : TargetMeta(r)' = TargetMeta(r)
      /\ \A b : TargetGroups(b)' = TargetGroups(b)
  BY Zenon, VerdictFollowsMemory
<1>2. ASSUME Nearly' PROVE Nearly
  <2>1. \A r \in Policies : rules[r] \in {installed[r], None} /\ meta[r] = TargetMeta(r)
    BY Zenon, <1>1, <1>2 DEF Nearly
  <2>2. \A b \in Addrs : members[b] = TargetGroups(b)
    BY Zenon, <1>1, <1>2 DEF Nearly
  <2> QED BY Zenon, <2>1, <2>2 DEF Nearly
<1> QED BY Zenon, <1>2 DEF Quiet

LEMMA TrimmedFacts ==
    ASSUME NEW gs \in Seq(Groups), gs # <<>>
    PROVE  Trimmed(gs) \in Seq(Groups) /\ Trimmed(gs) # <<>>
<1>1. Len(gs) \in Nat /\ Len(gs) >= 1
  OBVIOUS
<1>2. PICK n \in 1 .. Len(gs) : Trimmed(gs) = SubSeq(gs, 1, n)
  BY <1>1 DEF Trimmed, MaxSGsPerNIC
<1>3. SubSeq(gs, 1, n) \in Seq(Groups) /\ Len(SubSeq(gs, 1, n)) = n
  BY <1>1, <1>2
<1> QED BY <1>2, <1>3

LEMMA EnteringFacts ==
    ASSUME WriterInv, worker["nic"].pc \in {"write", "clean", "joinbump"}
    PROVE  Entering(worker["nic"]) /\ NicSound(worker["nic"])
<1>1. worker["nic"] # NoWork /\ ~Leaving(worker["nic"])
  BY Zenon, NoWorkIdle DEF Leaving
<1> QED BY Zenon, <1>1 DEF WriterInv, Shape, WorkShape, NicWork, MemberSound

LEMMA LeavingFacts ==
    ASSUME WriterInv, worker["nic"].pc \in {"leave", "leavebump"}
    PROVE  Leaving(worker["nic"]) /\ NicSound(worker["nic"])
<1>1. worker["nic"] # NoWork /\ ~Entering(worker["nic"])
  BY Zenon, NoWorkIdle DEF Entering
<1> QED BY Zenon, <1>1 DEF WriterInv, Shape, WorkShape, NicWork, MemberSound

LEMMA NicFails ==
    ASSUME WriterInv, NEW kind, Fail("nic", kind), NicSound(NoWork)
    PROVE  WriterInv' /\ Quiet
<1>1. /\ worker' = [worker EXCEPT !["nic"] = NoWork]
      /\ desired' = desired /\ queue' = queue /\ epoch' = epoch /\ ct' = ct /\ cpu' = cpu
      /\ UNCHANGED <<memory, tables>>
  BY Zenon DEF Fail, Finish
<1>2. /\ rules' = rules /\ meta' = meta /\ members' = members
      /\ installed' = installed /\ joined' = joined
  BY Zenon, <1>1 DEF memory, tables
<1>3. ApiShape' /\ StoreShape'
  BY Zenon, <1>1, <1>2 DEF WriterInv, Shape, ApiShape, StoreShape, Entry
<1>4. NicSound(NoWork)' /\ NicWork(NoWork)'
  BY Zenon, <1>2 DEF NicSound, NicWork
<1>5. WriterInv'
  BY Zenon, <1>1, <1>2, <1>3, <1>4, NicMoves
<1>6. Quiet
  BY Zenon, <1>1, <1>2, TablesStay DEF Quiet
<1> QED BY Zenon, <1>5, <1>6

LEMMA TakeNicSafe ==
    ASSUME WriterInv, TakeNic
    PROVE  WriterInv' /\ Quiet
<1>0. PICK o : o = Head(queue["nic"])
  BY Zenon
<1>1. /\ worker["nic"] = NoWork /\ queue["nic"] # <<>>
      /\ queue' = [queue EXCEPT !["nic"] = Tail(@)] /\ desired' = desired
      /\ UNCHANGED <<memory, tables>> /\ epoch' = epoch /\ ct' = ct /\ cpu' = cpu
  BY Zenon DEF TakeNic
<1>2. /\ rules' = rules /\ meta' = meta /\ members' = members
      /\ installed' = installed /\ joined' = joined
  BY Zenon, <1>1 DEF memory, tables
<1>3. ApiShape /\ StoreShape /\ NicSound(NoWork)
  BY Zenon, <1>1 DEF WriterInv, Shape, MemberSound
<1>4. "nic" \in Kinds /\ queue["nic"] \in Seq(Nics)
  BY Zenon, <1>3, KindFacts DEF ApiShape
<1>5. o \in Nics /\ Tail(queue["nic"]) \in Seq(Nics)
  BY <1>0, <1>1, <1>4
<1>6. ApiShape'
  BY Zenon, <1>1, <1>3, <1>4, <1>5, KindFacts DEF ApiShape
<1>7. StoreShape'
  BY Zenon, <1>1, <1>2, <1>3 DEF StoreShape, Entry
<1>8. PICK w : /\ worker' = [worker EXCEPT !["nic"] = w] /\ NicWork(w)
               /\ w.pc \in {"idle", "write", "leave"}
  <2> DEFINE gone == desired[o] = None \/ desired[o].groups = <<>>
             e == [addr |-> desired[o].addr, groups |-> Trimmed(desired[o].groups)]
  <2>1. CASE ~gone
    <3>1. desired[o] \in Joins[o] BY Zenon, <1>3, <1>5, <2>1 DEF ApiShape
    <3>2. /\ desired[o].addr \in Addrs /\ desired[o].groups \in Seq(Groups) /\ e # None
      BY Zenon, <1>5, <3>1, PolicyAssumption, ContentAssumption
    <3>3. Entry(e)
      BY Zenon, <2>1, <3>2, TrimmedFacts DEF Entry
    <3>4. worker' = [worker EXCEPT !["nic"] = [pc |-> "write", key |-> o, entry |-> e]]
      BY Zenon, <1>0, <2>1 DEF TakeNic
    <3> HIDE DEF e
    <3>5. Entering([pc |-> "write", key |-> o, entry |-> e])
      BY Zenon, <1>5, <3>3 DEF Entering
    <3> DEFINE v == [pc |-> "write", key |-> o, entry |-> e]
    <3>6. NicWork(v) /\ v.pc = "write" BY Zenon, <3>5 DEF NicWork
    <3> HIDE DEF v
    <3> QED BY Zenon, <3>4, <3>6 DEF v
  <2>2. CASE gone /\ joined[o] = None
    <3>1. worker' = [worker EXCEPT !["nic"] = NoWork] BY Zenon, <1>0, <2>2 DEF TakeNic
    <3>2. NicWork(NoWork) /\ NoWork.pc = "idle" BY Zenon, NoWorkIdle DEF NicWork
    <3> QED BY Zenon, <3>1, <3>2
  <2>3. CASE gone /\ joined[o] # None
    <3>1. worker' = [worker EXCEPT !["nic"] = [pc |-> "leave", key |-> o]] BY Zenon, <1>0, <2>3 DEF TakeNic
    <3> DEFINE v == [pc |-> "leave", key |-> o]
    <3>2. Leaving(v) BY Zenon, <1>5, <2>3 DEF Leaving
    <3>3. NicWork(v) /\ v.pc = "leave" BY Zenon, <3>2 DEF NicWork
    <3> HIDE DEF v
    <3> QED BY Zenon, <3>1, <3>3 DEF v
  <2> QED BY Zenon, <2>1, <2>2, <2>3
<1>9. NicWork(w)'
  BY Zenon, <1>2, <1>8 DEF NicWork, Entering, Leaving, Entry
<1>10. NicSound(w)'
  BY Zenon, <1>2, <1>3, <1>8, NoWorkIdle DEF NicSound
<1>11. WriterInv'
  BY Zenon, <1>2, <1>6, <1>7, <1>8, <1>9, <1>10, NicMoves
<1>12. Quiet
  BY Zenon, <1>1, <1>2, TablesStay DEF Quiet
<1> QED BY Zenon, <1>11, <1>12

LEMMA EnteringGoes ==
    ASSUME Entering(worker["nic"]), NEW pc \in {"write", "clean", "joinbump"}, Goto("nic", pc)
    PROVE  LET w == [pc |-> pc, key |-> worker["nic"].key, entry |-> worker["nic"].entry]
           IN  worker' = [worker EXCEPT !["nic"] = w] /\ Entering(w)
<1> DEFINE v == worker["nic"]
<1>1. v = [pc |-> v.pc, key |-> v.key, entry |-> v.entry]
  BY Zenon DEF Entering
<1>2. [v EXCEPT !.pc = pc] = [pc |-> pc, key |-> v.key, entry |-> v.entry]
  BY <1>1
<1>3. worker' = [worker EXCEPT !["nic"] = [v EXCEPT !.pc = pc]]
  BY Zenon DEF Goto
<1> QED BY Zenon, <1>2, <1>3 DEF Entering

(* The entry of an interface is written: only its own former entry can     *)
(* have been there.                                                        *)
LEMMA WriteMemberSafe ==
    ASSUME InTurn, WriterInv, WriteMember
    PROVE  WriterInv' /\ Quiet
<1>0. PICK o, e : o = worker["nic"].key /\ e = worker["nic"].entry
  BY Zenon
<1>1. /\ Entering(worker["nic"]) /\ NicSound(worker["nic"]) /\ worker["nic"].pc = "write"
  BY Zenon, EnteringFacts DEF WriteMember
<1>2. /\ o \in Nics /\ Entry(e) /\ e.addr \in Addrs /\ e.groups \in Seq(Groups) /\ e.groups # <<>>
  BY Zenon, <1>0, <1>1 DEF Entering, Entry
<1>3. \A q \in Nics \ {o} : joined[q] = None \/ joined[q].addr # e.addr
  BY Zenon, <1>0, <1>1 DEF InTurn
<1>4. NicSound(NoWork)
  BY Zenon, <1>1, NoWorkIdle DEF NicSound
<1>5. CASE Fail("nic", "member")
  BY Zenon, <1>4, <1>5, NicFails
<1>6. CASE /\ members' = [members EXCEPT ![e.addr] = e.groups]
           /\ Goto("nic", "clean") /\ Silent /\ UNCHANGED <<memory, rules, meta, epoch>>
  <2> DEFINE w == [pc |-> "clean", key |-> o, entry |-> e]
  <2>1. /\ rules' = rules /\ meta' = meta /\ installed' = installed /\ joined' = joined
        /\ epoch' = epoch /\ desired' = desired /\ queue' = queue /\ ct' = ct /\ cpu' = cpu
    BY Zenon, <1>6 DEF Silent, memory
  <2>2. worker' = [worker EXCEPT !["nic"] = w] /\ Entering(w)
    BY Zenon, <1>0, <1>1, <1>6, EnteringGoes
  <2>3. members \in [Addrs -> Seq(Groups)]
    BY Zenon DEF WriterInv, Shape, StoreShape
  <2>4. /\ members' \in [Addrs -> Seq(Groups)] /\ members'[e.addr] = e.groups
        /\ \A b \in Addrs \ {e.addr} : members'[b] = members[b]
    BY Zenon, <1>2, <1>6, <2>3
  <2>5. ApiShape' /\ StoreShape'
    BY Zenon, <2>1, <2>4 DEF WriterInv, Shape, ApiShape, StoreShape, Entry
  <2>6. w.pc = "clean" /\ w.key = o /\ w.entry = e
    BY Zenon
  <2> HIDE DEF w
  <2>7. NicWork(w)'
    BY Zenon, <2>2 DEF NicWork, Entering, Entry
  <2>8. NicSound(w)'
    <3>1. \A q \in Nics : joined[q] # None => joined[q].addr \in Addrs
      BY Zenon, TargetOf
    <3>2. \A q \in Nics \ {o} : joined[q] # None => members'[joined[q].addr] = joined[q].groups
      BY Zenon, <1>3, <1>4, <2>4, <3>1, NoWorkIdle DEF NicSound
    <3> QED BY Zenon, <1>1, <1>3, <2>1, <2>4, <2>6, <3>2 DEF NicSound
  <2>9. WriterInv'
    BY Zenon, <2>1, <2>2, <2>5, <2>7, <2>8, NicMoves
  <2>10. ASSUME Nearly' PROVE members[e.addr] = TargetGroups(e.addr)
    <3>1. TargetGroups(e.addr) = e.groups
      BY Zenon, <1>2, <2>1, <2>4, <2>10, VerdictFollowsMemory DEF Nearly
    <3>2. PICK q \in Nics : joined[q] # None /\ joined[q].addr = e.addr
      BY Zenon, <1>2, <3>1 DEF TargetGroups
    <3>3. TargetGroups(e.addr) = joined[q].groups
      BY Zenon, <3>2, TargetOf
    <3>4. members[e.addr] = joined[q].groups
      BY Zenon, <1>4, <3>2, NoWorkIdle DEF NicSound
    <3> QED BY Zenon, <3>3, <3>4
  <2>11. Quiet
    BY Zenon, <1>2, <2>1, <2>4, <2>10, MemberQuiet
  <2> QED BY Zenon, <2>9, <2>11
<1> QED BY Zenon, <1>0, <1>5, <1>6 DEF WriteMember

LEMMA CleanMemberSafe ==
    ASSUME WriterInv, CleanMember
    PROVE  WriterInv' /\ Quiet
<1>0. PICK o, e, old : o = worker["nic"].key /\ e = worker["nic"].entry /\ old = joined[o]
  BY Zenon
<1>1. /\ Entering(worker["nic"]) /\ NicSound(worker["nic"]) /\ worker["nic"].pc = "clean"
  BY Zenon, EnteringFacts DEF CleanMember
<1>2. o \in Nics /\ Entry(e) /\ e.addr \in Addrs
  BY Zenon, <1>0, <1>1 DEF Entering, Entry
<1>3. /\ rules' = rules /\ meta' = meta /\ installed' = installed /\ joined' = joined
      /\ epoch' = epoch /\ desired' = desired /\ queue' = queue /\ ct' = ct /\ cpu' = cpu
  BY Zenon DEF CleanMember, memory
<1>4. old # None =>
         old.addr \in Addrs /\ TargetGroups(old.addr) = old.groups /\ old.groups # <<>>
  BY Zenon, <1>0, <1>2, TargetOf
<1>5. /\ members \in [Addrs -> Seq(Groups)] /\ <<>> \in Seq(Groups)
  BY DEF WriterInv, Shape, StoreShape
<1>6. \/ members' = members
      \/ /\ old # None /\ old.addr # e.addr
         /\ members' = [members EXCEPT ![old.addr] = <<>>]
  BY Zenon, <1>0 DEF CleanMember
<1>7. /\ members' \in [Addrs -> Seq(Groups)]
      /\ \A b \in Addrs : \/ members'[b] = members[b]
                          \/ old # None /\ b = old.addr /\ b # e.addr /\ members'[b] = <<>>
  BY Zenon, <1>4, <1>5, <1>6
<1>8. ApiShape' /\ StoreShape'
  BY Zenon, <1>3, <1>7 DEF WriterInv, Shape, ApiShape, StoreShape, Entry
<1>9. /\ members'[e.addr] = e.groups
      /\ \A q \in Nics \ {o} : joined[q] # None => members'[joined[q].addr] = joined[q].groups
  <2>1. \A q \in Nics \ {o} : joined[q] # None =>
           /\ members[joined[q].addr] = joined[q].groups /\ joined[q].addr \in Addrs
           /\ old # None => joined[q].addr # old.addr
    BY Zenon, <1>0, <1>1, <1>2, TargetOf DEF NicSound
  <2>2. members[e.addr] = e.groups
    BY Zenon, <1>0, <1>1 DEF NicSound
  <2> QED BY Zenon, <1>2, <1>7, <2>1, <2>2
<1>10. CASE old = e
  <2>1. worker' = [worker EXCEPT !["nic"] = NoWork]
    BY Zenon, <1>0, <1>10 DEF CleanMember, Finish
  <2>2. NicSound(NoWork)' /\ NicWork(NoWork)'
    BY Zenon, <1>0, <1>1, <1>3, <1>9, <1>10, NoWorkIdle DEF NicSound, NicWork
  <2>3. WriterInv'
    BY Zenon, <1>3, <1>8, <2>1, <2>2, NicMoves
  <2>4. members' = members
    BY Zenon, <1>6, <1>10
  <2>5. Quiet
    BY Zenon, <1>3, <2>4, VerdictFollowsMemory DEF Quiet, Nearly
  <2> QED BY Zenon, <2>3, <2>5
<1>11. CASE old # e
  <2> DEFINE w == [pc |-> "joinbump", key |-> o, entry |-> e]
  <2>1. worker' = [worker EXCEPT !["nic"] = w] /\ Entering(w)
    <3>1. Goto("nic", "joinbump") BY Zenon, <1>0, <1>11 DEF CleanMember
    <3> QED BY Zenon, <1>0, <1>1, <3>1, EnteringGoes
  <2>2. w.pc = "joinbump" /\ w.key = o /\ w.entry = e
    BY Zenon
  <2> HIDE DEF w
  <2>3. NicWork(w)'
    BY Zenon, <2>1 DEF NicWork, Entering, Entry
  <2>4. NicSound(w)'
    BY Zenon, <1>0, <1>1, <1>3, <1>9, <2>2 DEF NicSound
  <2>5. WriterInv'
    BY Zenon, <1>3, <1>8, <2>1, <2>3, <2>4, NicMoves
  <2>6. CASE members' = members
    <3>1. Quiet BY Zenon, <1>3, <2>6, VerdictFollowsMemory DEF Quiet, Nearly
    <3> QED BY Zenon, <2>5, <3>1
  <2>7. CASE old # None /\ members' = [members EXCEPT ![old.addr] = <<>>]
    <3>1. ASSUME Nearly' PROVE FALSE
      <4>1. members'[old.addr] = <<>> BY Zenon, <1>4, <1>5, <2>7
      <4>2. TargetGroups(old.addr)' = TargetGroups(old.addr) BY Zenon, <1>3, VerdictFollowsMemory
      <4> QED BY Zenon, <1>4, <2>7, <3>1, <4>1, <4>2 DEF Nearly
    <3>2. Quiet BY Zenon, <1>3, <3>1 DEF Quiet
    <3> QED BY Zenon, <2>5, <3>2
  <2> QED BY Zenon, <1>6, <2>6, <2>7
<1> QED BY Zenon, <1>10, <1>11

LEMMA JoinDoneSafe ==
    ASSUME Bumping, WriterInv, JoinDone
    PROVE  WriterInv' /\ Loud
<1>0. PICK o, e : o = worker["nic"].key /\ e = worker["nic"].entry
  BY Zenon
<1>1. /\ Entering(worker["nic"]) /\ NicSound(worker["nic"]) /\ worker["nic"].pc = "joinbump"
  BY Zenon, EnteringFacts DEF JoinDone
<1>2. o \in Nics /\ Entry(e)
  BY Zenon, <1>0, <1>1 DEF Entering
<1>3. ~Fail("nic", "bump")
  BY Zenon DEF Fail, Bumping
<1>4. /\ worker' = [worker EXCEPT !["nic"] = NoWork] /\ joined' = [joined EXCEPT ![o] = e]
      /\ epoch' = epoch + 1
      /\ rules' = rules /\ meta' = meta /\ members' = members /\ installed' = installed
      /\ desired' = desired /\ queue' = queue /\ ct' = ct /\ cpu' = cpu
  BY Zenon, <1>0, <1>3 DEF JoinDone, Finish, Bump, Silent, tables
<1>5. StoreShape BY Zenon DEF WriterInv, Shape
<1>6. DOMAIN joined' = Nics /\ joined'[o] = e /\ \A q \in Nics \ {o} : joined'[q] = joined[q]
  BY Zenon, <1>2, <1>4, <1>5 DEF StoreShape
<1>7. StoreShape'
  BY <1>2, <1>4, <1>5, <1>6 DEF StoreShape, Entry
<1>8. ApiShape'
  BY Zenon, <1>4 DEF WriterInv, Shape, ApiShape
<1>9. NicSound(NoWork)'
  <2>1. /\ members[e.addr] = e.groups
        /\ \A q \in Nics \ {o} : joined[q] = None \/ joined[q].addr # e.addr
    BY Zenon, <1>0, <1>1 DEF NicSound
  <2>2. ASSUME NEW p \in Nics, NEW q \in Nics, p # q, joined'[p] # None, joined'[q] # None
        PROVE  joined'[p].addr # joined'[q].addr
    BY <1>1, <1>6, <2>1, <2>2 DEF NicSound
  <2>3. ASSUME NEW q \in Nics, joined'[q] # None
        PROVE  members'[joined'[q].addr] = joined'[q].groups
    BY Zenon, <1>0, <1>1, <1>4, <1>6, <2>1, <2>3 DEF NicSound
  <2> QED BY Zenon, <2>2, <2>3, NoWorkIdle DEF NicSound
<1>10. NicWork(NoWork)'
  BY Zenon DEF NicWork
<1>11. WriterInv'
  BY Zenon, <1>4, <1>7, <1>8, <1>9, <1>10, NicMoves
<1> QED BY Zenon, <1>4, <1>11 DEF Loud

LEMMA DeleteMemberSafe ==
    ASSUME WriterInv, DeleteMember
    PROVE  WriterInv' /\ Quiet
<1>0. PICK o, old : o = worker["nic"].key /\ old = joined[o]
  BY Zenon
<1>1. /\ Leaving(worker["nic"]) /\ NicSound(worker["nic"]) /\ worker["nic"].pc = "leave"
  BY Zenon, LeavingFacts DEF DeleteMember
<1>2. o \in Nics /\ old # None
  BY Zenon, <1>0, <1>1 DEF Leaving
<1>3. old.addr \in Addrs /\ TargetGroups(old.addr) = old.groups /\ old.groups # <<>>
  BY Zenon, <1>0, <1>2, TargetOf
<1>4. NicSound(NoWork)
  BY Zenon, <1>1, NoWorkIdle DEF NicSound
<1>5. CASE Fail("nic", "member")
  BY Zenon, <1>4, <1>5, NicFails
<1>6. CASE /\ members' = [members EXCEPT ![old.addr] = <<>>]
           /\ Goto("nic", "leavebump") /\ Silent /\ UNCHANGED <<memory, rules, meta, epoch>>
  <2> DEFINE w == [pc |-> "leavebump", key |-> o]
  <2>1. /\ rules' = rules /\ meta' = meta /\ installed' = installed /\ joined' = joined
        /\ epoch' = epoch /\ desired' = desired /\ queue' = queue /\ ct' = ct /\ cpu' = cpu
    BY Zenon, <1>6 DEF Silent, memory
  <2>2. worker' = [worker EXCEPT !["nic"] = w]
    <3>1. worker["nic"] = [pc |-> worker["nic"].pc, key |-> o] BY Zenon, <1>0, <1>1 DEF Leaving
    <3>2. [worker["nic"] EXCEPT !.pc = "leavebump"] = w BY <3>1
    <3>3. worker' = [worker EXCEPT !["nic"] = [worker["nic"] EXCEPT !.pc = "leavebump"]]
      BY Zenon, <1>6 DEF Goto
    <3> QED BY Zenon, <3>2, <3>3
  <2>3. members \in [Addrs -> Seq(Groups)] /\ <<>> \in Seq(Groups)
    BY DEF WriterInv, Shape, StoreShape
  <2>4. /\ members' \in [Addrs -> Seq(Groups)] /\ members'[old.addr] = <<>>
        /\ \A b \in Addrs \ {old.addr} : members'[b] = members[b]
    BY Zenon, <1>3, <1>6, <2>3
  <2>5. ApiShape' /\ StoreShape'
    BY Zenon, <2>1, <2>4 DEF WriterInv, Shape, ApiShape, StoreShape, Entry
  <2>6. Leaving(w)' /\ w.pc = "leavebump" /\ w.key = o
    BY Zenon, <1>0, <1>2, <2>1 DEF Leaving
  <2> HIDE DEF w
  <2>7. NicWork(w)'
    BY Zenon, <2>6 DEF NicWork
  <2>8. NicSound(w)'
    <3>1. \A q \in Nics \ {o} : joined[q] # None =>
             /\ joined[q].addr \in Addrs /\ joined[q].addr # old.addr
             /\ members[joined[q].addr] = joined[q].groups
      BY Zenon, <1>0, <1>2, <1>4, TargetOf, NoWorkIdle DEF NicSound
    <3> QED BY Zenon, <1>4, <2>1, <2>4, <2>6, <3>1 DEF NicSound
  <2>9. WriterInv'
    BY Zenon, <2>1, <2>2, <2>5, <2>7, <2>8, NicMoves
  <2>10. ASSUME Nearly' PROVE FALSE
    <3>1. TargetGroups(old.addr)' = TargetGroups(old.addr) BY Zenon, <2>1, VerdictFollowsMemory
    <3> QED BY Zenon, <1>3, <2>4, <2>10, <3>1 DEF Nearly
  <2>11. Quiet
    BY Zenon, <2>1, <2>10 DEF Quiet
  <2> QED BY Zenon, <2>9, <2>11
<1> QED BY Zenon, <1>0, <1>5, <1>6 DEF DeleteMember

LEMMA LeaveDoneSafe ==
    ASSUME Bumping, WriterInv, LeaveDone
    PROVE  WriterInv' /\ Loud
<1>0. PICK o : o = worker["nic"].key
  BY Zenon
<1>1. /\ Leaving(worker["nic"]) /\ NicSound(worker["nic"]) /\ worker["nic"].pc = "leavebump"
  BY Zenon, LeavingFacts DEF LeaveDone
<1>2. o \in Nics
  BY Zenon, <1>0, <1>1 DEF Leaving
<1>3. ~Fail("nic", "bump")
  BY Zenon DEF Fail, Bumping
<1>4. /\ worker' = [worker EXCEPT !["nic"] = NoWork] /\ joined' = [joined EXCEPT ![o] = None]
      /\ epoch' = epoch + 1
      /\ rules' = rules /\ meta' = meta /\ members' = members /\ installed' = installed
      /\ desired' = desired /\ queue' = queue /\ ct' = ct /\ cpu' = cpu
  BY Zenon, <1>0, <1>3 DEF LeaveDone, Finish, Bump, Silent, tables
<1>5. StoreShape BY Zenon DEF WriterInv, Shape
<1>6. DOMAIN joined' = Nics /\ joined'[o] = None /\ \A q \in Nics \ {o} : joined'[q] = joined[q]
  BY Zenon, <1>2, <1>4, <1>5 DEF StoreShape
<1>7. StoreShape'
  BY <1>4, <1>5, <1>6 DEF StoreShape, Entry
<1>8. ApiShape'
  BY Zenon, <1>4 DEF WriterInv, Shape, ApiShape
<1>9. NicSound(NoWork)'
  <2>2. ASSUME NEW p \in Nics, NEW q \in Nics, p # q, joined'[p] # None, joined'[q] # None
        PROVE  joined'[p].addr # joined'[q].addr
    BY <1>1, <1>6, <2>2 DEF NicSound
  <2>3. ASSUME NEW q \in Nics, joined'[q] # None
        PROVE  members'[joined'[q].addr] = joined'[q].groups
    BY Zenon, <1>0, <1>1, <1>4, <1>6, <2>3 DEF NicSound
  <2> QED BY Zenon, <2>2, <2>3, NoWorkIdle DEF NicSound
<1>10. NicWork(NoWork)'
  BY Zenon DEF NicWork
<1>11. WriterInv'
  BY Zenon, <1>4, <1>7, <1>8, <1>9, <1>10, NicMoves
<1> QED BY Zenon, <1>4, <1>11 DEF Loud

(***************************************************************************)
(* Events of the API and the garbage collector.                            *)
(***************************************************************************)
LEMMA PolicySoundStays ==
    ASSUME PolicySound, UNCHANGED <<rules, meta, worker, installed>>
    PROVE  PolicySound'
<1> SUFFICES ASSUME NEW k \in PolicyKinds, NEW r \in KeysOf(k)
             PROVE  PointSound(r, WorkOn(k, r))'
  BY Zenon DEF PolicySound
<1>1. PointSound(r, WorkOn(k, r))
  BY Zenon DEF PolicySound
<1>2. WorkOn(k, r)' = WorkOn(k, r)
  BY Zenon DEF WorkOn
<1>3. TargetMeta(r)' = TargetMeta(r)
  BY Zenon DEF TargetMeta
<1> QED BY Zenon, <1>1, <1>2, <1>3 DEF PointSound

LEMMA ApiMoves ==
    ASSUME WriterInv, ApiShape', UNCHANGED <<worker, memory, tables, epoch, ct, cpu>>
    PROVE  WriterInv' /\ Quiet
<1>1. /\ rules' = rules /\ meta' = meta /\ members' = members /\ worker' = worker
      /\ installed' = installed /\ joined' = joined /\ epoch' = epoch /\ ct' = ct /\ cpu' = cpu
  BY Zenon DEF memory, tables
<1>2. WorkShape'
  BY Zenon, <1>1 DEF WriterInv, Shape, WorkShape, PolicyWork, Applying, Deleting, NicWork, Entering,
              Leaving, Entry
<1>3. StoreShape'
  BY Zenon, <1>1 DEF WriterInv, Shape, StoreShape, Entry
<1>4. PolicySound'
  BY Zenon, <1>1, PolicySoundStays DEF WriterInv
<1>5. MemberSound'
  BY Zenon, <1>1 DEF WriterInv, MemberSound, NicSound
<1>6. Quiet
  BY Zenon, <1>1, TablesStay DEF Quiet
<1> QED BY Zenon, <1>2, <1>3, <1>4, <1>5, <1>6 DEF WriterInv, Shape

LEMMA AddedSafe ==
    ASSUME ApiShape, NEW x \in Policies \cup Nics, desired' = desired,
           queue' = [queue EXCEPT ![KindOf(x)] = Added(@, x)]
    PROVE  ApiShape'
<1>1. KindOf(x) \in Kinds /\ x \in KeysOf(KindOf(x))
  BY Zenon, KindFacts
<1>2. PICK k : k = KindOf(x) BY Zenon
<1>3. queue[k] \in Seq(KeysOf(k)) /\ DOMAIN queue = Kinds
  BY Zenon, <1>1, <1>2 DEF ApiShape
<1>4. Added(queue[k], x) \in Seq(KeysOf(k))
  BY <1>1, <1>2, <1>3 DEF Added
<1>5. DOMAIN queue' = Kinds /\ \A j \in Kinds : queue'[j] = IF j = k THEN Added(queue[k], x) ELSE queue[j]
  BY Zenon, <1>1, <1>2, <1>3
<1> HIDE DEF Added
<1> QED BY Zenon, <1>1, <1>2, <1>3, <1>4, <1>5 DEF ApiShape

(* An event enqueues keys of its own kind.                                 *)
LEMMA EnqueuedSafe ==
    ASSUME ApiShape, NEW x \in Policies \cup Nics, queue' \in Enqueued(x)
    PROVE  DOMAIN queue' = Kinds /\ \A k \in Kinds : queue'[k] \in Seq(KeysOf(k))
<1>1. KindOf(x) \in Kinds /\ x \in KeysOf(KindOf(x))
  BY Zenon, KindFacts
<1>2. PICK k : k = KindOf(x) BY Zenon
<1>3. queue[k] \in Seq(KeysOf(k)) /\ DOMAIN queue = Kinds
  BY Zenon, <1>1, <1>2 DEF ApiShape
<1>4. PICK s \in Seq(KeysOf(k)) : queue' = [queue EXCEPT ![k] = s]
  <2>1. CASE x \notin Groups
    <3>1. queue' = [queue EXCEPT ![k] = Added(queue[k], x)]
      BY Zenon, <1>2, <2>1 DEF Enqueued
    <3>2. Added(queue[k], x) \in Seq(KeysOf(k))
      BY <1>1, <1>2, <1>3 DEF Added
    <3> QED BY Zenon, <3>1, <3>2
  <2>2. CASE x \in Groups
    <3>1. KeysOf(k) = Groups
      <4>1. x \notin Acls /\ x \notin Nics
        BY Zenon, <2>2, PolicyAssumption
      <4> QED BY Zenon, <1>1, <1>2, <2>2, <4>1, KindFacts DEF PolicyKinds
    <3> DEFINE m == Groups \ RangeOf(queue[KindOf(x)])
               orders == {t \in [1 .. Cardinality(m) -> m] : RangeOf(t) = m}
    <3>2. PICK s \in {queue[KindOf(x)] \o t : t \in orders} :
             queue' = [queue EXCEPT ![KindOf(x)] = s]
      BY Zenon, <2>2 DEF Enqueued
    <3>3. queue' = [queue EXCEPT ![k] = s] BY Zenon, <1>2, <3>2
    <3>4. PICK t \in [1 .. Cardinality(m) -> m] : s = queue[k] \o t BY Zenon, <1>2, <3>2
    <3>5. Cardinality(m) \in Nat BY Zenon, PolicyAssumption
    <3>6. m \subseteq Groups BY Zenon
    <3> HIDE DEF m
    <3>7. t \in Seq(KeysOf(k)) BY <3>1, <3>4, <3>5, <3>6
    <3>8. queue[k] \o t \in Seq(KeysOf(k)) BY <1>3, <3>7
    <3> QED BY Zenon, <3>3, <3>4, <3>8
  <2> QED BY Zenon, <2>1, <2>2
<1>5. DOMAIN queue' = Kinds /\ \A j \in Kinds : queue'[j] = IF j = k THEN s ELSE queue[j]
  BY Zenon, <1>1, <1>2, <1>3, <1>4
<1> QED BY Zenon, <1>4, <1>5 DEF ApiShape

LEMMA EventSafe ==
    ASSUME WriterInv, NEW x \in Policies \cup Nics, Edit(x) \/ Resync(x) \/ Requeue(x)
    PROVE  WriterInv' /\ Quiet
<1>0. ApiShape BY Zenon DEF WriterInv, Shape
<1>1. UNCHANGED <<worker, memory, tables, epoch, ct, cpu>>
  BY Zenon DEF Edit, Resync, Requeue
<1>2. CASE Edit(x)
  <2>1. DOMAIN queue' = Kinds /\ \A k \in Kinds : queue'[k] \in Seq(KeysOf(k))
    BY Zenon, <1>0, <1>2, EnqueuedSafe DEF Edit
  <2>2. PICK v \in {None} \cup (IF x \in Nics THEN Joins[x] ELSE Specs[x]) :
           desired' = [desired EXCEPT ![x] = v]
    BY Zenon, <1>2 DEF Edit
  <2>3. x \in Policies => x \notin Nics
    BY Zenon, PolicyAssumption DEF Policies
  <2>4. /\ DOMAIN desired' = Policies \cup Nics /\ desired'[x] = v
        /\ \A y \in (Policies \cup Nics) \ {x} : desired'[y] = desired[y]
    BY Zenon, <1>0, <2>2 DEF ApiShape
  <2>5. \A r \in Policies : desired'[r] \in Specs[r] \cup {None}
    BY Zenon, <1>0, <2>2, <2>3, <2>4 DEF ApiShape
  <2>6. \A o \in Nics : desired'[o] \in Joins[o] \cup {None}
    BY Zenon, <1>0, <2>2, <2>3, <2>4 DEF ApiShape
  <2>7. ApiShape'
    BY Zenon, <2>1, <2>4, <2>5, <2>6 DEF ApiShape
  <2> QED BY Zenon, <1>1, <2>7, ApiMoves
<1>3. CASE Resync(x)
  <2>1. ApiShape' BY Zenon, <1>0, <1>3, AddedSafe DEF Resync
  <2> QED BY Zenon, <1>1, <2>1, ApiMoves
<1>4. CASE Requeue(x)
  <2>1. ApiShape' BY Zenon, <1>0, <1>4, AddedSafe DEF Requeue
  <2> QED BY Zenon, <1>1, <2>1, ApiMoves
<1> QED BY Zenon, <1>2, <1>3, <1>4

(* A step that leaves alone all that the writers have to do with.          *)
LEMMA WritersRest ==
    ASSUME WriterInv, UNCHANGED <<api, worker, memory, tables, epoch>>
    PROVE  WriterInv' /\ (Nearly' <=> Nearly) /\ installed' = installed /\ joined' = joined
<1>1. /\ rules' = rules /\ meta' = meta /\ members' = members /\ worker' = worker
      /\ installed' = installed /\ joined' = joined /\ epoch' = epoch
      /\ desired' = desired /\ queue' = queue
  BY Zenon DEF memory, tables, api
<1>2. WorkShape'
  BY Zenon, <1>1 DEF WriterInv, Shape, WorkShape, PolicyWork, Applying, Deleting, NicWork, Entering,
              Leaving, Entry
<1>3. StoreShape' /\ ApiShape'
  BY Zenon, <1>1 DEF WriterInv, Shape, StoreShape, ApiShape, Entry
<1>4. PolicySound'
  BY Zenon, <1>1, PolicySoundStays DEF WriterInv
<1>5. MemberSound'
  BY Zenon, <1>1 DEF WriterInv, MemberSound, NicSound
<1>6. Nearly' <=> Nearly
  BY Zenon, TablesStay
<1> QED BY Zenon, <1>1, <1>2, <1>3, <1>4, <1>5, <1>6 DEF WriterInv, Shape

(* The garbage collector only removes entries.                             *)
LEMMA SweepSafe ==
    ASSUME PInv, (\E k \in DOMAIN ct : Expire(k)) \/ GcStep \/ GcAbort
    PROVE  PInv'
<1>1. UNCHANGED <<api, worker, memory, tables, epoch, cpu>>
  BY Zenon DEF Expire, GcStep, GcSnapshot, GcPlan, GcRecheck, GcRemove, GcAbort, Apart
<1>2. DOMAIN ct' \subseteq DOMAIN ct
  <2>1. ASSUME NEW k \in DOMAIN ct, Expire(k) PROVE DOMAIN ct' \subseteq DOMAIN ct
    BY Zenon, <2>1 DEF Expire
  <2>2. GcStep \/ GcAbort => DOMAIN ct' \subseteq DOMAIN ct
    BY Zenon DEF GcStep, GcSnapshot, GcPlan, GcRecheck, GcRemove, GcAbort
  <2> QED BY Zenon, <2>1, <2>2
<1>3. WriterInv' /\ (Nearly' <=> Nearly) /\ installed' = installed /\ joined' = joined
  BY Zenon, <1>1, WritersRest DEF PInv
<1>4. PacketInv'
  BY Zenon, <1>1, <1>2, <1>3, SameEpoch DEF PInv
<1> QED BY Zenon, <1>3, <1>4 DEF PInv

(***************************************************************************)
(* The theorem.                                                            *)
(***************************************************************************)
LEMMA PInvStep ==
    ASSUME Bumping, PInv, InTurn, [Next]_vars
    PROVE  PInv'
<1>0. WriterInv BY Zenon DEF PInv
<1>1. CASE \E x \in Policies \cup Nics : Edit(x) \/ Resync(x) \/ Requeue(x)
  BY Zenon, <1>0, <1>1, EventSafe, PromisesKept DEF PInv
<1>2. ASSUME NEW k \in Kinds, WorkerStep(k) PROVE PInv'
  <2>1. WriterInv' /\ (Quiet \/ Loud)
    BY Zenon, <1>0, <1>2, TakePolicySafe, SwapRulesSafe, WriteMetaSafe, ApplyDoneSafe, DeleteRulesSafe,
       DeleteMetaSafe, DeleteDoneSafe DEF WorkerStep
  <2> QED BY Zenon, <2>1, PromisesKept DEF PInv
<1>3. CASE NicStep
  <2>1. WriterInv' /\ (Quiet \/ Loud)
    BY Zenon, <1>0, <1>3, TakeNicSafe, WriteMemberSafe, CleanMemberSafe, JoinDoneSafe, DeleteMemberSafe,
       LeaveDoneSafe DEF NicStep
  <2> QED BY Zenon, <2>1, PromisesKept DEF PInv
<1>4. ASSUME NEW c \in Cpus, (\E h \in Hooks, p \in Packets : Arrive(c, h, p)) \/ PacketStep(c)
      PROVE  PInv'
  <2>1. Held
    BY Zenon, <1>4 DEF Arrive, PacketStep, Lookup, CloseSelf, AclMeta, AclRules, Members, SgMeta, SgRules,
                InstallReverse, InstallForward
  <2>2. WriterInv'
    BY Zenon, <1>0, <2>1, WritersRest DEF Held
  <2>3. PacketInv'
    BY Zenon, <1>4, ArriveSafe, PacketSafe
  <2> QED BY Zenon, <2>2, <2>3 DEF PInv
<1>5. CASE (\E k \in DOMAIN ct : Expire(k)) \/ GcStep \/ GcAbort
  BY Zenon, <1>5, SweepSafe
<1>6. CASE UNCHANGED vars
  <2>1. UNCHANGED <<api, worker, memory, tables, epoch>> /\ cpu' = cpu /\ ct' = ct
    BY Zenon, <1>6 DEF vars
  <2>2. epoch' = epoch /\ DOMAIN ct' \subseteq DOMAIN ct BY Zenon, <2>1
  <2>3. WriterInv' /\ (Nearly' <=> Nearly) /\ installed' = installed /\ joined' = joined
    BY Zenon, <1>0, <2>1, WritersRest
  <2>4. PacketInv'
    BY Zenon, <2>1, <2>2, <2>3, SameEpoch DEF PInv
  <2> QED BY Zenon, <2>3, <2>4 DEF PInv
<1> QED BY Zenon, <1>1, <1>2, <1>3, <1>4, <1>5, <1>6 DEF Next

LEMMA PInvInit == Init => PInv
<1> SUFFICES ASSUME Init PROVE PInv
  BY Zenon
<1>1. ApiShape
  <2>1. DOMAIN desired = Policies \cup Nics
    BY Zenon DEF Init
  <2>2. /\ \A r \in Policies : desired[r] \in Specs[r] \cup {None}
        /\ \A o \in Nics : desired[o] \in Joins[o] \cup {None}
    BY Zenon DEF Init
  <2>3. DOMAIN queue = Kinds /\ \A k \in Kinds : queue[k] = <<>>
    BY Zenon DEF Init
  <2>4. \A k \in Kinds : <<>> \in Seq(KeysOf(k))
    OBVIOUS
  <2> QED BY Zenon, <2>1, <2>2, <2>3, <2>4 DEF ApiShape
<1>2. DOMAIN worker = Kinds /\ \A k \in Kinds : worker[k] = NoWork
  BY Zenon DEF Init
<1>3. WorkShape
  BY Zenon, <1>2, KindFacts DEF WorkShape, PolicyWork, NicWork
<1>4. \A r \in Policies : installed[r] = None <=> r \notin Founded
  <2>1. ASSUME NEW r \in Policies, r \in Founded PROVE installed[r] # None
    <3>1. desired[r] \in Specs[r] BY Zenon, <2>1 DEF Init
    <3>2. Groups \cap Founded \in SUBSET Groups BY Zenon
    <3>3. installed[r] = ExpandedWith(r, desired[r], Groups \cap Founded) BY Zenon, <2>1 DEF Init
    <3> QED BY Zenon, <3>1, <3>2, <3>3, ContentAssumption
  <2>2. ASSUME NEW r \in Policies, r \notin Founded PROVE installed[r] = None
    BY Zenon, <2>2 DEF Init
  <2> QED BY Zenon, <2>1, <2>2
<1>5. /\ DOMAIN joined = Nics
      /\ \A o \in Nics : joined[o] # None =>
            Entry(joined[o]) /\ o \in Founded /\ joined[o].addr = desired[o].addr
  <2>1. DOMAIN joined = Nics BY Zenon DEF Init
  <2>2. ASSUME NEW o \in Nics, joined[o] # None
        PROVE  Entry(joined[o]) /\ o \in Founded /\ joined[o].addr = desired[o].addr
    <3>1. o \in Founded /\ desired[o].groups # <<>>
          /\ joined[o] = [addr |-> desired[o].addr, groups |-> Trimmed(desired[o].groups)]
      BY Zenon, <2>2 DEF Init
    <3>2. desired[o] \in Joins[o] BY Zenon, <3>1 DEF Init
    <3>3. desired[o].addr \in Addrs /\ desired[o].groups \in Seq(Groups)
      BY Zenon, <3>2, PolicyAssumption
    <3>4. Trimmed(desired[o].groups) \in Seq(Groups) /\ Trimmed(desired[o].groups) # <<>>
      BY Zenon, <3>1, <3>3, TrimmedFacts
    <3> QED BY <2>2, <3>1, <3>3, <3>4 DEF Entry
  <2> QED BY Zenon, <2>1, <2>2
<1>6. \A o, q \in Nics : o # q /\ joined[o] # None /\ joined[q] # None =>
         joined[o].addr # joined[q].addr
  BY Zenon, <1>5 DEF Init
<1> DEFINE on(a) == {o \in Nics : joined[o] # None /\ joined[o].addr = a}
<1>7. \A a \in Addrs : /\ on(a) = {} => members[a] = <<>>
                       /\ on(a) # {} => \E o \in on(a) : members[a] = joined[o].groups
  BY Zenon DEF Init
<1>8. members \in [Addrs -> Seq(Groups)]
  <2> DEFINE m(a) == IF on(a) = {} THEN <<>> ELSE joined[CHOOSE o \in on(a) : TRUE].groups
  <2>1. members = [a \in Addrs |-> m(a)] BY Zenon DEF Init
  <2>2. ASSUME NEW a \in Addrs PROVE members[a] \in Seq(Groups)
    <3>0. <<>> \in Seq(Groups) OBVIOUS
    <3>1. CASE on(a) = {}
      <4>1. members[a] = <<>> BY Zenon, <1>7, <3>1
      <4> QED BY Zenon, <3>0, <4>1
    <3>2. CASE on(a) # {}
      <4>1. PICK o \in on(a) : members[a] = joined[o].groups BY Zenon, <1>7, <3>2
      <4> QED BY Zenon, <1>5, <4>1 DEF Entry
    <3> QED BY Zenon, <3>1, <3>2
  <2> HIDE DEF m
  <2> QED BY Zenon, <2>1, <2>2
<1>9. epoch \in Nat
  <2>1. Cardinality(Founded) \in Nat BY Zenon, PolicyAssumption
  <2>2. epoch = 1 + Cardinality(Founded) BY Zenon DEF Init
  <2> QED BY <2>1, <2>2
<1>10. StoreShape
  <2>1. installed = [r \in Policies |-> installed[r]] BY Zenon DEF Init
  <2>2. DOMAIN rules = Policies /\ DOMAIN meta = Policies BY Zenon DEF Init
  <2> QED BY Zenon, <1>5, <1>8, <1>9, <2>1, <2>2 DEF StoreShape
<1>11. PolicySound
  <2> SUFFICES ASSUME NEW k \in PolicyKinds, NEW r \in KeysOf(k) PROVE PointSound(r, WorkOn(k, r))
    BY Zenon DEF PolicySound
  <2>1. WorkOn(k, r) = NoWork BY Zenon, <1>2, KindFacts DEF WorkOn
  <2>2. r \in Policies BY Zenon, KindFacts
  <2>3. rules[r] = installed[r] /\ meta[r] = TargetMeta(r)
    BY Zenon, <1>4, <2>2 DEF Init, TargetMeta
  <2> QED BY Zenon, <2>1, <2>3, NoWorkIdle DEF PointSound
<1>12. NicSound(NoWork)
  <2>1. ASSUME NEW o \in Nics, joined[o] # None PROVE members[joined[o].addr] = joined[o].groups
    <3>1. joined[o].addr \in Addrs /\ o \in on(joined[o].addr) BY Zenon, <1>5, <2>1 DEF Entry
    <3>2. PICK q \in on(joined[o].addr) : members[joined[o].addr] = joined[q].groups
      BY Zenon, <1>7, <3>1
    <3> QED BY Zenon, <1>6, <2>1, <3>2
  <2> QED BY Zenon, <1>6, <2>1, NoWorkIdle DEF NicSound
<1>13. MemberSound
  BY Zenon, <1>2, <1>12, KindFacts DEF MemberSound
<1>14. PacketInv
  <2>1. DOMAIN cpu = Cpus /\ \A c \in Cpus : cpu[c] = NoPacket BY Zenon DEF Init
  <2>2. ct = <<>> BY Zenon DEF Init
  <2>3. DOMAIN ct = {} BY <2>2
  <2> QED BY Zenon, <2>1, <2>3 DEF PacketInv
<1> QED BY Zenon, <1>1, <1>3, <1>10, <1>11, <1>13, <1>14 DEF PInv, WriterInv, Shape


(* Where the tables are those of the memory, what apply_policy would       *)
(* decide now is the verdict by the memory.                                *)
LEMMA PublishedVerdict ==
    ASSUME PInv, Published, NEW h \in Hooks, NEW p \in Packets, Granted(h, p)
    PROVE  AdmitsNow(h, p)
<1> DEFINE a == AclOf[SelfOf(h, p)]
           s == SelfOf(h, p)
           e == PeerOf(h, p)
<1>1. s \in Local /\ AclGrants(h, p) /\ GroupsGrant(h, p)
  BY Zenon DEF Granted
<1>2. s \in Addrs /\ e \in Addrs /\ (a # None => a \in Policies)
  <2>1. p.src \in Addrs /\ p.dst \in Addrs BY Zenon, PolicyAssumption
  <2>2. AclOf[s] \in Acls \cup {None} BY Zenon, <1>1, PolicyAssumption
  <2> QED BY Zenon, <2>1, <2>2 DEF SelfOf, PeerOf, Policies
<1>3. \A r \in Policies : rules[r] = installed[r] /\ meta[r] = TargetMeta(r)
  BY Zenon DEF Published, TargetMeta
<1>4. members[s] = TargetGroups(s) /\ members[e] = TargetGroups(e)
  BY Zenon, <1>2 DEF Published, TargetGroups
<1>5. a # None => acl_evaluate(meta[a], rules[a], h, p) # "deny"
  BY Zenon, <1>1, <1>2, <1>3 DEF AclGrants
<1>6. \A g \in RangeOf(members[s]) : rules[g] = installed[g] /\ meta[g] = TargetMeta(g)
  <2>1. members[s] \in Seq(Groups) BY Zenon, <1>2 DEF PInv, WriterInv, Shape, StoreShape
  <2> QED BY Zenon, <1>3, <2>1, RangeFacts
<1>7. {g \in RangeOf(members[s]) : sg_declared(meta[g], h)} = Declaring(h, p)
  BY Zenon, <1>4, <1>6 DEF Declaring
<1>8. \A g \in Declaring(h, p) :
         GroupGrants(g, h, p) <=> sg_eval_one_sg(meta[g], rules[g], h, p, RangeOf(members[e]))
  BY Zenon, <1>4, <1>6, <1>7 DEF GroupGrants
<1> QED BY Zenon, <1>1, <1>4, <1>5, <1>7, <1>8 DEF AdmitsNow, GroupsGrant

LEMMA PInvAdmits == PInv => AdmittedByCurrentRules
<1> SUFFICES ASSUME PInv, Published, NEW k \in DOMAIN ct, k.epoch = epoch
             PROVE  \/ SelfOf(k.hook, k.pkt) \in Local /\ AdmitsNow(k.hook, k.pkt)
                    \/ LET r == policy_ct_reverse_key(k)
                       IN  SelfOf(r.hook, r.pkt) \in Local /\ AdmitsNow(r.hook, r.pkt)
  BY Zenon DEF AdmittedByCurrentRules
<1>1. Nearly
  BY Zenon DEF Published, Nearly, TargetMeta, TargetGroups
<1>2. Key(k) /\ HalfGranted(k)
  BY Zenon, <1>1 DEF PInv, PacketInv, KeyOK
<1>3. PICK r : r = policy_ct_reverse_key(k)
  BY Zenon
<1>4. Key(r)
  BY Zenon, <1>2, <1>3, ReverseKey
<1>5. Granted(k.hook, k.pkt) \/ Granted(r.hook, r.pkt)
  BY Zenon, <1>2, <1>3 DEF HalfGranted
<1>6. CASE Granted(k.hook, k.pkt)
  <2>1. AdmitsNow(k.hook, k.pkt) BY Zenon, <1>2, <1>6, PublishedVerdict DEF Key
  <2> QED BY Zenon, <1>6, <2>1 DEF Granted
<1>7. CASE Granted(r.hook, r.pkt)
  <2>1. AdmitsNow(r.hook, r.pkt) BY Zenon, <1>4, <1>7, PublishedVerdict DEF Key
  <2> QED BY Zenon, <1>3, <1>7, <2>1 DEF Granted
<1> QED BY Zenon, <1>5, <1>6, <1>7

(* Whenever every change has been published, each conntrack entry of the   *)
(* current epoch is half of an admission that the rules in force would     *)
(* grant again (policy.Epoch, invalidator, MembershipStore, apply_policy), *)
(* for any number of CPUs, packets, policies and interfaces, with failing  *)
(* rule, delete and membership writes, provided that bumps and meta writes *)
(* succeed and that no interface's entry is written over another's.        *)
THEOREM AdmittedAlways ==
    ASSUME Bumping
    PROVE  Spec /\ []InTurn => []AdmittedByCurrentRules
<1>1. Init => PInv
  BY Zenon, PInvInit
<1>2. PInv /\ InTurn /\ [Next]_vars => PInv'
  BY Zenon, PInvStep
<1>3. PInv => AdmittedByCurrentRules
  BY Zenon, PInvAdmits
<1> QED BY <1>1, <1>2, <1>3, PTL DEF Spec
=============================================================================
