----------------------- MODULE AllocationSafetyProofs -----------------------
(***************************************************************************)
(* UniqueValues and ReservedForKey of Allocation, and that Allocation      *)
(* implements Allocator, for any sets of claims, leases and pools, under   *)
(* two facts about the deployment: the claim controller has one worker,    *)
(* and the caches lag only where no two claims share a lease name.         *)
(***************************************************************************)
EXTENDS AllocationTypeProofs

(* The claim controller runs one Reconcile call at a time.                 *)
OneWorker == \A w, x \in Workers : w = x

(* At most one claim uses the lease name.                                  *)
Sole(k) == \A c, d \in Claims : LeaseNameFor[c] = k /\ LeaseNameFor[d] = k => c = d

SoleOrCaught == Lagging => \A k \in Leases : Sole(k)

-----------------------------------------------------------------------------
(* The inductive invariant.                                                *)

(* A copy that is current is a copy of the object.                         *)
Coherent ==
    /\ \A c \in Claims : "cache" \in claimRv[c] => claimCache[c] = claims[c]
    /\ \A k \in Leases : leaseRv[k] => leaseCache[k] = leases[k]

(* Values come from a pool of the claim, of the lease.                     *)
ClaimsSound ==
    \A c \in Claims : claims[c].val # 0
        => claims[c].up /\ \E p \in Refs(c) : claims[c].val \in Space[p]

(* Only an existing claim is being deleted.                                *)
DeletingSound == \A c \in Claims : claims[c].deleting => claims[c].up

LeasesSound ==
    \A k \in Leases : leases[k].up
        => leases[k].pool \in Pools /\ leases[k].val \in Space[leases[k].pool]

(* Two leases of a pool reserve different values.                          *)
LeasesDistinct ==
    \A j, k \in Leases :
        j # k /\ leases[j].up /\ leases[k].up /\ leases[j].pool = leases[k].pool
            => leases[j].val # leases[k].val

(* A live claim's value is in no lease but one the claim itself holds, or  *)
(* one that no other claim can ask for.                                    *)
LiveHolds ==
    \A c \in Claims, k \in Leases :
        /\ Live(c) /\ leases[k].up
        /\ leases[k].pool \in Refs(c) /\ leases[k].val = claims[c].val
        => Sole(k) \/ (leases[k].claim = c /\ ~leases[k].released)

(* Claims report the same value only on the handover of a lease: they have *)
(* the same lease name and one of them is being deleted.                   *)
Handover ==
    \A c, d \in Claims :
        c # d /\ Compete(c, d) /\ claims[c].val # 0 /\ claims[c].val = claims[d].val
            => LeaseNameFor[c] = LeaseNameFor[d] /\ ~(Live(c) /\ Live(d))

(* The value v of pool p is claim c's to take.                             *)
Takeable(c, p, v) ==
    /\ p \in Refs(c)
    /\ v \in Space[p]
    /\ \A d \in Claims \ {c} : p \in Refs(d) /\ claims[d].val = v
            => LeaseNameFor[d] = LeaseNameFor[c] /\ ~Live(d)
    /\ \A k \in Leases \ {LeaseNameFor[c]} :
            leases[k].up /\ leases[k].pool = p => leases[k].val # v

(* What a Reconcile call knows: about the lease it has read,               *)
HeldSound(w) ==
    LET c == work[w].claim
        held == work[w].held
        l == leases[LeaseNameFor[c]]
    IN  work[w].pc = "allocate" =>
          /\ l.up => held = l
          /\ held.up /\ ~leaseHeldByOtherClaim(held, c) /\ held.pool \in Refs(c)
                => Takeable(c, held.pool, held.val)

(* about the value it has chosen,                                          *)
ChosenSound(w) ==
    work[w].pc \in {"lease", "pool", "allocated"}
        => Takeable(work[w].claim, work[w].pool, work[w].val)

(* about the lease if that already reserves the chosen value,              *)
LeaseSound(w) ==
    LET c == work[w].claim
        l == leases[LeaseNameFor[c]]
    IN  l.up /\ l.pool = work[w].pool /\ l.val = work[w].val =>
          /\ work[w].pc = "lease"
                => Sole(LeaseNameFor[c]) \/ ~leaseHeldByOtherClaim(l, c)
          /\ work[w].pc \in {"pool", "allocated"}
                => Sole(LeaseNameFor[c]) \/ (l.claim = c /\ ~l.released)

(* and about the claim whose lease it gives up.                            *)
ReleaseSound(w) ==
    work[w].pc \in {"release", "unfinalize"} => Lagging \/ claims[work[w].claim].deleting

WorkSound(w) == HeldSound(w) /\ ChosenSound(w) /\ LeaseSound(w) /\ ReleaseSound(w)

(* What the claims and the leases satisfy by themselves.                   *)
Sound ==
    /\ ClaimsSound
    /\ DeletingSound
    /\ LeasesSound
    /\ LeasesDistinct
    /\ ReservedForKey
    /\ LiveHolds
    /\ Handover

IInv == TInv /\ Coherent /\ Sound /\ \A w \in Workers : WorkSound(w)

-----------------------------------------------------------------------------
(* Consequences of the assumptions on the constants.                       *)

LEMMA SpacePositive ==
    ASSUME NEW p \in Pools, NEW v \in Space[p]
    PROVE  v \in Nat /\ v # 0
  BY Zenon, ConstantsAssumption

(* A value identifies the pool it comes from among competing claims.       *)
LEMMA OnePoolSpans ==
    ASSUME NEW c \in Claims, NEW d \in Claims, NEW p \in Refs(c), NEW q \in Refs(d),
           Compete(c, d), NEW v \in Space[p], v \in Space[q]
    PROVE  p = q
  BY Zenon, DisjointAssumption

-----------------------------------------------------------------------------
(* A step recedes when a claim that still reports a value afterwards       *)
(* reports the one it had and is no more alive than it was, and a lease    *)
(* that is still there is unchanged.  All but the steps that hand out a    *)
(* value or rewrite a lease recede.                                        *)
Receding ==
    /\ \A c \in Claims : claims'[c].val # 0
          => claims'[c].val = claims[c].val /\ claims'[c].up /\ (Live(c)' => Live(c))
    /\ \A c \in Claims : claims'[c].deleting => claims'[c].up
    /\ \A k \in Leases : leases'[k].up => leases'[k] = leases[k]

LEMMA RecedingSound ==
    ASSUME Sound, Receding
    PROVE  Sound'
<1>1. ClaimsSound' /\ DeletingSound'
  BY Zenon DEF Sound, ClaimsSound, DeletingSound, Receding
<1>2. LeasesSound'
  BY Zenon DEF Sound, LeasesSound, Receding
<1>3. LeasesDistinct'
  BY DEF Sound, LeasesDistinct, Receding
<1>4. \A k \in Leases : leases'[k].up => leases'[k].val # 0
  BY Zenon, <1>2, SpacePositive DEF LeasesSound
<1>5. ReservedForKey'
  BY Zenon, <1>4 DEF Sound, ReservedForKey, Receding
<1>6. LiveHolds'
  BY <1>4 DEF Sound, LiveHolds, Receding
<1>7. Handover'
  BY ZenonT(30) DEF Sound, Handover, Receding
<1>8. QED
  BY Zenon, <1>1, <1>2, <1>3, <1>5, <1>6, <1>7 DEF Sound

(* What a worker knows survives the receding steps of others.              *)
LEMMA RecedingWork ==
    ASSUME TInv, Receding, NEW w \in Workers, WorkSound(w), work'[w] = work[w],
           \A c \in Claims : claims[c].deleting => claims'[c].deleting
    PROVE  WorkSound(w)'
<1> DEFINE c == work[w].claim
           k == LeaseNameFor[c]
<1>1. work[w].pc # "idle" => c \in Claims /\ k \in Leases
  BY Zenon, ConstantsAssumption DEF TInv
<1>2. ASSUME NEW p, NEW v, c \in Claims, Takeable(c, p, v)
      PROVE  /\ p \in Refs(c) /\ v \in Space[p]
             /\ \A d \in Claims \ {c} : p \in Refs(d) /\ claims'[d].val = v
                  => LeaseNameFor[d] = k /\ ~Live(d)'
             /\ \A j \in Leases \ {k} : leases'[j].up /\ leases'[j].pool = p => leases'[j].val # v
  <2>1. v # 0
    BY Zenon, <1>2, RefsArePools, SpacePositive DEF Takeable
  <2>2. QED
    BY Zenon, <1>2, <2>1 DEF Takeable, Receding
<1>3. work[w].pc # "idle" /\ leases'[k].up => leases'[k] = leases[k]
  BY Zenon, <1>1 DEF Receding
<1>4. HeldSound(w)'
  BY <1>1, <1>2, <1>3 DEF WorkSound, HeldSound, Takeable, leaseHeldByOtherClaim
<1>5. ChosenSound(w)'
  BY <1>1, <1>2 DEF WorkSound, ChosenSound, Takeable
<1>6. LeaseSound(w)'
  BY Zenon, <1>3 DEF WorkSound, LeaseSound, leaseHeldByOtherClaim
<1>7. ReleaseSound(w)'
  BY Zenon, <1>1 DEF WorkSound, ReleaseSound
<1>8. QED
  BY Zenon, <1>4, <1>5, <1>6, <1>7 DEF WorkSound

-----------------------------------------------------------------------------
(* The environment, the informers, the reaper and restarts.                *)

(* Writing an object leaves its cached copy behind, and no other one.      *)
LEMMA WritesCoherent ==
    ASSUME TypeOK, Coherent, UNCHANGED <<claimCache, leaseCache>>,
           \/ UNCHANGED <<claims, claimRv>>
           \/ \E c \in Claims, r \in Claim : WriteClaim(c, r),
           \/ UNCHANGED <<leases, leaseRv>>
           \/ \E k \in Leases, l \in Lease : WriteLease(k, l)
           \/ \E k \in Leases : RemoveLease(k)
    PROVE  Coherent'
<1>1. \A c \in Claims : "cache" \in claimRv'[c] => claimCache'[c] = claims'[c]
  BY Zenon DEF TypeOK, Coherent, WriteClaim
<1>2. \A k \in Leases : leaseRv'[k] => leaseCache'[k] = leases'[k]
  BY Zenon DEF TypeOK, Coherent, WriteLease, RemoveLease
<1>3. QED
  BY Zenon, <1>1, <1>2 DEF Coherent

(* A claim record that may replace another without handing out a value.    *)
Fades(r, old) ==
    /\ r.deleting => r.up
    /\ r.val # 0 => r.val = old.val /\ r.up /\ (~r.deleting => old.up /\ ~old.deleting)

LEMMA FadingRecedes ==
    ASSUME TypeOK, Sound, NEW c \in Claims, NEW r, WriteClaim(c, r), Fades(r, claims[c]),
           UNCHANGED leases
    PROVE  Receding
<1>1. \A d \in Claims : claims'[d] = IF d = c THEN r ELSE claims[d]
  BY Zenon DEF TypeOK, WriteClaim
<1>2. QED
  BY Zenon, <1>1 DEF Receding, Fades, Live, Sound, ClaimsSound, DeletingSound

LEMMA RemovalRecedes ==
    ASSUME TypeOK, Sound, NEW k \in Leases, RemoveLease(k), UNCHANGED claims
    PROVE  Receding
<1>1. \A j \in Leases : leases'[j] = IF j = k THEN NoLease ELSE leases[j]
  BY Zenon DEF TypeOK, RemoveLease
<1>2. ~NoLease.up
  BY Zenon DEF NoLease
<1>3. QED
  BY Zenon, <1>1, <1>2 DEF Receding, Live, Sound, ClaimsSound, DeletingSound

LEMMA StillRecedes ==
    ASSUME Sound, UNCHANGED <<claims, leases>>
    PROVE  Receding
  BY Zenon DEF Receding, Live, Sound, ClaimsSound, DeletingSound

LEMMA EnvironmentSafe ==
    ASSUME IInv,
           \/ \E c \in Claims : User(c)
           \/ \E p \in Pools : CreatePool(p) \/ ValidatePool(p)
           \/ Inform \/ Reap \/ Restart
    PROVE  Coherent' /\ Sound' /\ \A w \in Workers : WorkSound(w)'
<1> DEFINE Kept == \A c \in Claims : claims[c].deleting => claims'[c].deleting
<1> USE DEF IInv, TInv
<1>1. ASSUME Receding, Kept, UNCHANGED work
      PROVE  Sound' /\ \A w \in Workers : WorkSound(w)'
  BY Zenon, <1>1, RecedingSound, RecedingWork
<1>2. ASSUME NEW c \in Claims, NEW r \in Claim, WriteClaim(c, r), Fades(r, claims[c]),
             claims[c].deleting => r.deleting,
             UNCHANGED <<claimCache, leases, leaseCache, leaseRv, work>>
      PROVE  Coherent' /\ Sound' /\ \A w \in Workers : WorkSound(w)'
  <2>1. Receding
    BY Zenon, <1>2, FadingRecedes
  <2>2. Kept
    BY Zenon, <1>2 DEF WriteClaim, TypeOK
  <2>3. Coherent'
    BY Zenon, <1>2, WritesCoherent
  <2>4. QED
    BY Zenon, <1>1, <1>2, <2>1, <2>2, <2>3
<1>3. ASSUME NEW c \in Claims, CreateClaim(c)
      PROVE  Coherent' /\ Sound' /\ \A w \in Workers : WorkSound(w)'
  <2> DEFINE r == [NoClaim EXCEPT !.up = TRUE, !.uid = births']
  <2>1. r \in Claim
    <3>1. births' \in Nat /\ claims[c] \in Claim
      BY <1>3 DEF CreateClaim, TypeOK
    <3>2. QED
      BY Zenon, <3>1, ClaimWrites
  <2>2. Fades(r, claims[c])
    BY Zenon DEF Fades, NoClaim
  <2>3. ~claims[c].deleting
    BY Zenon, <1>3 DEF CreateClaim, Sound, DeletingSound
  <2>4. WriteClaim(c, r) /\ UNCHANGED <<claimCache, leases, leaseCache, leaseRv, work>>
    BY Zenon, <1>3 DEF CreateClaim
  <2> HIDE DEF r
  <2>5. QED
    BY Zenon, <1>2, <2>1, <2>2, <2>3, <2>4
<1>4. ASSUME NEW c \in Claims, DeleteClaim(c)
      PROVE  Coherent' /\ Sound' /\ \A w \in Workers : WorkSound(w)'
  <2> DEFINE r == IF claims[c].fin THEN [claims[c] EXCEPT !.deleting = TRUE] ELSE NoClaim
  <2>0. claims[c] \in Claim
    BY Zenon DEF TypeOK
  <2>1. r \in Claim
    BY Zenon, <2>0, ClaimWrites
  <2>2. Fades(r, claims[c])
    BY Zenon, <1>4, <2>0 DEF Fades, NoClaim, DeleteClaim, Claim
  <2>3. ~claims[c].deleting
    BY Zenon, <1>4 DEF DeleteClaim
  <2>4. WriteClaim(c, r) /\ UNCHANGED <<claimCache, leases, leaseCache, leaseRv, work>>
    BY Zenon, <1>4 DEF DeleteClaim
  <2> HIDE DEF r
  <2>5. QED
    BY Zenon, <1>2, <2>1, <2>2, <2>3, <2>4
<1>5. ASSUME NEW c \in Claims, UpdateSpec(c)
      PROVE  Coherent' /\ Sound' /\ \A w \in Workers : WorkSound(w)'
  <2> DEFINE r == [claims[c] EXCEPT !.observed = FALSE]
  <2>0. claims[c] \in Claim
    BY Zenon DEF TypeOK
  <2>1. r \in Claim
    BY Zenon, <2>0, ClaimWrites
  <2>2. Fades(r, claims[c])
    BY Zenon, <1>5, <2>0 DEF Fades, UpdateSpec, Claim
  <2>3. ~claims[c].deleting
    BY Zenon, <1>5 DEF UpdateSpec
  <2>4. WriteClaim(c, r) /\ UNCHANGED <<claimCache, leases, leaseCache, leaseRv, work>>
    BY Zenon, <1>5 DEF UpdateSpec
  <2> HIDE DEF r
  <2>5. QED
    BY Zenon, <1>2, <2>1, <2>2, <2>3, <2>4
<1>6. ASSUME UNCHANGED <<claims, leases, work>>
      PROVE  Sound' /\ \A w \in Workers : WorkSound(w)'
  BY Zenon, <1>1, <1>6, StillRecedes
<1>7. ASSUME NEW p \in Pools, CreatePool(p) \/ ValidatePool(p)
      PROVE  Coherent' /\ Sound' /\ \A w \in Workers : WorkSound(w)'
  <2>1. UNCHANGED <<claims, leases, work, claimCache, leaseCache, claimRv, leaseRv>>
    BY Zenon, <1>7 DEF CreatePool, ValidatePool
  <2>2. QED
    BY Zenon, <1>6, <2>1 DEF Coherent
<1>8. ASSUME NEW c \in Claims, InformClaim(c)
      PROVE  Coherent' /\ Sound' /\ \A w \in Workers : WorkSound(w)'
  <2>1. Coherent'
    BY Zenon, <1>8 DEF InformClaim, Coherent, TypeOK
  <2>2. QED
    BY Zenon, <1>6, <1>8, <2>1 DEF InformClaim
<1>9. ASSUME NEW k \in Leases, InformLease(k)
      PROVE  Coherent' /\ Sound' /\ \A w \in Workers : WorkSound(w)'
  <2>1. Coherent'
    BY Zenon, <1>9 DEF InformLease, Coherent, TypeOK
  <2>2. QED
    BY Zenon, <1>6, <1>9, <2>1 DEF InformLease
<1>10. ASSUME NEW k \in Leases, FindExpired(k)
      PROVE  Coherent' /\ Sound' /\ \A w \in Workers : WorkSound(w)'
  <2>1. UNCHANGED <<claims, leases, work, claimCache, leaseCache, claimRv, leaseRv>>
    BY Zenon, <1>10 DEF FindExpired
  <2>2. QED
    BY Zenon, <1>6, <2>1 DEF Coherent
<1>11. ASSUME NEW k \in Leases, DeleteExpired(k)
      PROVE  Coherent' /\ Sound' /\ \A w \in Workers : WorkSound(w)'
  <2>1. UNCHANGED <<claims, work, claimCache, leaseCache, claimRv>>
    BY Zenon, <1>11 DEF DeleteExpired
  <2>2. CASE RemoveLease(k)
    BY Zenon, <1>1, <2>1, <2>2, RemovalRecedes, WritesCoherent
  <2>3. CASE UNCHANGED <<leases, leaseRv>>
    BY Zenon, <1>6, <2>1, <2>3 DEF Coherent
  <2>4. QED
    BY Zenon, <1>11, <2>2, <2>3 DEF DeleteExpired
<1>12. CASE Restart
  <2>1. Coherent'
    BY Zenon, <1>12 DEF Restart, Coherent
  <2>2. Sound'
    BY Zenon, <1>12, StillRecedes, RecedingSound DEF Restart
  <2>3. \A w \in Workers : work'[w].pc = "idle"
    BY Zenon, <1>12 DEF Restart, Idle
  <2>4. ASSUME NEW w \in Workers PROVE WorkSound(w)'
    BY Zenon, <2>3 DEF WorkSound, HeldSound, ChosenSound, LeaseSound, ReleaseSound
  <2>5. QED
    BY Zenon, <2>1, <2>2, <2>4
<1>13. QED
  BY Zenon, <1>3, <1>4, <1>5, <1>7, <1>8, <1>9, <1>10, <1>11, <1>12 DEF User, Inform, Reap

-----------------------------------------------------------------------------
(* The claim controller, with one worker.                                  *)

(* At these points of a Reconcile call there is nothing to know.           *)
Quiet(w) == work[w].pc \in {"idle", "finalizer", "keep", "owner", "read", "fail", "reject"}

LEMMA QuietSound ==
    ASSUME NEW w \in Workers, Quiet(w)'
    PROVE  WorkSound(w)'
  BY Zenon DEF Quiet, WorkSound, HeldSound, ChosenSound, LeaseSound, ReleaseSound

LEMMA Moves ==
    ASSUME TypeOK, NEW w \in Workers
    PROVE  /\ Done(w) => Quiet(w)'
           /\ Failed(w) => Quiet(w)'
           /\ \A pc \in {"finalizer", "read", "reject"} : Conflict(w, pc) => Quiet(w)'
           /\ \A pc : Goto(w, pc) =>
                 /\ work'[w].pc = pc
                 /\ work'[w].claim = work[w].claim
                 /\ work'[w].pool = work[w].pool
                 /\ work'[w].val = work[w].val
                 /\ work'[w].held = work[w].held
<1>1. work[w] \in Work
  BY Zenon DEF TypeOK
<1>2. \A pc : Goto(w, pc) => work'[w] = [work[w] EXCEPT !.pc = pc]
  BY Zenon DEF TypeOK, Goto
<1>3. \A pc : Goto(w, pc) =>
                 /\ work'[w].pc = pc
                 /\ work'[w].claim = work[w].claim
                 /\ work'[w].pool = work[w].pool
                 /\ work'[w].val = work[w].val
                 /\ work'[w].held = work[w].held
  BY ZenonT(30), <1>1, <1>2 DEF Work
<1>4. Done(w) \/ Failed(w) => work'[w].pc = "idle"
  BY DEF TypeOK, Done, Failed, Idle
<1>5. QED
  BY Zenon, <1>3, <1>4 DEF Quiet, Conflict

LEMMA StartSafe ==
    ASSUME IInv, NEW w \in Workers, NEW c \in Claims, Start(w, c)
    PROVE  Coherent' /\ Sound' /\ WorkSound(w)'
<1> USE DEF IInv, TInv
<1>1. UNCHANGED <<claims, leases, claimCache, leaseCache, leaseRv>>
  BY Zenon DEF Start
<1>2. Coherent'
  <2>1. claimRv' = [claimRv EXCEPT ![c] = IF "cache" \in claimRv[c] THEN claimRv[c] \cup {w}
                                         ELSE claimRv[c] \ {w}]
    BY Zenon DEF Start
  <2>2. \A d \in Claims : "cache" \in claimRv'[d] => "cache" \in claimRv[d]
    BY Zenon, <2>1 DEF TypeOK
  <2>3. QED
    BY Zenon, <1>1, <2>2 DEF Coherent
<1>3. Sound'
  BY Zenon, <1>1, StillRecedes, RecedingSound
<1>4. work[w].pc = "idle"
  BY Zenon DEF Start
<1>5. ASSUME work' = work PROVE WorkSound(w)'
  BY Zenon, <1>4, <1>5, QuietSound DEF Quiet
<1>6. ASSUME work' # work PROVE WorkSound(w)'
  <2> DEFINE r == claimCache[c]
             pc == IF r.deleting THEN "release"
                   ELSE IF ~r.fin THEN "finalizer" ELSE Proceed(c, r)
             y == [Idle EXCEPT !.claim = c, !.uid = r.uid, !.pc = pc]
  <2>1. work' = [work EXCEPT ![w] = y]
    BY Zenon, <1>6 DEF Start
  <2>2. work'[w] = y
    BY Zenon, <2>1 DEF TypeOK
  <2>3. y.pc = pc /\ y.claim = c
    BY Zenon DEF Idle
  <2>4. CASE r.deleting
    <3>1. work'[w].pc = "release" /\ work'[w].claim = c
      BY Zenon, <2>2, <2>3, <2>4
    <3>2. Lagging \/ claims[c].deleting
      <4>1. Caught
        BY Zenon DEF Start
      <4>2. QED
        BY Zenon, <2>4, <4>1 DEF Caught, CachesCurrent, Coherent
    <3>3. QED
      BY Zenon, <1>1, <3>1, <3>2 DEF WorkSound, HeldSound, ChosenSound, LeaseSound, ReleaseSound
  <2>5. CASE ~r.deleting
    <3>1. pc \in {"finalizer", "keep", "owner", "reject"}
      BY Zenon, <2>5 DEF Proceed
    <3> HIDE DEF pc, y
    <3>2. QED
      BY Zenon, <2>2, <2>3, <3>1, QuietSound DEF Quiet
  <2>6. QED
    BY Zenon, <2>4, <2>5
<1>7. QED
  BY Zenon, <1>2, <1>3, <1>5, <1>6

LEMMA AddFinalizerSafe ==
    ASSUME IInv, NEW w \in Workers, AddFinalizer(w)
    PROVE  Coherent' /\ Sound' /\ WorkSound(w)'
<1> USE DEF IInv, TInv
<1> DEFINE c == work[w].claim
           r == [claims[c] EXCEPT !.fin = TRUE]
           pc == Proceed(c, claimCache[c])
<1>1. c \in Claims /\ claims[c] \in Claim
  BY Zenon DEF AddFinalizer, TypeOK
<1>2. UNCHANGED <<leases, claimCache, leaseCache, leaseRv>>
  BY Zenon DEF AddFinalizer
<1>3. WriteClaim(c, r) \/ UNCHANGED <<claims, claimRv>>
  BY Zenon DEF AddFinalizer
<1>4. r \in Claim
  BY Zenon, <1>1, ClaimWrites
<1>5. Fades(r, claims[c])
  BY Zenon, <1>1 DEF Fades, Claim, Sound, DeletingSound, ClaimsSound
<1>6. Coherent'
  <2> HIDE DEF r
  <2> QED BY Zenon, <1>1, <1>2, <1>3, <1>4, WritesCoherent
<1>7. Receding
  <2> HIDE DEF r, c
  <2> QED BY Zenon, <1>1, <1>2, <1>3, <1>5, FadingRecedes, StillRecedes
<1>8. Quiet(w)'
  <2>1. CASE work' = [work EXCEPT ![w].pc = pc, ![w].uid = claimCache[c].uid]
    <3>1. pc \in {"keep", "owner", "reject"}
      BY Zenon DEF Proceed
    <3> HIDE DEF pc
    <3>2. work'[w] = [work[w] EXCEPT !.pc = pc, !.uid = claimCache[c].uid]
      BY Zenon, <2>1 DEF TypeOK
    <3>3. work'[w].pc = pc
      BY <3>2 DEF TypeOK, Work
    <3>4. QED
      BY Zenon, <3>1, <3>3 DEF Quiet
  <2>2. QED
    BY Zenon, <2>1, Moves DEF AddFinalizer
<1>9. QED
  BY Zenon, <1>6, <1>7, <1>8, RecedingSound, QuietSound

LEMMA updateStatusSafe ==
    ASSUME IInv, NEW w \in Workers, NEW pc \in Pc, pc # "idle", NEW retry \in {"read", "reject"},
           NEW st \in Status, updateStatus(w, pc, retry, st, 0)
    PROVE  Coherent' /\ Sound' /\ WorkSound(w)'
<1> USE DEF IInv, TInv
<1> DEFINE c == work[w].claim
           r == [claimCache[c] EXCEPT !.status = st, !.val = 0, !.observed = TRUE]
<1>1. c \in Claims /\ claimCache[c] \in Claim
  BY Zenon DEF updateStatus, TypeOK
<1>2. UNCHANGED <<leases, claimCache, leaseCache, leaseRv>>
  BY Zenon DEF updateStatus
<1>3. \/ WriteClaim(c, r) /\ claimCache[c].up
      \/ UNCHANGED <<claims, claimRv>>
  BY Zenon DEF updateStatus
<1>4. r \in Claim
  BY Zenon, <1>1, ClaimWrites
<1>5. claimCache[c].up => Fades(r, claims[c])
  BY Zenon, <1>1 DEF Fades, Claim
<1>6. Coherent'
  <2> HIDE DEF r
  <2> QED BY Zenon, <1>1, <1>2, <1>3, <1>4, WritesCoherent
<1>7. Receding
  <2> HIDE DEF r, c
  <2> QED BY Zenon, <1>1, <1>2, <1>3, <1>5, FadingRecedes, StillRecedes
<1>8. Quiet(w)'
  BY Zenon, Moves DEF updateStatus
<1>9. QED
  BY Zenon, <1>6, <1>7, <1>8, RecedingSound, QuietSound

LEMMA removeFinalizerSafe ==
    ASSUME IInv, NEW w \in Workers, removeFinalizer(w)
    PROVE  Coherent' /\ Sound' /\ WorkSound(w)'
<1> USE DEF IInv, TInv
<1> DEFINE c == work[w].claim
<1>1. c \in Claims /\ claims[c] \in Claim
  BY Zenon DEF removeFinalizer, TypeOK
<1>2. UNCHANGED <<leases, claimCache, leaseCache, leaseRv>>
  BY Zenon DEF removeFinalizer
<1>3. WriteClaim(c, NoClaim) \/ UNCHANGED <<claims, claimRv>>
  BY Zenon DEF removeFinalizer
<1>4. NoClaim \in Claim
  BY Zenon, <1>1, ClaimWrites
<1>5. Fades(NoClaim, claims[c])
  BY Zenon DEF Fades, NoClaim
<1>6. Coherent'
  BY Zenon, <1>1, <1>2, <1>3, <1>4, WritesCoherent
<1>7. Receding
  <2> HIDE DEF c
  <2> QED BY Zenon, <1>1, <1>2, <1>3, <1>5, FadingRecedes, StillRecedes
<1>8. Quiet(w)'
  BY Zenon, Moves DEF removeFinalizer
<1>9. QED
  BY Zenon, <1>6, <1>7, <1>8, RecedingSound, QuietSound

(* A write of a lease that changes neither its pool nor its value nor its  *)
(* holder, and that releases it only if no live claim depends on it.       *)
LEMMA RewriteSound ==
    ASSUME TypeOK, Sound, NEW k \in Leases, NEW l, WriteLease(k, l), UNCHANGED claims,
           leases[k].up,
           l.pool = leases[k].pool, l.val = leases[k].val, l.claim = leases[k].claim,
           l.released => \/ leases[k].released \/ Sole(k)
                         \/ \A c \in Claims : Live(c) => leases[k].claim # c
    PROVE  Sound'
<1>1. \A j \in Leases : leases'[j] = IF j = k THEN l ELSE leases[j]
  BY Zenon DEF TypeOK, WriteLease
<1>2. \A j \in Leases : /\ leases'[j].pool = leases[j].pool
                        /\ leases'[j].val = leases[j].val
                        /\ leases'[j].claim = leases[j].claim
                        /\ leases'[j].up => leases[j].up
  BY Zenon, <1>1
<1>3. ClaimsSound' /\ DeletingSound' /\ Handover'
  BY Zenon DEF Sound, ClaimsSound, DeletingSound, Handover, Live
<1>4. LeasesSound' /\ LeasesDistinct'
  BY <1>2 DEF Sound, LeasesSound, LeasesDistinct
<1>5. ReservedForKey'
  BY Zenon, <1>2 DEF Sound, ReservedForKey
<1>6. LiveHolds'
  BY <1>1, <1>2 DEF Sound, LiveHolds, Live
<1>7. QED
  BY Zenon, <1>3, <1>4, <1>5, <1>6 DEF Sound

LEMMA reconcileLeaseSafe ==
    ASSUME IInv, NEW w \in Workers, reconcileLease(w)
    PROVE  Coherent' /\ Sound' /\ WorkSound(w)'
<1> USE DEF IInv, TInv
<1> DEFINE c == work[w].claim
           k == LeaseNameFor[c]
           l == [leases[k] EXCEPT !.uid = work[w].uid]
<1>1. c \in Claims /\ k \in Leases /\ leases[k] \in Lease
  BY Zenon, ConstantsAssumption DEF reconcileLease, TypeOK
<1>2. UNCHANGED <<claims, claimRv, claimCache, leaseCache>> /\ (Done(w) \/ Failed(w))
  BY Zenon DEF reconcileLease
<1>3. (leases[k].up /\ WriteLease(k, l)) \/ UNCHANGED <<leases, leaseRv>>
  BY Zenon DEF reconcileLease
<1>4. l \in Lease
  <2>1. work[w].uid \in Nat
    BY Zenon, WorkWrites DEF TypeOK
  <2>2. QED
    BY Zenon, <1>1, <2>1, LeaseWrites
<1>5. /\ l.pool = leases[k].pool /\ l.val = leases[k].val /\ l.claim = leases[k].claim
      /\ l.released = leases[k].released
  BY Zenon, <1>1 DEF Lease
<1>6. Coherent'
  <2> HIDE DEF l
  <2> QED BY Zenon, <1>1, <1>2, <1>3, <1>4, WritesCoherent
<1>7. Sound'
  <2> HIDE DEF l, k
  <2>1. CASE UNCHANGED leases
    BY Zenon, <1>2, <2>1, StillRecedes, RecedingSound
  <2>2. CASE leases[k].up /\ WriteLease(k, l)
    BY Zenon, <1>1, <1>2, <1>5, <2>2, RewriteSound
  <2>3. QED
    BY Zenon, <1>3, <2>1, <2>2
<1>8. QED
  BY Zenon, <1>2, <1>6, <1>7, Moves, QuietSound

LEMMA ensureOwnerExistsSafe ==
    ASSUME IInv, NEW w \in Workers, ensureOwnerExists(w)
    PROVE  Coherent' /\ Sound' /\ WorkSound(w)'
<1> USE DEF IInv, TInv
<1>1. UNCHANGED <<claims, claimRv, claimCache, leases, leaseRv, leaseCache>>
  BY Zenon DEF ensureOwnerExists
<1>2. Quiet(w)'
  BY Zenon, Moves DEF ensureOwnerExists, Quiet
<1>3. QED
  BY Zenon, <1>1, <1>2, WritesCoherent, StillRecedes, RecedingSound, QuietSound

LEMMA ReadFreshSafe ==
    ASSUME IInv, NEW w \in Workers, ReadFresh(w)
    PROVE  Coherent' /\ Sound' /\ WorkSound(w)'
<1> USE DEF IInv, TInv
<1> DEFINE c == work[w].claim
           k == LeaseNameFor[c]
           l == leases[k]
           y == [work[w] EXCEPT !.pc = "allocate", !.held = l, !.uid = claims[c].uid]
<1>1. c \in Claims /\ k \in Leases
  BY Zenon, ConstantsAssumption DEF ReadFresh
<1>2. UNCHANGED <<claims, claimRv, claimCache, leases, leaseRv, leaseCache>>
  BY Zenon DEF ReadFresh
<1>3. Coherent' /\ Sound'
  BY Zenon, <1>2, WritesCoherent, StillRecedes, RecedingSound
<1>4. Done(w) \/ Failed(w) \/ work' = [work EXCEPT ![w] = y]
  BY Zenon DEF ReadFresh
<1>5. ASSUME work' = [work EXCEPT ![w] = y]
      PROVE  WorkSound(w)'
  <2>1. work'[w] = y
    BY Zenon, <1>5 DEF TypeOK
  <2>2. y.pc = "allocate" /\ y.claim = c /\ y.held = l
    BY ZenonT(30) DEF TypeOK, Work
  <2> HIDE DEF y
  <2>3. ASSUME l.up, ~leaseHeldByOtherClaim(l, c), l.pool \in Refs(c)
        PROVE  Takeable(c, l.pool, l.val)
    <3>1. l.val \in Space[l.pool]
      BY Zenon, <1>1, <2>3 DEF Sound, LeasesSound
    <3>2. ASSUME NEW d \in Claims \ {c}, l.pool \in Refs(d), claims[d].val = l.val
          PROVE  LeaseNameFor[d] = k /\ ~Live(d)
      <4>1. LeaseNameFor[d] = k
        BY Zenon, <1>1, <2>3, <3>2 DEF Sound, ReservedForKey
      <4>2. ~Sole(k)
        BY Zenon, <1>1, <4>1 DEF Sole
      <4>3. ~(l.claim = d /\ ~l.released)
        BY Zenon, <2>3 DEF leaseHeldByOtherClaim
      <4>4. QED
        BY Zenon, <1>1, <2>3, <3>2, <4>1, <4>2, <4>3 DEF Sound, LiveHolds
    <3>3. \A j \in Leases \ {k} : leases[j].up /\ leases[j].pool = l.pool => leases[j].val # l.val
      BY Zenon, <1>1, <2>3 DEF Sound, LeasesDistinct
    <3>4. QED
      BY Zenon, <2>3, <3>1, <3>2, <3>3 DEF Takeable
  <2>4. HeldSound(w)'
    BY ZenonT(30), <1>1, <1>2, <2>1, <2>2, <2>3 DEF HeldSound, Takeable, Live
  <2>5. QED
    BY Zenon, <2>1, <2>2, <2>4 DEF WorkSound, ChosenSound, LeaseSound, ReleaseSound
<1>6. QED
  BY Zenon, <1>3, <1>4, <1>5, Moves, QuietSound

LEMMA allocateSafe ==
    ASSUME IInv, NEW w \in Workers, allocate(w)
    PROVE  Coherent' /\ Sound' /\ WorkSound(w)'
<1> USE DEF IInv, TInv
<1> DEFINE c == work[w].claim
           k == LeaseNameFor[c]
           l == leases[k]
           held == work[w].held
<1>1. c \in Claims /\ k \in Leases /\ work[w].pc = "allocate"
  BY Zenon, ConstantsAssumption DEF allocate
<1>2. UNCHANGED <<claims, claimRv, claimCache, leases, leaseRv, leaseCache>>
  BY Zenon DEF allocate
<1>3. Coherent' /\ Sound'
  BY Zenon, <1>2, WritesCoherent, StillRecedes, RecedingSound
<1>4. ASSUME NEW p, NEW v, Takeable(c, p, v),
             l.up /\ l.pool = p /\ l.val = v => ~leaseHeldByOtherClaim(l, c),
             work' = [work EXCEPT ![w].pc = "lease", ![w].pool = p,
                                  ![w].val = v, ![w].held = NoLease]
      PROVE  WorkSound(w)'
  <2> DEFINE y == [work[w] EXCEPT !.pc = "lease", !.pool = p, !.val = v, !.held = NoLease]
  <2>1. work'[w] = y
    BY Zenon, <1>4 DEF TypeOK
  <2>2. y.pc = "lease" /\ y.claim = c /\ y.pool = p /\ y.val = v
    BY ZenonT(30) DEF TypeOK, Work
  <2> HIDE DEF y
  <2>3. ChosenSound(w)'
    <3>1. \A d \in Claims : Live(d)' <=> Live(d)
      BY Zenon, <1>2 DEF Live
    <3>2. work'[w].claim = c /\ work'[w].pool = p /\ work'[w].val = v
      BY Zenon, <2>1, <2>2
    <3> QED BY ZenonT(30), <1>2, <1>4, <3>1, <3>2 DEF ChosenSound, Takeable
  <2>4. LeaseSound(w)'
    BY Zenon, <1>2, <1>4, <2>1, <2>2 DEF LeaseSound, leaseHeldByOtherClaim
  <2>5. QED
    BY Zenon, <2>1, <2>2, <2>3, <2>4 DEF WorkSound, HeldSound, ReleaseSound
<1>5. HeldSound(w)
  BY Zenon DEF WorkSound
<1>6. ASSUME Reusable(c, held),
             work' = [work EXCEPT ![w].pc = "lease", ![w].pool = held.pool,
                                  ![w].val = held.val, ![w].held = NoLease]
      PROVE  WorkSound(w)'
  <2>1. Takeable(c, held.pool, held.val)
    BY Zenon, <1>1, <1>5, <1>6 DEF HeldSound, Reusable
  <2>2. l.up => ~leaseHeldByOtherClaim(l, c)
    BY Zenon, <1>1, <1>5, <1>6 DEF HeldSound, Reusable
  <2>3. QED
    BY Zenon, <1>4, <1>6, <2>1, <2>2
<1>7. ASSUME NEW i \in Stops(c, held), NEW v \in Fits(c, i, held),
             work' = [work EXCEPT ![w].pc = "lease", ![w].pool = PoolRefs[c][i],
                                  ![w].val = v, ![w].held = NoLease]
      PROVE  WorkSound(w)'
  <2> DEFINE p == PoolRefs[c][i]
  <2>1. p \in Refs(c) /\ v \in Space[p] /\ v \notin Used(c, p, held)
    BY Zenon, <1>1, StopFits DEF Free
  <2> HIDE DEF p
  <2>2. Takeable(c, p, v)
    BY Zenon, <2>1 DEF Takeable, Used
  <2>3. ASSUME l.up, l.pool = p, l.val = v PROVE ~leaseHeldByOtherClaim(l, c)
    <3>1. held = l
      BY Zenon, <1>1, <1>5, <2>3 DEF HeldSound
    <3>2. QED
      BY Zenon, <1>1, <2>1, <2>3, <3>1 DEF Used
  <2>4. QED
    BY Zenon, <1>4, <1>7, <2>2, <2>3 DEF p
<1>8. ASSUME NEW why, work' = [work EXCEPT ![w].pc = "fail", ![w].why = why]
      PROVE  WorkSound(w)'
  <2>1. work'[w] = [work[w] EXCEPT !.pc = "fail", !.why = why]
    BY Zenon, <1>8 DEF TypeOK
  <2>2. work'[w].pc = "fail"
    BY <2>1 DEF TypeOK, Work
  <2>3. QED
    BY Zenon, <2>2, QuietSound DEF Quiet
<1>9. QED
  BY Zenon, <1>3, <1>6, <1>7, <1>8 DEF allocate

(* The lease a claim writes for a value that is its to take.               *)
LEMMA TakingSound ==
    ASSUME TypeOK, Sound, NEW c \in Claims, NEW p, NEW v, Takeable(c, p, v), NEW l,
           WriteLease(LeaseNameFor[c], l), UNCHANGED claims,
           l.pool = p, l.val = v, l.claim = c, ~l.released
    PROVE  Sound'
<1> DEFINE k == LeaseNameFor[c]
<1>1. k \in Leases /\ p \in Pools
  BY Zenon, ConstantsAssumption, RefsArePools DEF Takeable
<1>2. \A j \in Leases : leases'[j] = IF j = k THEN l ELSE leases[j]
  BY Zenon DEF TypeOK, WriteLease
<1> HIDE DEF k
<1>3. ClaimsSound' /\ DeletingSound' /\ Handover'
  BY Zenon DEF Sound, ClaimsSound, DeletingSound, Handover, Live
<1>4. LeasesSound'
  BY Zenon, <1>1, <1>2 DEF Sound, LeasesSound, Takeable
<1>5. LeasesDistinct'
  BY <1>2 DEF Sound, LeasesDistinct, Takeable, k
<1>6. ReservedForKey'
  BY <1>2 DEF Sound, ReservedForKey, Takeable, k
<1>7. LiveHolds'
  BY <1>2 DEF Sound, LiveHolds, Takeable, Live, k
<1>8. QED
  BY Zenon, <1>3, <1>4, <1>5, <1>6, <1>7 DEF Sound

LEMMA ensureLeaseSafe ==
    ASSUME IInv, SoleOrCaught, NEW w \in Workers, ensureLease(w)
    PROVE  Coherent' /\ Sound' /\ WorkSound(w)'
<1> USE DEF IInv, TInv
<1> DEFINE c == work[w].claim
           k == LeaseNameFor[c]
           l == leases[k]
           old == leaseCache[k]
           want == [up |-> TRUE, pool |-> work[w].pool, val |-> work[w].val,
                    claim |-> c, uid |-> work[w].uid, released |-> FALSE]
<1>1. c \in Claims /\ k \in Leases /\ work[w].pc = "lease" /\ Caught
  BY Zenon, ConstantsAssumption DEF ensureLease
<1>2. UNCHANGED <<claims, claimRv, claimCache, leaseCache>>
  BY Zenon DEF ensureLease
<1>3. Takeable(c, work[w].pool, work[w].val)
  BY Zenon, <1>1 DEF WorkSound, ChosenSound
<1>4. want \in Lease
  <2>1. /\ work[w].pool \in Pools \cup {None} /\ work[w].val \in Value \cup {0}
        /\ work[w].uid \in Nat /\ l \in Lease
    BY Zenon, <1>1, WorkWrites DEF TypeOK
  <2> HIDE DEF c, l
  <2>2. QED
    BY Zenon, <1>1, <2>1, LeaseWrites
<1>5. \/ WriteLease(k, want) /\ Goto(w, "pool")
      \/ /\ UNCHANGED <<leases, leaseRv>>
         /\ \/ /\ Goto(w, "pool")
               /\ \/ ~old.up /\ l.up
                  \/ leaseHeldByOtherClaim(old, c)
                  \/ old = want
            \/ Failed(w) \/ Conflict(w, "read")
  BY Zenon DEF ensureLease
<1>6. Coherent'
  <2> HIDE DEF want, k
  <2> QED BY Zenon, <1>1, <1>2, <1>4, <1>5, WritesCoherent
<1>7. want.pool = work[w].pool /\ want.val = work[w].val /\ want.claim = c /\ ~want.released /\ want.up
  BY Zenon
<1>8. Sound'
  <2>1. CASE WriteLease(k, want)
    <3> HIDE DEF want, c
    <3> QED BY Zenon, <1>1, <1>2, <1>3, <1>7, <2>1, TakingSound
  <2>2. CASE UNCHANGED leases
    BY Zenon, <1>2, <2>2, StillRecedes, RecedingSound
  <2>3. QED
    BY Zenon, <1>5, <2>1, <2>2
<1>9. leaseRv[k] \/ Sole(k)
  BY Zenon, <1>1 DEF SoleOrCaught, Caught, CachesCurrent
<1>10. ASSUME Goto(w, "pool") PROVE WorkSound(w)'
  <2> DEFINE m == leases'[k]
  <2>1. /\ work'[w].pc = "pool" /\ work'[w].claim = c
        /\ work'[w].pool = work[w].pool /\ work'[w].val = work[w].val
    BY Zenon, <1>10, Moves
  <2>2. \A j \in Leases \ {k} : leases'[j] = leases[j]
    BY Zenon, <1>5 DEF WriteLease, TypeOK
  <2>3. ChosenSound(w)'
    BY ZenonT(30), <1>2, <1>3, <2>1, <2>2 DEF ChosenSound, Takeable, Live
  <2>4. m.up /\ m.pool = work[w].pool /\ m.val = work[w].val
          => Sole(k) \/ (m.claim = c /\ ~m.released)
    <3>1. CASE WriteLease(k, want)
      <4>1. m = want
        BY Zenon, <1>1, <3>1 DEF WriteLease, TypeOK
      <4>2. QED
        BY Zenon, <1>7, <4>1
    <3>2. CASE UNCHANGED leases /\ leaseRv[k]
               /\ ((~old.up /\ l.up) \/ leaseHeldByOtherClaim(old, c) \/ old = want)
      <4>1. old = l /\ m = l
        BY Zenon, <1>1, <3>2 DEF Coherent
      <4>2. l.up /\ l.pool = work[w].pool /\ l.val = work[w].val
              => Sole(k) \/ ~leaseHeldByOtherClaim(l, c)
        BY Zenon, <1>1 DEF WorkSound, LeaseSound
      <4>3. CASE l = want
        BY Zenon, <1>7, <4>1, <4>3
      <4>4. QED
        BY Zenon, <3>2, <4>1, <4>2, <4>3
    <3>3. CASE Sole(k)
      BY Zenon, <3>3
    <3>4. CASE Failed(w) \/ Conflict(w, "read")
      BY Zenon, <2>1, <3>4, Moves DEF Quiet
    <3>5. QED
      BY Zenon, <1>5, <1>9, <3>1, <3>2, <3>3, <3>4
  <2>5. LeaseSound(w)'
    BY Zenon, <2>1, <2>4 DEF LeaseSound
  <2>6. QED
    BY Zenon, <2>1, <2>3, <2>5 DEF WorkSound, HeldSound, ReleaseSound
<1>11. QED
  BY Zenon, <1>5, <1>6, <1>8, <1>10, Moves, QuietSound

LEMMA UpdatePoolSafe ==
    ASSUME IInv, NEW w \in Workers, UpdatePool(w)
    PROVE  Coherent' /\ Sound' /\ WorkSound(w)'
<1> USE DEF IInv, TInv
<1>1. work[w].pc = "pool"
  BY Zenon DEF UpdatePool
<1>2. UNCHANGED <<claims, claimRv, claimCache, leases, leaseRv, leaseCache>>
  BY Zenon DEF UpdatePool
<1>3. Coherent' /\ Sound'
  BY Zenon, <1>2, WritesCoherent, StillRecedes, RecedingSound
<1>4. ASSUME Goto(w, "allocated") PROVE WorkSound(w)'
  <2>1. /\ work'[w].pc = "allocated" /\ work'[w].claim = work[w].claim
        /\ work'[w].pool = work[w].pool /\ work'[w].val = work[w].val
    BY Zenon, <1>4, Moves
  <2>2. ChosenSound(w)'
    <3>1. Takeable(work[w].claim, work[w].pool, work[w].val)
      BY Zenon, <1>1 DEF WorkSound, ChosenSound
    <3>2. Takeable(work[w].claim, work[w].pool, work[w].val)'
      BY Zenon, <1>2, <2>1, <3>1 DEF Takeable, Live
    <3>3. QED
      BY Zenon, <3>2 DEF ChosenSound
  <2>3. LeaseSound(w)'
    BY ZenonT(30), <1>1, <1>2, <2>1 DEF WorkSound, LeaseSound
  <2>4. QED
    BY Zenon, <2>1, <2>2, <2>3 DEF WorkSound, HeldSound, ReleaseSound
<1>5. Goto(w, "allocated") \/ Conflict(w, "read")
  BY Zenon DEF UpdatePool
<1>6. QED
  BY Zenon, <1>3, <1>4, <1>5, Moves, QuietSound

(* Reporting a value that is the claim's to take.  Only the claim's own    *)
(* lease can hold it, and then the claim holds that lease.                 *)
LEMMA ReportingSound ==
    ASSUME TypeOK, Sound, NEW c \in Claims, NEW p, NEW v, Takeable(c, p, v), NEW r,
           WriteClaim(c, r), UNCHANGED leases, r.val = v, r.up,
           LET l == leases[LeaseNameFor[c]] IN
               l.up /\ l.pool = p /\ l.val = v
                   => Sole(LeaseNameFor[c]) \/ (l.claim = c /\ ~l.released)
    PROVE  Sound'
<1> DEFINE k == LeaseNameFor[c]
<1>1. k \in Leases /\ p \in Pools /\ p \in Refs(c) /\ v \in Space[p] /\ v # 0
  BY Zenon, ConstantsAssumption, RefsArePools, SpacePositive DEF Takeable
<1>2. \A d \in Claims : claims'[d] = IF d = c THEN r ELSE claims[d]
  BY Zenon DEF TypeOK, WriteClaim
<1>3. ClaimsSound' /\ DeletingSound'
  BY Zenon, <1>1, <1>2 DEF Sound, ClaimsSound, DeletingSound
<1>4. LeasesSound' /\ LeasesDistinct'
  BY Zenon DEF Sound, LeasesSound, LeasesDistinct
<1>5. ASSUME NEW j \in Leases, leases[j].up, leases[j].val = v, leases[j].pool \in Refs(c)
      PROVE  j = k /\ leases[j].pool = p
  <2>1. leases[j].pool = p
    <3>1. v \in Space[leases[j].pool] /\ Compete(c, c)
      BY Zenon, <1>1, <1>5 DEF Sound, LeasesSound, Compete
    <3>2. QED
      BY <1>1, <1>5, <3>1, OnePoolSpans
  <2>2. QED
    BY Zenon, <1>5, <2>1 DEF Takeable
<1>6. ReservedForKey'
  BY Zenon, <1>2, <1>5 DEF Sound, ReservedForKey
<1>7. LiveHolds'
  <2>1. ASSUME NEW d \in Claims, NEW j \in Leases, Live(d)', leases[j].up,
               leases[j].pool \in Refs(d), leases[j].val = claims'[d].val
        PROVE  Sole(j) \/ (leases[j].claim = d /\ ~leases[j].released)
    <3>1. CASE d = c
      BY Zenon, <1>2, <1>5, <2>1, <3>1
    <3>2. CASE d # c
      BY Zenon, <1>2, <2>1, <3>2 DEF Sound, LiveHolds, Live
    <3>3. QED
      BY Zenon, <3>1, <3>2
  <2>2. QED
    BY Zenon, <2>1 DEF LiveHolds
<1>8. ASSUME NEW d \in Claims \ {c}, Compete(c, d), claims[d].val = v
      PROVE  LeaseNameFor[d] = k /\ ~Live(d)
  <2>1. PICK q \in Refs(d) : v \in Space[q]
    BY Zenon, <1>1, <1>8 DEF Sound, ClaimsSound
  <2>2. p = q
    BY Zenon, <1>1, <1>8, <2>1, OnePoolSpans
  <2>3. QED
    BY Zenon, <1>8, <2>1, <2>2 DEF Takeable
<1>9. Handover'
  <2>1. \A a, b \in Claims : Compete(a, b) => Compete(b, a)
    BY Zenon DEF Compete
  <2>2. \A d \in Claims \ {c} : Live(d)' <=> Live(d)
    BY Zenon, <1>2 DEF Live
  <2>3. ASSUME NEW a \in Claims, NEW b \in Claims, a # b, Compete(a, b),
               claims'[a].val # 0, claims'[a].val = claims'[b].val
        PROVE  LeaseNameFor[a] = LeaseNameFor[b] /\ ~(Live(a)' /\ Live(b)')
    <3>1. CASE a = c
      <4>1. b \in Claims \ {c} /\ Compete(c, b)
        BY Zenon, <2>3, <3>1
      <4>2. claims'[a] = r /\ claims'[b] = claims[b]
        BY Zenon, <1>2, <3>1, <4>1
      <4>3. claims[b].val = v
        BY Zenon, <2>3, <4>2
      <4>4. LeaseNameFor[b] = k /\ ~Live(b)
        BY Zenon, <1>8, <4>1, <4>3
      <4>5. ~Live(b)'
        BY Zenon, <2>2, <4>1, <4>4
      <4>6. QED
        BY Zenon, <3>1, <4>4, <4>5
    <3>2. CASE b = c
      <4>1. a \in Claims \ {c} /\ Compete(c, a)
        BY Zenon, <2>1, <2>3, <3>2
      <4>2. claims'[b] = r /\ claims'[a] = claims[a]
        BY Zenon, <1>2, <3>2, <4>1
      <4>3. claims[a].val = v
        BY Zenon, <2>3, <4>2
      <4>4. LeaseNameFor[a] = k /\ ~Live(a)
        BY Zenon, <1>8, <4>1, <4>3
      <4>5. ~Live(a)'
        BY Zenon, <2>2, <4>1, <4>4
      <4>6. QED
        BY Zenon, <3>2, <4>4, <4>5
    <3>3. CASE a # c /\ b # c
      <4>1. a \in Claims \ {c} /\ b \in Claims \ {c}
        BY Zenon, <3>3
      <4>2. claims'[a] = claims[a] /\ claims'[b] = claims[b]
        BY Zenon, <1>2, <3>3
      <4>3. LeaseNameFor[a] = LeaseNameFor[b] /\ ~(Live(a) /\ Live(b))
        BY Zenon, <2>3, <4>2 DEF Sound, Handover
      <4>4. QED
        BY Zenon, <2>2, <4>1, <4>3
    <3>4. QED
      BY Zenon, <3>1, <3>2, <3>3
  <2>4. QED
    BY Zenon, <2>3 DEF Handover
<1>10. QED
  BY Zenon, <1>3, <1>4, <1>6, <1>7, <1>9 DEF Sound

LEMMA updateStatusAllocatedSafe ==
    ASSUME IInv, NEW w \in Workers, updateStatusAllocated(w)
    PROVE  Coherent' /\ Sound' /\ WorkSound(w)'
<1> USE DEF IInv, TInv
<1> DEFINE c == work[w].claim
           v == work[w].val
           r == [claimCache[c] EXCEPT !.status = "Allocated", !.val = v, !.observed = TRUE]
<1>0. updateStatus(w, "allocated", "read", "Allocated", v)
  BY Zenon DEF updateStatusAllocated
<1>1. work[w].pc = "allocated" /\ c \in Claims /\ claimCache[c] \in Claim
  BY Zenon, <1>0 DEF updateStatus, TypeOK
<1>2. UNCHANGED <<leases, claimCache, leaseCache, leaseRv>>
  BY Zenon, <1>0 DEF updateStatus
<1>3. \/ WriteClaim(c, r) /\ claimCache[c].up
      \/ UNCHANGED <<claims, claimRv>>
  BY Zenon, <1>0 DEF updateStatus
<1>4. r \in Claim
  <2>1. v \in Value \cup {0} /\ "Allocated" \in Status
    BY Zenon, WorkWrites DEF TypeOK, Status
  <2> HIDE DEF v, c
  <2>2. QED
    BY Zenon, <1>1, <2>1, ClaimWrites
<1>5. r.val = v /\ r.up = claimCache[c].up
  BY Zenon, <1>1 DEF Claim
<1>6. Coherent'
  <2> HIDE DEF r
  <2> QED BY Zenon, <1>1, <1>2, <1>3, <1>4, WritesCoherent
<1>7. Sound'
  <2>1. Takeable(c, work[w].pool, v)
    BY Zenon, <1>1 DEF WorkSound, ChosenSound
  <2>2. LET l == leases[LeaseNameFor[c]] IN
            l.up /\ l.pool = work[w].pool /\ l.val = v
                => Sole(LeaseNameFor[c]) \/ (l.claim = c /\ ~l.released)
    BY Zenon, <1>1 DEF WorkSound, LeaseSound
  <2> HIDE DEF r, c, v
  <2>3. CASE WriteClaim(c, r) /\ claimCache[c].up
    BY Zenon, <1>1, <1>2, <1>5, <2>1, <2>2, <2>3, ReportingSound
  <2>4. CASE UNCHANGED claims
    BY Zenon, <1>2, <2>4, StillRecedes, RecedingSound
  <2>5. QED
    BY Zenon, <1>3, <2>3, <2>4
<1>8. Quiet(w)'
  BY Zenon, <1>0, Moves DEF updateStatus
<1>9. QED
  BY Zenon, <1>6, <1>7, <1>8, QuietSound

LEMMA releaseLeaseSafe ==
    ASSUME IInv, SoleOrCaught, NEW w \in Workers, releaseLease(w)
    PROVE  Coherent' /\ Sound' /\ WorkSound(w)'
<1> USE DEF IInv, TInv
<1> DEFINE c == work[w].claim
           k == LeaseNameFor[c]
           l == [leases[k] EXCEPT !.released = TRUE]
<1>1. c \in Claims /\ k \in Leases /\ leases[k] \in Lease /\ work[w].pc = "release"
  BY Zenon, ConstantsAssumption DEF releaseLease, TypeOK
<1>2. UNCHANGED <<claims, claimRv, claimCache, leaseCache>>
  BY Zenon DEF releaseLease
<1>3. \/ UNCHANGED <<leases, leaseRv>>
      \/ RemoveLease(k)
      \/ WriteLease(k, l) /\ leaseRv[k] /\ leaseCache[k].up /\ leaseCache[k].claim = c
  BY Zenon DEF releaseLease, leaseOwnedByClaim
<1>4. l \in Lease /\ l.pool = leases[k].pool /\ l.val = leases[k].val /\ l.claim = leases[k].claim
  BY Zenon, <1>1, LeaseWrites DEF Lease
<1>5. Coherent'
  <2> HIDE DEF l, k
  <2> QED BY Zenon, <1>1, <1>2, <1>3, <1>4, WritesCoherent
<1>6. Sound'
  <2> HIDE DEF l
  <2>1. CASE UNCHANGED leases
    BY Zenon, <1>2, <2>1, StillRecedes, RecedingSound
  <2>2. CASE RemoveLease(k)
    BY Zenon, <1>1, <1>2, <2>2, RemovalRecedes, RecedingSound
  <2>3. CASE WriteLease(k, l) /\ leaseRv[k] /\ leaseCache[k].up /\ leaseCache[k].claim = c
    <3>1. leases[k].up /\ leases[k].claim = c
      BY Zenon, <1>1, <2>3 DEF Coherent
    <3>2. Sole(k) \/ ~Live(c)
      BY Zenon, <1>1 DEF WorkSound, ReleaseSound, SoleOrCaught, Live
    <3>3. Sole(k) \/ \A d \in Claims : Live(d) => leases[k].claim # d
      BY Zenon, <3>1, <3>2
    <3> HIDE DEF k
    <3>4. QED
      BY Zenon, <1>1, <1>2, <1>4, <2>3, <3>1, <3>3, RewriteSound
  <2>4. QED
    BY Zenon, <1>3, <2>1, <2>2, <2>3
<1>7. ASSUME Goto(w, "unfinalize") PROVE WorkSound(w)'
  <2>1. work'[w].pc = "unfinalize" /\ work'[w].claim = c
    BY Zenon, <1>7, Moves
  <2>2. ReleaseSound(w)'
    BY Zenon, <1>1, <1>2, <2>1 DEF WorkSound, ReleaseSound
  <2>3. QED
    BY Zenon, <2>1, <2>2 DEF WorkSound, HeldSound, ChosenSound, LeaseSound
<1>8. Goto(w, "unfinalize") \/ Failed(w)
  BY Zenon DEF releaseLease
<1>9. QED
  BY Zenon, <1>5, <1>6, <1>7, <1>8, Moves, QuietSound

-----------------------------------------------------------------------------
LEMMA ReconcileSafe ==
    ASSUME IInv, SoleOrCaught, NEW w \in Workers, Reconcile(w)
    PROVE  Coherent' /\ Sound' /\ WorkSound(w)'
<1>1. CASE updateStatusPending(w)
  <2>1. work[w].why \in Status /\ {"fail", "read"} \subseteq Pc
    BY Zenon, WorkWrites DEF IInv, TInv, TypeOK, Pc
  <2>2. updateStatus(w, "fail", "read", work[w].why, 0)
    BY Zenon, <1>1 DEF updateStatusPending
  <2>3. QED
    BY Zenon, <2>1, <2>2, updateStatusSafe
<1>2. CASE updateStatusFailed(w)
  <2>1. "Failed" \in Status /\ "reject" \in Pc
    BY Zenon DEF Pc, Status
  <2>2. updateStatus(w, "reject", "reject", "Failed", 0)
    BY Zenon, <1>2 DEF updateStatusFailed
  <2>3. QED
    BY Zenon, <2>1, <2>2, updateStatusSafe
<1>3. QED
  BY Zenon, <1>1, <1>2, StartSafe, AddFinalizerSafe, reconcileLeaseSafe, ensureOwnerExistsSafe,
     ReadFreshSafe, allocateSafe, ensureLeaseSafe, UpdatePoolSafe, updateStatusAllocatedSafe,
     releaseLeaseSafe, removeFinalizerSafe DEF Reconcile

LEMMA InitSafe == Init => IInv
<1> SUFFICES ASSUME Init PROVE IInv
  BY Zenon
<1>1. TInv
  BY Zenon, InitTyped
<1>2. Coherent
  BY Zenon DEF Init, Coherent
<1>3. /\ \A c \in Claims : ~claims[c].up /\ ~claims[c].deleting /\ claims[c].val = 0
      /\ \A k \in Leases : ~leases[k].up
      /\ \A w \in Workers : work[w].pc = "idle"
  BY Zenon DEF Init, NoClaim, NoLease, Idle
<1>4. Sound
  BY Zenon, <1>3 DEF Sound, ClaimsSound, DeletingSound, LeasesSound, LeasesDistinct,
     ReservedForKey, LiveHolds, Handover, Live
<1>5. \A w \in Workers : WorkSound(w)
  BY Zenon, <1>3 DEF WorkSound, HeldSound, ChosenSound, LeaseSound, ReleaseSound
<1>6. QED
  BY Zenon, <1>1, <1>2, <1>4, <1>5 DEF IInv

LEMMA StepSafe ==
    ASSUME OneWorker, SoleOrCaught, IInv, [Next]_vars
    PROVE  IInv'
<1>1. TInv'
  BY Zenon, StepTyped DEF IInv
<1>2. CASE UNCHANGED vars
  <2>1. UNCHANGED <<claims, claimRv, claimCache, leases, leaseRv, leaseCache, work>>
    BY Zenon, <1>2 DEF vars
  <2>2. Coherent'
    BY Zenon, <2>1 DEF IInv, Coherent
  <2>3. Receding
    BY Zenon, <2>1, StillRecedes DEF IInv
  <2>4. \A w \in Workers : WorkSound(w)'
    BY Zenon, <2>1, <2>3, RecedingWork DEF IInv
  <2>5. QED
    BY Zenon, <1>1, <2>2, <2>3, <2>4, RecedingSound DEF IInv
<1>3. CASE \E w \in Workers : Reconcile(w)
  <2>1. PICK w \in Workers : Reconcile(w)
    BY Zenon, <1>3
  <2>2. \A x \in Workers : x = w
    BY Zenon DEF OneWorker
  <2>3. Coherent' /\ Sound' /\ WorkSound(w)'
    BY Zenon, <2>1, ReconcileSafe
  <2>4. \A x \in Workers : WorkSound(x)'
    BY Zenon, <2>2, <2>3
  <2>5. QED
    BY Zenon, <1>1, <2>3, <2>4 DEF IInv
<1>4. CASE \/ \E c \in Claims : User(c)
           \/ \E p \in Pools : CreatePool(p) \/ ValidatePool(p)
           \/ Inform \/ Reap \/ Restart
  BY Zenon, <1>1, <1>4, EnvironmentSafe DEF IInv
<1>5. QED
  BY Zenon, <1>2, <1>3, <1>4 DEF Next

(* With one worker, and with caches that lag only where no two claims      *)
(* share a lease name, no two live claims that compete for a pool ever     *)
(* report the same value: what allocate, ensureLease and updateStatus      *)
(* promise together.                                                       *)
THEOREM ValuesUnique ==
    ASSUME OneWorker, SoleOrCaught
    PROVE  Spec => []UniqueValues
<1>1. Init => IInv
  BY Zenon, InitSafe
<1>2. IInv /\ [Next]_vars => IInv'
  BY Zenon, StepSafe
<1>3. IInv => UniqueValues
  BY Zenon DEF IInv, Sound, Handover, UniqueValues
<1>4. QED
  BY <1>1, <1>2, <1>3, PTL DEF Spec

(* Under the same assumptions the value of a lease, whether it is held or  *)
(* released and waiting for its claim to return (handleDeletion, allocate, *)
(* the reaper), is reported only by a claim of the lease's own name.       *)
THEOREM ReservesKept ==
    ASSUME OneWorker, SoleOrCaught
    PROVE  Spec => []ReservedForKey
<1>1. Init => IInv
  BY Zenon, InitSafe
<1>2. IInv /\ [Next]_vars => IInv'
  BY Zenon, StepSafe
<1>3. IInv => ReservedForKey
  BY Zenon DEF IInv, Sound
<1>4. QED
  BY <1>1, <1>2, <1>3, PTL DEF Spec

(***************************************************************************)
(* Allocation implements Allocator, under the same two facts.  The         *)
(* inductive invariant has the guards of Allocator in it (Takeable); one   *)
(* thing has to be added, that nothing is left of a lease that went.       *)
(***************************************************************************)
(* A lease that does not exist reserves nothing.                           *)
Cleared == \A k \in Leases : ~leases[k].up => leases[k] = NoLease

RInv == IInv /\ Cleared

-----------------------------------------------------------------------------
(* What the writes of the API server do to the state Allocator sees.       *)

LEMMA ClaimMoves ==
    ASSUME TypeOK, NEW c \in Claims, NEW r, WriteClaim(c, r)
    PROVE  /\ Lives' = [Lives EXCEPT ![c] = LifeOf(r)]
           /\ Given' = [Given EXCEPT ![c] = r.val]
<1>1. \A d \in Claims : claims'[d] = IF d = c THEN r ELSE claims[d]
  BY Zenon DEF TypeOK, WriteClaim
<1>2. QED
  BY Zenon, <1>1 DEF Lives, Given

LEMMA ClaimsRest ==
    ASSUME UNCHANGED claims
    PROVE  UNCHANGED <<Lives, Given>>
  BY Zenon DEF Lives, Given

LEMMA LeaseMoves ==
    ASSUME TypeOK, NEW k \in Leases, NEW l, WriteLease(k, l)
    PROVE  Reserved' = [Reserved EXCEPT ![k] = <<l.pool, l.val>>]
<1>1. \A j \in Leases : leases'[j] = IF j = k THEN l ELSE leases[j]
  BY Zenon DEF TypeOK, WriteLease
<1>2. QED
  BY Zenon, <1>1 DEF Reserved

LEMMA LeasesRest ==
    ASSUME UNCHANGED leases
    PROVE  UNCHANGED Reserved
  BY Zenon DEF Reserved

(* A lease that is deleted expires.                                        *)
LEMMA RemovalExpires ==
    ASSUME TypeOK, NEW k \in Leases, RemoveLease(k), UNCHANGED claims
    PROVE  A!Next
<1>1. \A j \in Leases : leases'[j] = IF j = k THEN NoLease ELSE leases[j]
  BY Zenon DEF TypeOK, RemoveLease
<1>2. NoLease.pool = None /\ NoLease.val = 0
  BY Zenon DEF NoLease
<1>3. Reserved' = [Reserved EXCEPT ![k] = A!Nothing]
  BY Zenon, <1>1, <1>2 DEF Reserved, A!Nothing
<1>4. A!Expire(k)
  BY Zenon, <1>3, ClaimsRest DEF A!Expire
<1>5. QED
  BY Zenon, <1>4 DEF A!Next

(* A claim that does not exist reports nothing.                            *)
LEMMA GoneReportsNothing ==
    ASSUME Sound, NEW c \in Claims, ~claims[c].up
    PROVE  Given[c] = 0 /\ Lives[c] = "absent"
  BY Zenon DEF Sound, ClaimsSound, Given, Lives, LifeOf

(* A claim goes, or had gone.                                              *)
LEMMA RemovalGoes ==
    ASSUME TypeOK, Sound, NEW c \in Claims, WriteClaim(c, NoClaim), UNCHANGED leases
    PROVE  [A!Next]_A!vars
<1>1. Lives' = [Lives EXCEPT ![c] = "absent"] /\ Given' = [Given EXCEPT ![c] = 0]
  BY ClaimMoves DEF NoClaim, LifeOf
<1>2. CASE claims[c].up
  <2>1. Lives[c] # "absent"
    BY Zenon, <1>2 DEF Lives, LifeOf
  <2>2. A!Go(c)
    BY Zenon, <1>1, <2>1, LeasesRest DEF A!Go
  <2>3. QED
    BY Zenon, <2>2 DEF A!Next
<1>3. CASE ~claims[c].up
  <2>1. Given[c] = 0 /\ Lives[c] = "absent"
    BY Zenon, <1>3, GoneReportsNothing
  <2>2. UNCHANGED <<Lives, Given>>
    BY Zenon, <1>1, <2>1 DEF Lives, Given
  <2>3. QED
    BY Zenon, <2>2, LeasesRest DEF A!vars
<1>4. QED
  BY Zenon, <1>2, <1>3

(* A write that changes neither life nor value is a stutter.               *)
LEMMA SameClaim ==
    ASSUME TypeOK, NEW c \in Claims, NEW r, WriteClaim(c, r), UNCHANGED leases,
           LifeOf(r) = LifeOf(claims[c]), r.val = claims[c].val
    PROVE  UNCHANGED A!vars
<1>1. \A d \in Claims : claims'[d] = IF d = c THEN r ELSE claims[d]
  BY Zenon DEF TypeOK, WriteClaim
<1>2. \A d \in Claims : LifeOf(claims'[d]) = LifeOf(claims[d]) /\ claims'[d].val = claims[d].val
  BY Zenon, <1>1
<1>3. Lives' = Lives /\ Given' = Given
  BY Zenon, <1>2 DEF Lives, Given
<1>4. QED
  BY Zenon, <1>3, LeasesRest DEF A!vars

LEMMA SameLease ==
    ASSUME TypeOK, NEW k \in Leases, NEW l, WriteLease(k, l), UNCHANGED claims,
           l.pool = leases[k].pool, l.val = leases[k].val
    PROVE  UNCHANGED A!vars
<1>1. Reserved' = Reserved
  BY ZenonT(30), LeaseMoves DEF Reserved
<1>2. QED
  BY Zenon, <1>1, ClaimsRest DEF A!vars

LEMMA Rest ==
    ASSUME UNCHANGED <<claims, leases>>
    PROVE  UNCHANGED A!vars
  BY Zenon, ClaimsRest, LeasesRest DEF A!vars

-----------------------------------------------------------------------------
(* Nothing is left of a lease that went.                                   *)

LEMMA WritesClear ==
    ASSUME TypeOK, Cleared,
           \/ UNCHANGED leases
           \/ \E k \in Leases, l \in Lease : l.up /\ WriteLease(k, l)
           \/ \E k \in Leases : RemoveLease(k)
    PROVE  Cleared'
<1>1. CASE UNCHANGED leases
  BY Zenon, <1>1 DEF Cleared
<1>2. ASSUME NEW k \in Leases, NEW l \in Lease, l.up, WriteLease(k, l)
      PROVE  Cleared'
  <2>1. \A j \in Leases : leases'[j] = IF j = k THEN l ELSE leases[j]
    BY Zenon, <1>2 DEF TypeOK, WriteLease
  <2>2. QED
    BY Zenon, <1>2, <2>1 DEF Cleared
<1>3. ASSUME NEW k \in Leases, RemoveLease(k)
      PROVE  Cleared'
  <2>1. \A j \in Leases : leases'[j] = IF j = k THEN NoLease ELSE leases[j]
    BY Zenon, <1>3 DEF TypeOK, RemoveLease
  <2>2. QED
    BY Zenon, <2>1 DEF Cleared
<1>4. QED
  BY Zenon, <1>1, <1>2, <1>3

-----------------------------------------------------------------------------
(* The steps that give and reserve values.                                 *)

(* Nobody of another name has a say in a value that is the claim's to take.*)
LEMMA TakeableUnclaimed ==
    ASSUME TypeOK, Sound, Cleared, NEW c \in Claims, NEW p, NEW v, Takeable(c, p, v)
    PROVE  /\ A!Unclaimed(LeaseNameFor[c], p, v)
           /\ p \in Listed[c] /\ v \in Space[p]
           /\ \A d \in Claims \ {c} : p \in Listed[d] /\ Given[d] = v => Lives[d] # "live"
<1> DEFINE k == LeaseNameFor[c]
<1>1. p \in Pools /\ v \in Space[p] /\ v # 0
  BY Zenon, RefsArePools, SpacePositive DEF Takeable
<1>2. \A d \in Claims : Listed[d] = Refs(d) /\ Given[d] = claims[d].val
                        /\ (Lives[d] = "live" => Live(d))
  BY Zenon DEF Listed, Given, Lives, LifeOf, Live
<1>3. ASSUME NEW j \in Leases \ {k}
      PROVE  Reserved[j] # <<p, v>>
  <2>1. Reserved[j] = <<leases[j].pool, leases[j].val>>
    BY Zenon DEF Reserved
  <2>2. CASE leases[j].up
    BY <2>1, <2>2 DEF Takeable
  <2>3. CASE ~leases[j].up
    <3>1. leases[j].val = 0
      BY <2>3 DEF Cleared, NoLease
    <3>2. QED
      BY <1>1, <2>1, <3>1
  <2>4. QED
    BY Zenon, <2>2, <2>3
<1>4. \A d \in Claims \ {c} : p \in Listed[d] /\ Given[d] = v
          => LeaseNameFor[d] = k /\ Lives[d] # "live"
  BY Zenon, <1>2 DEF Takeable
<1>5. A!Unclaimed(k, p, v)
  BY Zenon, <1>1, <1>3, <1>4 DEF A!Unclaimed
<1>6. QED
  BY Zenon, <1>1, <1>2, <1>4, <1>5 DEF Takeable

(* The first write of a lease reserves its value.                          *)
LEMMA FirstWriteReserves ==
    ASSUME TypeOK, Sound, Cleared, NEW c \in Claims, NEW l, Takeable(c, l.pool, l.val),
           ~leases[LeaseNameFor[c]].up, WriteLease(LeaseNameFor[c], l), UNCHANGED claims
    PROVE  A!Next
<1> DEFINE k == LeaseNameFor[c]
<1>1. k \in Leases
  BY Zenon, ConstantsAssumption
<1>2. Reserved[k] = A!Nothing
  BY <1>1 DEF Reserved, Cleared, NoLease, A!Nothing
<1>3. Reserved' = [Reserved EXCEPT ![k] = <<l.pool, l.val>>]
  BY Zenon, <1>1, LeaseMoves
<1>4. l.pool \in Listed[c] /\ l.val \in Space[l.pool] /\ A!Unclaimed(k, l.pool, l.val)
  BY Zenon, TakeableUnclaimed
<1>5. UNCHANGED <<Lives, Given>>
  BY Zenon, ClaimsRest
<1> HIDE DEF k
<1>6. A!Reserve(k)
  BY Zenon, <1>2, <1>3, <1>4, <1>5 DEF A!Reserve, k
<1>7. QED
  BY Zenon, <1>1, <1>6 DEF A!Next

(* The write of an allocated status gives the claim its value.             *)
LEMMA StatusGives ==
    ASSUME TypeOK, Sound, Cleared, NEW c \in Claims, NEW p, NEW r, Takeable(c, p, r.val),
           claims[c].up, WriteClaim(c, r), LifeOf(r) = LifeOf(claims[c]), UNCHANGED leases
    PROVE  A!Next
<1>1. Lives' = [Lives EXCEPT ![c] = Lives[c]] /\ Given' = [Given EXCEPT ![c] = r.val]
  <2>1. Lives[c] = LifeOf(claims[c])
    BY Zenon DEF Lives
  <2>2. QED
    BY Zenon, <2>1, ClaimMoves
<1>2. Lives' = Lives /\ Lives[c] # "absent"
  BY Zenon, <1>1 DEF Lives, LifeOf
<1>3. /\ A!Unclaimed(LeaseNameFor[c], p, r.val)
      /\ p \in Listed[c] /\ r.val \in Space[p]
      /\ \A d \in Claims \ {c} : p \in Listed[d] /\ Given[d] = r.val => Lives[d] # "live"
  BY Zenon, TakeableUnclaimed
<1>4. A!Give(c)
  BY Zenon, <1>1, <1>2, <1>3, LeasesRest DEF A!Give
<1>5. QED
  BY Zenon, <1>4 DEF A!Next

(* The write of another status takes the value back.                       *)
LEMMA StatusTakesBack ==
    ASSUME TypeOK, NEW c \in Claims, NEW r, r.val = 0, WriteClaim(c, r),
           LifeOf(r) = LifeOf(claims[c]), UNCHANGED leases
    PROVE  A!Next
<1>1. Lives' = [Lives EXCEPT ![c] = Lives[c]] /\ Given' = [Given EXCEPT ![c] = 0]
  <2>1. Lives[c] = LifeOf(claims[c])
    BY Zenon DEF Lives
  <2>2. QED
    BY Zenon, <2>1, ClaimMoves
<1>2. Lives' = Lives
  BY Zenon, <1>1 DEF Lives
<1>3. A!TakeBack(c)
  BY Zenon, <1>1, <1>2, LeasesRest DEF A!TakeBack
<1>4. QED
  BY Zenon, <1>3 DEF A!Next

-----------------------------------------------------------------------------
(* Every step is a step of Allocator or leaves its state alone.            *)

LEMMA UserImplements ==
    ASSUME RInv, NEW c \in Claims, User(c)
    PROVE  [A!Next]_A!vars /\ UNCHANGED leases
<1> USE DEF RInv, IInv, TInv
<1>1. claims[c] \in Claim
  BY Zenon DEF TypeOK
<1>2. CASE CreateClaim(c)
  <2> DEFINE r == [NoClaim EXCEPT !.up = TRUE, !.uid = births']
  <2>1. WriteClaim(c, r) /\ ~claims[c].up /\ UNCHANGED leases
    BY Zenon, <1>2 DEF CreateClaim
  <2>2. LifeOf(r) = "live" /\ r.val = 0
    BY Zenon DEF NoClaim, LifeOf
  <2> HIDE DEF r
  <2>3. Lives' = [Lives EXCEPT ![c] = "live"] /\ Given' = [Given EXCEPT ![c] = 0]
    BY Zenon, <2>1, <2>2, ClaimMoves
  <2>4. Given[c] = 0 /\ Lives[c] = "absent"
    BY Zenon, <2>1, GoneReportsNothing
  <2>5. Given' = Given
    BY Zenon, <2>3, <2>4 DEF Given
  <2>6. A!Ask(c)
    BY Zenon, <2>1, <2>3, <2>4, <2>5, LeasesRest DEF A!Ask
  <2>7. QED
    BY Zenon, <2>1, <2>6 DEF A!Next
<1>3. CASE DeleteClaim(c) /\ claims[c].fin
  <2> DEFINE r == [claims[c] EXCEPT !.deleting = TRUE]
  <2>1. WriteClaim(c, r) /\ claims[c].up /\ ~claims[c].deleting /\ UNCHANGED leases
    BY Zenon, <1>3 DEF DeleteClaim
  <2>2. LifeOf(r) = "leaving" /\ r.val = claims[c].val
    BY Zenon, <1>1, <2>1 DEF Claim, LifeOf
  <2> HIDE DEF r
  <2>3. Lives' = [Lives EXCEPT ![c] = "leaving"] /\ Given' = [Given EXCEPT ![c] = claims[c].val]
    BY <2>1, <2>2, ClaimMoves
  <2>4. Lives[c] = "live"
    BY Zenon, <2>1 DEF Lives, LifeOf
  <2>5. Given' = Given
    BY Zenon, <2>3 DEF Given
  <2>6. A!Retire(c)
    BY Zenon, <2>1, <2>3, <2>4, <2>5, LeasesRest DEF A!Retire
  <2>7. QED
    BY Zenon, <2>1, <2>6 DEF A!Next
<1>4. CASE DeleteClaim(c) /\ ~claims[c].fin
  <2>1. WriteClaim(c, NoClaim) /\ UNCHANGED leases
    BY Zenon, <1>4 DEF DeleteClaim
  <2>2. QED
    BY Zenon, <2>1, RemovalGoes
<1>5. CASE UpdateSpec(c)
  <2> DEFINE r == [claims[c] EXCEPT !.observed = FALSE]
  <2>1. WriteClaim(c, r) /\ UNCHANGED leases
    BY Zenon, <1>5 DEF UpdateSpec
  <2>2. LifeOf(r) = LifeOf(claims[c]) /\ r.val = claims[c].val
    BY Zenon, <1>1 DEF Claim, LifeOf
  <2> HIDE DEF r
  <2>3. QED
    BY Zenon, <2>1, <2>2, SameClaim
<1>6. QED
  BY Zenon, <1>2, <1>3, <1>4, <1>5 DEF User

(* Only the reaper changes what Allocator sees, of what is not a claim's   *)
(* user or a Reconcile call.                                               *)
LEMMA BackgroundImplements ==
    ASSUME RInv,
           \/ \E p \in Pools : CreatePool(p) \/ ValidatePool(p)
           \/ Inform \/ Reap \/ Restart
    PROVE  /\ [A!Next]_A!vars
           /\ UNCHANGED leases \/ \E k \in Leases : RemoveLease(k)
<1> USE DEF RInv, IInv, TInv
<1>1. CASE UNCHANGED <<claims, leases>>
  BY Zenon, <1>1, Rest
<1>2. ASSUME NEW k \in Leases, RemoveLease(k), UNCHANGED claims
      PROVE  [A!Next]_A!vars
  BY Zenon, <1>2, RemovalExpires
<1>3. \/ UNCHANGED <<claims, leases>>
      \/ \E k \in Leases : RemoveLease(k) /\ UNCHANGED claims
  BY Zenon DEF CreatePool, ValidatePool, Inform, InformClaim, InformLease, Reap, FindExpired,
     DeleteExpired, Restart
<1>4. QED
  BY Zenon, <1>1, <1>2, <1>3

LEMMA updateStatusImplements ==
    ASSUME RInv, NEW w \in Workers, NEW pc, pc # "idle", NEW retry, NEW st, NEW v,
           updateStatus(w, pc, retry, st, v),
           v = 0 \/ Takeable(work[w].claim, work[w].pool, v)
    PROVE  [A!Next]_A!vars /\ UNCHANGED leases
<1> USE DEF RInv, IInv, TInv
<1> DEFINE c == work[w].claim
           r == [claimCache[c] EXCEPT !.status = st, !.val = v, !.observed = TRUE]
<1>1. c \in Claims /\ claimCache[c] \in Claim /\ UNCHANGED leases
  BY Zenon DEF updateStatus, TypeOK
<1>2. \/ UNCHANGED claims
      \/ WriteClaim(c, r) /\ "cache" \in claimRv[c] /\ claimCache[c].up
  BY Zenon DEF updateStatus
<1>3. r.val = v /\ r.up = claimCache[c].up /\ r.deleting = claimCache[c].deleting
  BY Zenon, <1>1 DEF Claim
<1>4. CASE UNCHANGED claims
  BY Zenon, <1>1, <1>4, Rest
<1>5. CASE WriteClaim(c, r) /\ "cache" \in claimRv[c] /\ claimCache[c].up
  <2>1. claimCache[c] = claims[c]
    BY Zenon, <1>1, <1>5 DEF Coherent
  <2>2. claims[c].up /\ LifeOf(r) = LifeOf(claims[c])
    BY Zenon, <1>3, <1>5, <2>1 DEF LifeOf
  <2> HIDE DEF r, c
  <2>3. CASE v = 0
    BY Zenon, <1>1, <1>3, <1>5, <2>2, <2>3, StatusTakesBack
  <2>4. CASE Takeable(c, work[w].pool, v)
    BY Zenon, <1>1, <1>3, <1>5, <2>2, <2>4, StatusGives
  <2>5. QED
    BY Zenon, <1>1, <2>3, <2>4 DEF c
<1>6. QED
  BY Zenon, <1>2, <1>4, <1>5

LEMMA ensureLeaseImplements ==
    ASSUME RInv, NEW w \in Workers, ensureLease(w)
    PROVE  /\ [A!Next]_A!vars
           /\ UNCHANGED leases \/ \E k \in Leases, l \in Lease : l.up /\ WriteLease(k, l)
<1> USE DEF RInv, IInv, TInv
<1> DEFINE c == work[w].claim
           k == LeaseNameFor[c]
           want == [up |-> TRUE, pool |-> work[w].pool, val |-> work[w].val,
                    claim |-> c, uid |-> work[w].uid, released |-> FALSE]
<1>1. c \in Claims /\ k \in Leases /\ work[w].pc = "lease" /\ UNCHANGED claims
  BY Zenon, ConstantsAssumption DEF ensureLease
<1>2. Takeable(c, work[w].pool, work[w].val)
  BY Zenon, <1>1 DEF WorkSound, ChosenSound
<1>3. want \in Lease
  <2>1. /\ work[w].pool \in Pools \cup {None} /\ work[w].val \in Value \cup {0}
        /\ work[w].uid \in Nat /\ leases[k] \in Lease
    BY Zenon, <1>1, WorkWrites DEF TypeOK
  <2> HIDE DEF c, k
  <2>2. QED
    BY Zenon, <1>1, <2>1, LeaseWrites
<1>4. want.up /\ want.pool = work[w].pool /\ want.val = work[w].val
  BY Zenon
<1>5. \/ UNCHANGED leases
      \/ ~leases[k].up /\ WriteLease(k, want)
      \/ /\ leaseRv[k] /\ WriteLease(k, want)
         /\ leaseCache[k].pool = want.pool /\ leaseCache[k].val = want.val
  BY Zenon DEF ensureLease
<1> HIDE DEF want
<1>6. CASE UNCHANGED leases
  BY Zenon, <1>1, <1>6, Rest
<1>7. CASE ~leases[k].up /\ WriteLease(k, want)
  <2> HIDE DEF c
  <2> QED BY Zenon, <1>1, <1>2, <1>3, <1>4, <1>7, FirstWriteReserves
<1>8. CASE /\ leaseRv[k] /\ WriteLease(k, want)
           /\ leaseCache[k].pool = want.pool /\ leaseCache[k].val = want.val
  <2>1. leaseCache[k] = leases[k]
    BY Zenon, <1>1, <1>8 DEF Coherent
  <2> HIDE DEF k
  <2>2. UNCHANGED A!vars
    BY Zenon, <1>1, <1>8, <2>1, SameLease
  <2>3. QED
    BY Zenon, <1>1, <1>3, <1>4, <1>8, <2>2
<1>9. QED
  BY Zenon, <1>5, <1>6, <1>7, <1>8

LEMMA reconcileLeaseImplements ==
    ASSUME RInv, NEW w \in Workers, reconcileLease(w)
    PROVE  /\ UNCHANGED A!vars
           /\ UNCHANGED leases \/ \E k \in Leases, l \in Lease : l.up /\ WriteLease(k, l)
<1> USE DEF RInv, IInv, TInv
<1> DEFINE c == work[w].claim
           k == LeaseNameFor[c]
           l == [leases[k] EXCEPT !.uid = work[w].uid]
<1>1. c \in Claims /\ k \in Leases /\ leases[k] \in Lease /\ UNCHANGED claims
  BY Zenon, ConstantsAssumption DEF reconcileLease, TypeOK
<1>2. (leases[k].up /\ WriteLease(k, l)) \/ UNCHANGED leases
  BY Zenon DEF reconcileLease
<1>3. l \in Lease
  <2>1. work[w].uid \in Nat
    BY Zenon, WorkWrites DEF TypeOK
  <2>2. QED
    BY Zenon, <1>1, <2>1, LeaseWrites
<1>4. l.up = leases[k].up /\ l.pool = leases[k].pool /\ l.val = leases[k].val
  BY Zenon, <1>1 DEF Lease
<1> HIDE DEF l, k
<1>5. QED
  BY Zenon, <1>1, <1>2, <1>3, <1>4, SameLease, Rest

LEMMA releaseLeaseImplements ==
    ASSUME RInv, NEW w \in Workers, releaseLease(w)
    PROVE  /\ [A!Next]_A!vars
           /\ \/ UNCHANGED leases
              \/ \E k \in Leases, l \in Lease : l.up /\ WriteLease(k, l)
              \/ \E k \in Leases : RemoveLease(k)
<1> USE DEF RInv, IInv, TInv
<1> DEFINE c == work[w].claim
           k == LeaseNameFor[c]
           l == [leases[k] EXCEPT !.released = TRUE]
<1>1. c \in Claims /\ k \in Leases /\ leases[k] \in Lease /\ UNCHANGED claims
  BY Zenon, ConstantsAssumption DEF releaseLease, TypeOK
<1>2. \/ UNCHANGED leases
      \/ RemoveLease(k)
      \/ WriteLease(k, l) /\ leaseRv[k] /\ leaseCache[k].up
  BY Zenon DEF releaseLease
<1>3. /\ l \in Lease /\ l.up = leases[k].up
      /\ l.pool = leases[k].pool /\ l.val = leases[k].val
  BY Zenon, <1>1, LeaseWrites DEF Lease
<1>4. leaseRv[k] /\ leaseCache[k].up => leases[k].up
  BY Zenon, <1>1 DEF Coherent
<1> HIDE DEF l, k
<1>5. CASE UNCHANGED leases
  BY Zenon, <1>1, <1>5, Rest
<1>6. CASE RemoveLease(k)
  BY Zenon, <1>1, <1>6, RemovalExpires
<1>7. CASE WriteLease(k, l) /\ leaseRv[k] /\ leaseCache[k].up
  BY Zenon, <1>1, <1>3, <1>4, <1>7, SameLease
<1>8. QED
  BY Zenon, <1>2, <1>5, <1>6, <1>7

LEMMA FinalizersImplement ==
    ASSUME RInv, NEW w \in Workers, AddFinalizer(w) \/ removeFinalizer(w)
    PROVE  [A!Next]_A!vars /\ UNCHANGED leases
<1> USE DEF RInv, IInv, TInv
<1> DEFINE c == work[w].claim
           r == [claims[c] EXCEPT !.fin = TRUE]
<1>1. c \in Claims /\ claims[c] \in Claim /\ UNCHANGED leases
  BY Zenon DEF AddFinalizer, removeFinalizer, TypeOK
<1>2. UNCHANGED claims \/ WriteClaim(c, r) \/ WriteClaim(c, NoClaim)
  BY Zenon DEF AddFinalizer, removeFinalizer
<1>3. LifeOf(r) = LifeOf(claims[c]) /\ r.val = claims[c].val
  BY Zenon, <1>1 DEF Claim, LifeOf
<1> HIDE DEF r, c
<1>4. QED
  BY Zenon, <1>1, <1>2, <1>3, Rest, SameClaim, RemovalGoes

LEMMA ReconcileImplements ==
    ASSUME RInv, NEW w \in Workers, Reconcile(w)
    PROVE  /\ [A!Next]_A!vars
           /\ \/ UNCHANGED leases
              \/ \E k \in Leases, l \in Lease : l.up /\ WriteLease(k, l)
              \/ \E k \in Leases : RemoveLease(k)
<1>1. CASE \/ \E c \in Claims : Start(w, c)
           \/ ensureOwnerExists(w) \/ ReadFresh(w) \/ allocate(w) \/ UpdatePool(w)
  <2>1. UNCHANGED <<claims, leases>>
    BY Zenon, <1>1 DEF Start, ensureOwnerExists, ReadFresh, allocate, UpdatePool
  <2>2. QED
    BY Zenon, <2>1, Rest
<1>2. CASE updateStatusAllocated(w)
  <2>1. updateStatus(w, "allocated", "read", "Allocated", work[w].val)
    BY Zenon, <1>2 DEF updateStatusAllocated
  <2>2. Takeable(work[w].claim, work[w].pool, work[w].val)
    BY Zenon, <2>1 DEF updateStatus, RInv, IInv, WorkSound, ChosenSound
  <2>3. QED
    BY Zenon, <2>1, <2>2, updateStatusImplements
<1>3. CASE updateStatusPending(w)
  BY Zenon, <1>3, updateStatusImplements DEF updateStatusPending
<1>4. CASE updateStatusFailed(w)
  BY Zenon, <1>4, updateStatusImplements DEF updateStatusFailed
<1>5. QED
  BY Zenon, <1>1, <1>2, <1>3, <1>4, ensureLeaseImplements, reconcileLeaseImplements,
     releaseLeaseImplements, FinalizersImplement DEF Reconcile

LEMMA StepImplements ==
    ASSUME OneWorker, SoleOrCaught, RInv, [Next]_vars
    PROVE  RInv' /\ [A!Next]_A!vars
<1>1. IInv'
  BY Zenon, StepSafe DEF RInv
<1>2. CASE UNCHANGED vars
  <2>1. UNCHANGED <<claims, leases>>
    BY Zenon, <1>2 DEF vars
  <2>2. QED
    BY Zenon, <1>1, <2>1, Rest DEF RInv, Cleared
<1>3. CASE Next
  <2>1. /\ [A!Next]_A!vars
        /\ \/ UNCHANGED leases
           \/ \E k \in Leases, l \in Lease : l.up /\ WriteLease(k, l)
           \/ \E k \in Leases : RemoveLease(k)
    BY Zenon, <1>3, UserImplements, BackgroundImplements, ReconcileImplements DEF Next
  <2>2. Cleared'
    BY Zenon, <2>1, WritesClear DEF RInv, IInv, TInv
  <2>3. QED
    BY Zenon, <1>1, <2>1, <2>2 DEF RInv
<1>4. QED
  BY Zenon, <1>2, <1>3

LEMMA InitImplements == Init => RInv /\ A!Init
<1> SUFFICES ASSUME Init PROVE RInv /\ A!Init
  BY Zenon
<1>1. RInv
  BY Zenon, InitSafe DEF RInv, Cleared, Init
<1>2. \A c \in Claims : LifeOf(claims[c]) = "absent" /\ claims[c].val = 0
  BY Zenon DEF Init, NoClaim, LifeOf
<1>3. \A k \in Leases : leases[k].pool = None /\ leases[k].val = 0
  BY Zenon DEF Init, NoLease
<1>4. A!Init
  BY Zenon, <1>2, <1>3 DEF A!Init, A!Nothing, Lives, Given, Reserved
<1>5. QED
  BY Zenon, <1>1, <1>4

(* With one worker, and with caches that lag only where no two claims      *)
(* share a lease name, the claim and lease controllers do what Allocator   *)
(* allows and nothing else: every write of a status or a lease is one of   *)
(* its steps, at which the value is nobody else's, or changes nothing it   *)
(* knows of, whatever reads, conflicts and restarts came before.           *)
THEOREM AllocationImplements ==
    ASSUME OneWorker, SoleOrCaught
    PROVE  Spec => Implements
<1>1. Init => RInv /\ A!Init
  BY Zenon, InitImplements
<1>2. RInv /\ [Next]_vars => RInv' /\ [A!Next]_A!vars
  BY Zenon, StepImplements
<1>3. QED
  BY <1>1, <1>2, PTL DEF Spec, Implements, A!Spec
=============================================================================
