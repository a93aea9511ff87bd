------------------------ MODULE AllocationTypeProofs ------------------------
(***************************************************************************)
(* Allocation is well typed, for any sets of claims, leases and pools.     *)
(***************************************************************************)
EXTENDS Allocation, TLAPS

(* Typing.  The writes of claims, leases and worker records keep their     *)
(* types; the actions only combine them.                                   *)

LEMMA ClaimWrites ==
    ASSUME NEW r \in Claim
    PROVE  /\ NoClaim \in Claim
           /\ \A n \in Nat : [NoClaim EXCEPT !.up = TRUE, !.uid = n] \in Claim
           /\ [r EXCEPT !.fin = TRUE] \in Claim
           /\ [r EXCEPT !.deleting = TRUE] \in Claim
           /\ [r EXCEPT !.observed = FALSE] \in Claim
           /\ \A st \in Status, v \in Value \cup {0} :
                 [r EXCEPT !.status = st, !.val = v, !.observed = TRUE] \in Claim
           /\ r.uid \in Nat
  BY Zenon DEF Claim, NoClaim, Status

LEMMA LeaseWrites ==
    ASSUME NEW l \in Lease
    PROVE  /\ NoLease \in Lease
           /\ \A n \in Nat : [l EXCEPT !.uid = n] \in Lease
           /\ [l EXCEPT !.released = TRUE] \in Lease
           /\ \A p \in Pools \cup {None}, v \in Value \cup {0}, c \in Claims, n \in Nat :
                 [up |-> TRUE, pool |-> p, val |-> v, claim |-> c, uid |-> n,
                  released |-> FALSE] \in Lease
           /\ l.pool \in Pools \cup {None}
           /\ l.val \in Value \cup {0}
  BY Zenon DEF Lease, NoLease

LEMMA WorkWrites ==
    ASSUME NEW x \in Work
    PROVE  /\ Idle \in Work
           /\ Idle.pc = "idle"
           /\ \A pc \in Pc : [x EXCEPT !.pc = pc] \in Work
           /\ \A pc \in Pc, n \in Nat : [x EXCEPT !.pc = pc, !.uid = n] \in Work
           /\ \A c \in Claims, n \in Nat, pc \in Pc :
                 [Idle EXCEPT !.claim = c, !.uid = n, !.pc = pc] \in Work
           /\ \A pc \in Pc, l \in Lease, n \in Nat :
                 [x EXCEPT !.pc = pc, !.held = l, !.uid = n] \in Work
           /\ \A pc \in Pc, why \in Status : [x EXCEPT !.pc = pc, !.why = why] \in Work
           /\ \A pc \in Pc, p \in Pools \cup {None}, v \in Value \cup {0}, l \in Lease :
                 [x EXCEPT !.pc = pc, !.pool = p, !.val = v, !.held = l] \in Work
           /\ x.uid \in Nat /\ x.held \in Lease /\ x.pool \in Pools \cup {None}
           /\ x.val \in Value \cup {0} /\ x.why \in Status /\ x.claim \in Claims \cup {None}
<1>1. NoLease \in Lease
  BY Zenon DEF NoLease, Lease
<1>2. Idle \in Work /\ Idle.pc = "idle"
  BY Zenon, <1>1 DEF Work, Idle, Pc, Status
<1>3. /\ x.uid \in Nat /\ x.held \in Lease /\ x.pool \in Pools \cup {None}
      /\ x.val \in Value \cup {0} /\ x.why \in Status /\ x.claim \in Claims \cup {None}
  BY Zenon DEF Work
<1>4. /\ \A pc \in Pc : [x EXCEPT !.pc = pc] \in Work
      /\ \A pc \in Pc, n \in Nat : [x EXCEPT !.pc = pc, !.uid = n] \in Work
      /\ \A pc \in Pc, l \in Lease, n \in Nat :
                 [x EXCEPT !.pc = pc, !.held = l, !.uid = n] \in Work
  BY Zenon DEF Work
<1>5. \A pc \in Pc, why \in Status : [x EXCEPT !.pc = pc, !.why = why] \in Work
  BY Zenon DEF Work
<1>6. \A pc \in Pc, p \in Pools \cup {None}, v \in Value \cup {0}, l \in Lease :
                 [x EXCEPT !.pc = pc, !.pool = p, !.val = v, !.held = l] \in Work
  BY Zenon DEF Work
<1>7. \A c \in Claims, n \in Nat, pc \in Pc :
                 [Idle EXCEPT !.claim = c, !.uid = n, !.pc = pc] \in Work
  BY Zenon, <1>2 DEF Work
<1>8. QED
  BY Zenon, <1>2, <1>3, <1>4, <1>5, <1>6, <1>7

LEMMA RefsArePools ==
    ASSUME NEW c \in Claims
    PROVE  /\ \A i \in DOMAIN PoolRefs[c] : PoolRefs[c][i] \in Refs(c)
           /\ Refs(c) \subseteq Pools
  BY ConstantsAssumption DEF Refs

LEMMA StopFits ==
    ASSUME NEW c \in Claims, NEW held, NEW i \in Stops(c, held), NEW v \in Fits(c, i, held)
    PROVE  /\ PoolRefs[c][i] \in Refs(c) /\ PoolRefs[c][i] \in Pools
           /\ v \in Free(c, i, held)
           /\ v \in Value
<1>1. i \in DOMAIN PoolRefs[c]
  BY Zenon DEF Stops, First, Present
<1>2. PoolRefs[c][i] \in Refs(c) /\ PoolRefs[c][i] \in Pools
  BY Zenon, <1>1, RefsArePools
<1>3. v \in Free(c, i, held)
  BY Zenon DEF Fits, First
<1>4. v \in Space[PoolRefs[c][i]]
  BY Zenon, <1>3 DEF Free
<1>5. v \in Value
  BY Zenon, <1>2, <1>4 DEF Value
<1>6. QED
  BY Zenon, <1>2, <1>3, <1>5

(* The type invariant, with the fact that a busy worker has a claim.       *)
TInv == TypeOK /\ \A w \in Workers : work[w].pc # "idle" => work[w].claim \in Claims

LEMMA InitTyped == Init => TInv
PROOF
  BY ConstantsAssumption DEF Init, TInv, TypeOK, Claim, Lease, Work, Pc, Status,
     NoClaim, NoLease, Idle, Resting

LEMMA EnvironmentTyped ==
    ASSUME TInv,
           \/ \E c \in Claims : User(c)
           \/ \E p \in Pools : CreatePool(p) \/ ValidatePool(p)
           \/ Inform \/ Reap \/ Restart
    PROVE  TInv'
PROOF
<1> USE DEF TInv, TypeOK
<1>1. ASSUME NEW c \in Claims, CreateClaim(c) PROVE TInv'
  <2>1. births' \in Nat
    BY <1>1 DEF CreateClaim
  <2>2. [NoClaim EXCEPT !.up = TRUE, !.uid = births'] \in Claim
    BY Zenon, <2>1, ClaimWrites
  <2>3. QED
    BY Zenon, <1>1, <2>1, <2>2 DEF CreateClaim, WriteClaim
<1>2. ASSUME NEW c \in Claims, DeleteClaim(c) PROVE TInv'
  <2>1. NoClaim \in Claim /\ [claims[c] EXCEPT !.deleting = TRUE] \in Claim
    BY Zenon, ClaimWrites
  <2>2. QED
    BY Zenon, <1>2, <2>1 DEF DeleteClaim, WriteClaim
<1>3. ASSUME NEW c \in Claims, UpdateSpec(c) PROVE TInv'
  <2>1. [claims[c] EXCEPT !.observed = FALSE] \in Claim
    BY Zenon, ClaimWrites
  <2>2. QED
    BY Zenon, <1>3, <2>1 DEF UpdateSpec, WriteClaim
<1>4. ASSUME NEW p \in Pools, CreatePool(p) \/ ValidatePool(p) PROVE TInv'
  <2>1. CASE CreatePool(p)
    BY Zenon, <2>1 DEF CreatePool
  <2>2. CASE ValidatePool(p)
    BY Zenon, <2>2 DEF ValidatePool
  <2>3. QED
    BY Zenon, <1>4, <2>1, <2>2
<1>5. ASSUME NEW c \in Claims, InformClaim(c) PROVE TInv'
  BY Zenon, <1>5 DEF InformClaim
<1>6. ASSUME NEW k \in Leases, InformLease(k) PROVE TInv'
  BY Zenon, <1>6 DEF InformLease
<1>7. ASSUME NEW k \in Leases, FindExpired(k) PROVE TInv'
  BY Zenon, <1>7 DEF FindExpired, Lease
<1>8. ASSUME NEW k \in Leases, DeleteExpired(k) PROVE TInv'
  <2>1. NoLease \in Lease /\ leases[k].pool \in Pools \cup {None}
    BY Zenon, LeaseWrites
  <2>2. reaper' \in [lease : Leases \cup {None}, same : BOOLEAN]
    BY Zenon, <1>8 DEF DeleteExpired, Resting
  <2>3. CASE UNCHANGED <<leases, leaseRv, gone>>
    BY Zenon, <1>8, <2>2, <2>3 DEF DeleteExpired
  <2>4. CASE RemoveLease(k)
    BY Zenon, <1>8, <2>1, <2>2, <2>4 DEF DeleteExpired, RemoveLease
  <2>5. QED
    BY Zenon, <1>8, <2>3, <2>4 DEF DeleteExpired
<1>9. CASE Restart
  BY Zenon, <1>9 DEF Restart, Idle, Resting, Work, Pc, Status, Lease, NoLease
<1>10. QED
  BY Zenon, <1>1, <1>2, <1>3, <1>4, <1>5, <1>6, <1>7, <1>8, <1>9 DEF User, Inform, Reap

LEMMA ReconcileTyped ==
    ASSUME TInv, NEW w \in Workers, Reconcile(w)
    PROVE  TInv'
PROOF
<1> USE DEF TInv, TypeOK
<1> DEFINE x == work[w]
           c == x.claim
           k == LeaseNameFor[c]
<1>w. x \in Work
  BY Zenon
<1>idle. Idle \in Work /\ Idle.pc = "idle"
  BY Zenon, <1>w, WorkWrites
<1>goto. \A pc \in Pc : [x EXCEPT !.pc = pc] \in Work
  BY Zenon, <1>w, WorkWrites
<1>x. /\ x.uid \in Nat /\ x.held \in Lease /\ x.pool \in Pools \cup {None}
      /\ x.val \in Value \cup {0} /\ x.why \in Status /\ x.claim \in Claims \cup {None}
  BY Zenon, <1>w, WorkWrites
<1>done. Done(w) => work' \in [Workers -> Work] /\ work'[w].pc = "idle" /\ queue' \subseteq Claims
                     /\ \A v \in Workers \ {w} : work'[v] = work[v]
  BY <1>idle DEF Done
<1>failed. Failed(w) /\ c \in Claims
           => work' \in [Workers -> Work] /\ work'[w].pc = "idle" /\ queue' \subseteq Claims
              /\ \A v \in Workers \ {w} : work'[v] = work[v]
  BY <1>idle DEF Failed
<1>goes. ASSUME NEW pc \in Pc, Goto(w, pc)
         PROVE work' \in [Workers -> Work] /\ work'[w].claim = c
               /\ \A v \in Workers \ {w} : work'[v] = work[v]
  BY Zenon, <1>goto, <1>goes DEF Goto, Work
<1>busy. x.pc # "idle" => c \in Claims /\ k \in Leases
  BY Zenon, ConstantsAssumption
<1>then. /\ work' \in [Workers -> Work]
         /\ work'[w].pc # "idle" => work'[w].claim \in Claims
         /\ \A v \in Workers \ {w} : work'[v] = work[v]
         => \A v \in Workers : work'[v].pc # "idle" => work'[v].claim \in Claims
  BY Zenon
<1> DEFINE WorkOK == /\ work' \in [Workers -> Work]
                     /\ work'[w].pc # "idle" => work'[w].claim \in Claims
                     /\ \A v \in Workers \ {w} : work'[v] = work[v]
                     /\ queue' \subseteq Claims
<1>moved. ASSUME x.pc # "idle",
                 Done(w) \/ Failed(w) \/ \E pc \in Pc : Goto(w, pc) /\ UNCHANGED queue
          PROVE  WorkOK
  BY Zenon, <1>done, <1>failed, <1>goes, <1>busy, <1>moved
<1>retry. ASSUME NEW pc \in Pc, Conflict(w, pc)
          PROVE  Failed(w) \/ \E q \in Pc : Goto(w, q) /\ UNCHANGED queue
  BY Zenon, <1>retry DEF Conflict
<1> DEFINE LeaseOK == leases' \in [Leases -> Lease] /\ leaseRv' \in [Leases -> BOOLEAN]
<1>wrote. ASSUME NEW l \in Lease, WriteLease(k, l)
          PROVE  LeaseOK /\ UNCHANGED <<gone, reaper>>
  BY Zenon, <1>wrote DEF WriteLease
<1>1. ASSUME NEW d \in Claims, Start(w, d) PROVE TInv'
  <2> DEFINE pc == IF claimCache[d].deleting THEN "release"
                              ELSE IF ~claimCache[d].fin THEN "finalizer"
                              ELSE Proceed(d, claimCache[d])
             y == [Idle EXCEPT !.claim = d, !.uid = claimCache[d].uid, !.pc = pc]
  <2>1. pc \in Pc
    BY Zenon DEF Proceed, Pc
  <2>2. claimCache[d].uid \in Nat
    BY Zenon, ClaimWrites
  <2>3. y \in Work /\ y.claim = d
    <3> HIDE DEF pc
    <3>1. y \in Work
      BY Zenon, <1>w, <2>1, <2>2, WorkWrites
    <3>2. y.claim = d
      BY Zenon DEF Idle
    <3>3. QED
      BY Zenon, <3>1, <3>2
  <2>4. work' = work \/ work' = [work EXCEPT ![w] = y]
    BY Zenon, <1>1 DEF Start
  <2> HIDE DEF y
  <2>5. QED
    BY <1>1, <2>3, <2>4 DEF Start
<1>2. CASE AddFinalizer(w)
  <2>1. x.pc # "idle"
    BY Zenon, <1>2 DEF AddFinalizer
  <2>2. WorkOK
    <3> DEFINE pc == Proceed(c, claimCache[c])
    <3>1. pc \in Pc /\ claimCache[c].uid \in Nat
      BY Zenon, <1>busy, <2>1, ClaimWrites DEF Proceed, Pc
    <3>2. [x EXCEPT !.pc = pc, !.uid = claimCache[c].uid] \in Work
      <4> HIDE DEF pc
      <4> QED BY Zenon, <1>w, <3>1, WorkWrites
    <3>3. CASE work' = [work EXCEPT ![w].pc = pc, ![w].uid = claimCache[c].uid] /\ UNCHANGED queue
      <4> HIDE DEF pc
      <4>1. work' = [work EXCEPT ![w] = [x EXCEPT !.pc = pc, !.uid = claimCache[c].uid]]
        BY Zenon, <3>3
      <4>2. [x EXCEPT !.pc = pc, !.uid = claimCache[c].uid].claim = c
        BY Zenon, <1>w DEF Work
      <4> QED BY <1>busy, <2>1, <3>2, <3>3, <4>1, <4>2
    <3>4. CASE Done(w) \/ Conflict(w, "finalizer")
      BY Zenon, <1>moved, <1>retry, <2>1, <3>4 DEF Pc
    <3>5. QED
      BY Zenon, <1>2, <3>3, <3>4 DEF AddFinalizer
  <2>3. claims' \in [Claims -> Claim] /\ claimRv' \in [Claims -> SUBSET (Workers \cup {"cache"})]
    <3>1. [claims[c] EXCEPT !.fin = TRUE] \in Claim
      BY Zenon, <1>busy, <2>1, ClaimWrites
    <3>2. QED
      BY <1>2, <3>1 DEF AddFinalizer, WriteClaim
  <2>4. QED
    BY Zenon, <1>2, <1>then, <2>2, <2>3 DEF AddFinalizer
<1>3. CASE reconcileLease(w)
  <2>1. x.pc # "idle" /\ (Done(w) \/ Failed(w))
    BY Zenon, <1>3 DEF reconcileLease
  <2>2. WorkOK
    BY Zenon, <1>moved, <2>1
  <2>3. LeaseOK /\ UNCHANGED <<gone, reaper>>
    <3>1. [leases[k] EXCEPT !.uid = x.uid] \in Lease
      BY Zenon, <1>busy, <1>x, <2>1, LeaseWrites
    <3>2. \/ WriteLease(k, [leases[k] EXCEPT !.uid = x.uid])
          \/ UNCHANGED <<leases, leaseRv, gone, reaper>>
      BY Zenon, <1>3 DEF reconcileLease
    <3>3. CASE UNCHANGED <<leases, leaseRv, gone, reaper>>
      BY Zenon, <3>3
    <3>4. QED
      BY Zenon, <1>wrote, <3>1, <3>2, <3>3
  <2>4. QED
    BY Zenon, <1>3, <1>then, <2>2, <2>3 DEF reconcileLease
<1>4. CASE ensureOwnerExists(w)
  <2>1. WorkOK
    BY Zenon, <1>4, <1>moved DEF ensureOwnerExists, Pc
  <2>2. QED
    BY Zenon, <1>4, <1>then, <2>1 DEF ensureOwnerExists
<1>5. CASE ReadFresh(w)
  <2>1. x.pc # "idle"
    BY Zenon, <1>5 DEF ReadFresh
  <2>2. WorkOK
    <3> DEFINE l == leases[k]
               y == [x EXCEPT !.pc = "allocate", !.held = l, !.uid = claims[c].uid]
    <3>1. y \in Work
      <4>1. "allocate" \in Pc /\ l \in Lease /\ claims[c].uid \in Nat
        BY Zenon, <1>busy, <2>1, ClaimWrites DEF Pc
      <4> HIDE DEF l
      <4>2. QED
        BY Zenon, <1>w, <4>1, WorkWrites
    <3>2. y.claim = c
      BY Zenon, <1>w DEF Work
    <3>3. CASE work' = [work EXCEPT ![w].pc = "allocate", ![w].held = l, ![w].uid = claims[c].uid]
               /\ UNCHANGED queue
      <4>1. work' = [work EXCEPT ![w] = y]
        BY Zenon, <3>3
      <4> HIDE DEF y, l
      <4>2. UNCHANGED queue
        BY Zenon, <3>3
      <4>3. QED
        BY Zenon, <1>busy, <2>1, <3>1, <3>2, <4>1, <4>2
    <3>4. QED
      BY Zenon, <1>5, <1>moved, <2>1, <3>3 DEF ReadFresh
  <2>3. QED
    BY Zenon, <1>5, <1>then, <2>2 DEF ReadFresh
<1>6. CASE allocate(w)
  <2>1. x.pc # "idle" /\ UNCHANGED queue
    BY Zenon, <1>6 DEF allocate
  <2> DEFINE held == x.held
             T(p, v) == [x EXCEPT !.pc = "lease", !.pool = p, !.val = v, !.held = NoLease]
  <2>2. ASSUME NEW why \in Status, work' = [work EXCEPT ![w].pc = "fail", ![w].why = why]
        PROVE  WorkOK
    <3> DEFINE y == [x EXCEPT !.pc = "fail", !.why = why]
    <3>1. y \in Work
      BY Zenon, <1>w, WorkWrites DEF Pc
    <3>2. y.claim = c
      BY Zenon, <1>w DEF Work
    <3>3. work' = [work EXCEPT ![w] = y]
      BY Zenon, <2>2
    <3> HIDE DEF y
    <3>4. QED
      BY Zenon, <1>busy, <2>1, <3>1, <3>2, <3>3
  <2>3. ASSUME NEW p \in Pools, NEW v \in Value \cup {0},
               work' = [work EXCEPT ![w].pc = "lease", ![w].pool = p,
                                    ![w].val = v, ![w].held = NoLease]
        PROVE  WorkOK
    <3> DEFINE y == [x EXCEPT !.pc = "lease", !.pool = p, !.val = v, !.held = NoLease]
    <3>1. y \in Work
      <4>1. "lease" \in Pc /\ NoLease \in Lease
        BY Zenon, <1>x, LeaseWrites DEF Pc
      <4>2. QED
        BY Zenon, <1>w, <4>1, WorkWrites
    <3>2. y.claim = c
      BY Zenon, <1>w DEF Work
    <3>3. work' = [work EXCEPT ![w] = y]
      BY Zenon, <2>3
    <3> HIDE DEF y
    <3>4. QED
      BY Zenon, <1>busy, <2>1, <3>1, <3>2, <3>3
  <2>4. CASE /\ Reusable(c, held)
             /\ work' = [work EXCEPT ![w].pc = "lease", ![w].pool = held.pool,
                                     ![w].val = held.val, ![w].held = NoLease]
             /\ poolRv' = [poolRv EXCEPT ![held.pool] = @ \cup {w}]
    <3>1. held.pool \in Pools /\ held.val \in Value \cup {0}
      BY Zenon, <1>busy, <1>x, <2>1, <2>4, LeaseWrites, RefsArePools DEF Reusable
    <3>2. WorkOK
      BY Zenon, <2>3, <2>4, <3>1
    <3>3. poolRv' \in [Pools -> SUBSET Workers]
      BY Zenon, <2>4, <3>1
    <3>4. QED
      BY Zenon, <1>6, <1>then, <3>2, <3>3 DEF allocate
  <2>5. ASSUME NEW i \in Stops(c, held), NEW v \in Fits(c, i, held),
               work' = [work EXCEPT ![w].pc = "lease", ![w].pool = PoolRefs[c][i],
                                    ![w].val = v, ![w].held = NoLease],
               poolRv' = [poolRv EXCEPT ![PoolRefs[c][i]] = @ \cup {w}]
        PROVE  TInv'
    <3>1. PoolRefs[c][i] \in Pools /\ v \in Value \cup {0}
      BY Zenon, <1>busy, <2>1, StopFits
    <3>2. WorkOK
      BY Zenon, <2>3, <2>5, <3>1
    <3>3. poolRv' \in [Pools -> SUBSET Workers]
      BY Zenon, <2>5, <3>1
    <3>4. QED
      BY Zenon, <1>6, <1>then, <3>2, <3>3 DEF allocate
  <2>6. ASSUME NEW why \in Status, UNCHANGED poolRv,
               work' = [work EXCEPT ![w].pc = "fail", ![w].why = why]
        PROVE  TInv'
    BY Zenon, <1>6, <1>then, <2>2, <2>6 DEF allocate
  <2>7. QED
    BY Zenon, <1>6, <2>4, <2>5, <2>6 DEF allocate, Status
<1>7. CASE ensureLease(w)
  <2>1. x.pc # "idle"
    BY Zenon, <1>7 DEF ensureLease
  <2>2. WorkOK
    BY Zenon, <1>7, <1>moved, <1>retry, <2>1 DEF ensureLease, Pc
  <2>3. LeaseOK /\ UNCHANGED <<gone, reaper>>
    <3> DEFINE want == [up |-> TRUE, pool |-> x.pool, val |-> x.val, claim |-> c,
                        uid |-> x.uid, released |-> FALSE]
    <3>1. want \in Lease
      BY Zenon, <1>busy, <1>x, <2>1, LeaseWrites
    <3>2. WriteLease(k, want) \/ UNCHANGED <<leases, leaseRv, gone, reaper>>
      BY Zenon, <1>7 DEF ensureLease
    <3> HIDE DEF want
    <3>3. CASE UNCHANGED <<leases, leaseRv, gone, reaper>>
      BY Zenon, <3>3
    <3>4. QED
      BY Zenon, <1>wrote, <3>1, <3>2, <3>3
  <2>4. QED
    BY Zenon, <1>7, <1>then, <2>2, <2>3 DEF ensureLease
<1>8. CASE UpdatePool(w)
  <2>1. WorkOK
    BY Zenon, <1>8, <1>moved, <1>retry DEF UpdatePool, Pc
  <2>2. poolRv' \in [Pools -> SUBSET Workers]
    BY Zenon, <1>8 DEF UpdatePool
  <2>3. QED
    BY Zenon, <1>8, <1>then, <2>1, <2>2 DEF UpdatePool
<1>9. ASSUME NEW pc \in Pc, NEW retry \in Pc, NEW st \in Status, NEW v \in Value \cup {0},
             updateStatus(w, pc, retry, st, v), pc # "idle"
      PROVE TInv'
  <2>1. x.pc # "idle"
    BY Zenon, <1>9 DEF updateStatus
  <2>2. WorkOK
    BY Zenon, <1>9, <1>moved, <1>retry, <2>1 DEF updateStatus
  <2>3. claims' \in [Claims -> Claim] /\ claimRv' \in [Claims -> SUBSET (Workers \cup {"cache"})]
    <3> DEFINE new == [claimCache[c] EXCEPT !.status = st, !.val = v, !.observed = TRUE]
    <3>1. new \in Claim
      BY Zenon, <1>busy, <2>1, ClaimWrites
    <3>2. WriteClaim(c, new) \/ UNCHANGED <<claims, claimRv>>
      BY Zenon, <1>9 DEF updateStatus
    <3> HIDE DEF new
    <3>3. QED
      BY <3>1, <3>2 DEF WriteClaim
  <2>4. QED
    BY Zenon, <1>9, <1>then, <2>2, <2>3 DEF updateStatus
<1>10. CASE updateStatusAllocated(w) \/ updateStatusPending(w) \/ updateStatusFailed(w)
  <2>0. /\ {"allocated", "read", "fail", "reject"} \subseteq Pc
        /\ {"Allocated", "Failed"} \subseteq Status
        /\ 0 \in Value \cup {0} /\ x.val \in Value \cup {0} /\ x.why \in Status
    BY Zenon, <1>x DEF Pc, Status
  <2>1. CASE updateStatusAllocated(w)
    <3>1. updateStatus(w, "allocated", "read", "Allocated", x.val)
      BY Zenon, <2>1 DEF updateStatusAllocated
    <3>2. QED
      BY Zenon, <1>9, <2>0, <3>1
  <2>2. CASE updateStatusPending(w)
    <3>1. updateStatus(w, "fail", "read", x.why, 0)
      BY Zenon, <2>2 DEF updateStatusPending
    <3>2. QED
      BY Zenon, <1>9, <2>0, <3>1
  <2>3. CASE updateStatusFailed(w)
    <3>1. updateStatus(w, "reject", "reject", "Failed", 0)
      BY Zenon, <2>3 DEF updateStatusFailed
    <3>2. QED
      BY Zenon, <1>9, <2>0, <3>1
  <2>4. QED
    BY Zenon, <1>10, <2>1, <2>2, <2>3
<1>11. CASE releaseLease(w)
  <2>1. x.pc # "idle"
    BY Zenon, <1>11 DEF releaseLease
  <2>2. WorkOK
    BY Zenon, <1>11, <1>moved, <2>1 DEF releaseLease, Pc
  <2>k. k \in Leases
    BY Zenon, <1>busy, <2>1
  <2>3. CASE UNCHANGED <<leases, leaseRv, gone, reaper>>
    BY Zenon, <1>11, <1>then, <2>2, <2>3 DEF releaseLease
  <2>4. CASE WriteLease(k, [leases[k] EXCEPT !.released = TRUE])
    <3>1. [leases[k] EXCEPT !.released = TRUE] \in Lease
      BY Zenon, <2>k, LeaseWrites
    <3>2. LeaseOK /\ UNCHANGED <<gone, reaper>>
      BY Zenon, <1>wrote, <2>4, <3>1
    <3>3. QED
      BY Zenon, <1>11, <1>then, <2>2, <3>2 DEF releaseLease
  <2>5. ASSUME RemoveLease(k),
               reaper' = IF reaper.lease = k THEN [reaper EXCEPT !.same = FALSE] ELSE reaper
        PROVE  TInv'
    <3>1. NoLease \in Lease /\ leases[k].pool \in Pools \cup {None}
      BY Zenon, <2>k, LeaseWrites
    <3>2. LeaseOK /\ gone' \in [Leases -> SUBSET (Pools \cup {None})]
      BY Zenon, <2>5, <3>1 DEF RemoveLease
    <3>3. reaper' \in [lease : Leases \cup {None}, same : BOOLEAN]
      BY Zenon, <2>5
    <3>4. QED
      BY Zenon, <1>11, <1>then, <2>2, <3>2, <3>3 DEF releaseLease
  <2>6. QED
    BY Zenon, <1>11, <2>3, <2>4, <2>5 DEF releaseLease
<1>12. CASE removeFinalizer(w)
  <2>1. WorkOK
    BY Zenon, <1>12, <1>moved DEF removeFinalizer
  <2>2. claims' \in [Claims -> Claim] /\ claimRv' \in [Claims -> SUBSET (Workers \cup {"cache"})]
    <3>1. NoClaim \in Claim
      BY Zenon, <1>busy, <1>12, ClaimWrites DEF removeFinalizer
    <3>2. QED
      BY <1>12, <3>1 DEF removeFinalizer, WriteClaim
  <2>3. QED
    BY Zenon, <1>12, <1>then, <2>1, <2>2 DEF removeFinalizer
<1>13. QED
  BY Zenon, <1>1, <1>2, <1>3, <1>4, <1>5, <1>6, <1>7, <1>8, <1>10, <1>11, <1>12 DEF Reconcile

LEMMA StepTyped == TInv /\ [Next]_vars => TInv'
PROOF
<1>1. CASE UNCHANGED vars
  BY Zenon, <1>1 DEF vars, TInv, TypeOK
<1>2. QED
  BY Zenon, <1>1, EnvironmentTyped, ReconcileTyped DEF Next

(* Every state of the allocator is well typed, whatever the constants: the *)
(* values claims and leases record come from the pools' candidate spaces.  *)
THEOREM TypeCorrect == Spec => []TypeOK
PROOF
<1>1. TInv => TypeOK
  BY Zenon DEF TInv
<1>2. QED
  BY <1>1, InitTyped, StepTyped, PTL DEF Spec

=============================================================================
