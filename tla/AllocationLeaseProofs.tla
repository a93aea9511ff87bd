----------------------- MODULE AllocationLeaseProofs -----------------------
(***************************************************************************)
(* The claims and the leases of Allocation, for any sets of claims, leases *)
(* and pools and any number of workers: that a claim keeps its value       *)
(* (ValueStable), what a lease says of the claim that holds it             *)
(* (LeaseAgrees), and when a claim is turned away (RefusedForCause).       *)
(***************************************************************************)
EXTENDS AllocationTypeProofs, WellFoundedInduction

(***************************************************************************)
(* ValueStable, with caches that lag at will, where no spec is edited.     *)
(* The status is written from a copy of the claim, several steps after the *)
(* claim was found without a value.                                        *)
(***************************************************************************)
-----------------------------------------------------------------------------
(* The inductive invariant.                                                *)

(* A cached copy of a claim that is current is a copy of the claim.        *)
CopySound == \A c \in Claims : "cache" \in claimRv[c] => claimCache[c] = claims[c]

(* A claim has a UID, and one with a value is ready.                       *)
Fit(r) == /\ r.up => r.uid # 0
          /\ r.val # 0 => r.up /\ allocationClaimReady(r)

ClaimsFit == \A c \in Claims : Fit(claims[c])

(* The workqueue never gives one claim to two workers.                     *)
Apart ==
    \A w, x \in Workers :
        w # x /\ work[w].pc # "idle" /\ work[x].pc # "idle" => work[w].claim # work[x].claim

(* A call that allocates works for a claim that has no value.              *)
Allocating == {"allocate", "lease", "pool", "allocated", "fail"}
Unserved(w) == work[w].pc \in Allocating => claims[work[w].claim].val = 0

VInv == TInv /\ CopySound /\ ClaimsFit /\ Apart /\ \A w \in Workers : Unserved(w)

(* What a step may do to a claim.                                          *)
Stable(c) == claims[c].val # 0 /\ claims'[c].uid = claims[c].uid => claims'[c].val = claims[c].val

-----------------------------------------------------------------------------
(* A record that may replace a claim.                                      *)
Succeeds(r, old) == /\ Fit(r)
                    /\ old.val # 0 /\ r.uid = old.uid => r.val = old.val

(* The records that the actions write, but for a new status.               *)
LEMMA PlainWrites ==
    ASSUME NEW s \in Claim, Fit(s)
    PROVE  /\ Succeeds(NoClaim, s) /\ NoClaim.val = 0
           /\ Succeeds([s EXCEPT !.fin = TRUE], s) /\ [s EXCEPT !.fin = TRUE].val = s.val
           /\ Succeeds([s EXCEPT !.deleting = TRUE], s) /\ [s EXCEPT !.deleting = TRUE].val = s.val
           /\ \A n \in Nat : n # 0 /\ ~s.up =>
                 /\ Succeeds([NoClaim EXCEPT !.up = TRUE, !.uid = n], s)
                 /\ [NoClaim EXCEPT !.up = TRUE, !.uid = n].val = 0
  BY Zenon DEF Claim, NoClaim, Fit, Succeeds, allocationClaimReady

LEMMA CopiesWritten ==
    ASSUME TypeOK, CopySound, UNCHANGED claimCache,
           UNCHANGED <<claims, claimRv>> \/ \E c \in Claims : \E r : WriteClaim(c, r)
    PROVE  CopySound'
  BY Zenon DEF TypeOK, CopySound, WriteClaim

(* A claim written by its owner, under the hands of any worker.            *)
LEMMA OwnerWrites ==
    ASSUME VInv, TInv', NEW c \in Claims, NEW r, WriteClaim(c, r), Succeeds(r, claims[c]),
           r.val # 0 => r.val = claims[c].val, UNCHANGED <<claimCache, work>>
    PROVE  VInv' /\ \A d \in Claims : Stable(d)
<1>1. \A d \in Claims : claims'[d] = IF d = c THEN r ELSE claims[d]
  BY Zenon DEF VInv, TInv, TypeOK, WriteClaim
<1>2. CopySound'
  BY Zenon, CopiesWritten DEF VInv, TInv
<1>3. ClaimsFit' /\ \A d \in Claims : Stable(d)
  BY Zenon, <1>1 DEF VInv, ClaimsFit, Succeeds, Stable
<1>4. Apart'
  BY Zenon DEF VInv, Apart
<1>5. ASSUME NEW w \in Workers, work[w].pc \in Allocating
      PROVE  claims'[work[w].claim].val = 0
  <2>1. work[w].claim \in Claims /\ claims[work[w].claim].val = 0
    BY Zenon, <1>5 DEF VInv, TInv, Unserved, Allocating
  <2> QED BY Zenon, <1>1, <2>1
<1>6. \A w \in Workers : Unserved(w)'
  BY Zenon, <1>5 DEF Unserved
<1> QED BY Zenon, <1>2, <1>3, <1>4, <1>6 DEF VInv

(* A step that writes no claim and moves no worker.                        *)
LEMMA Aside ==
    ASSUME VInv, TInv', CopySound', UNCHANGED claims,
           UNCHANGED work \/ \A w \in Workers : work'[w].pc = "idle"
    PROVE  VInv' /\ \A d \in Claims : Stable(d)
<1>1. ClaimsFit' /\ \A d \in Claims : Stable(d)
  BY Zenon DEF VInv, ClaimsFit, Stable
<1>2. Apart'
  BY Zenon DEF VInv, Apart
<1>3. \A w \in Workers : Unserved(w)'
  BY Zenon DEF VInv, Unserved, Allocating
<1> QED BY Zenon, <1>1, <1>2, <1>3 DEF VInv

(* A step of a worker with its claim.                                      *)
LEMMA WorkerMoves ==
    ASSUME VInv, TInv', CopySound', NEW w \in Workers, work[w].pc # "idle",
           \A x \in Workers \ {w} : work'[x] = work[x],
           work'[w].pc = "idle" \/ work'[w].claim = work[w].claim,
           \A d \in Claims \ {work[w].claim} : claims'[d] = claims[d],
           Succeeds(claims'[work[w].claim], claims[work[w].claim]),
           Unserved(w)'
    PROVE  VInv' /\ \A d \in Claims : Stable(d)
<1>1. ClaimsFit' /\ \A d \in Claims : Stable(d)
  BY Zenon DEF VInv, ClaimsFit, Stable, Succeeds
<1>2. Apart'
  BY DEF VInv, Apart
<1>3. ASSUME NEW x \in Workers, x # w, work[x].pc \in Allocating
      PROVE  claims'[work[x].claim].val = 0
  <2>1. work[x].claim \in Claims /\ claims[work[x].claim].val = 0 /\ work[x].claim # work[w].claim
    BY Zenon, <1>3 DEF VInv, TInv, Apart, Unserved, Allocating
  <2> QED BY Zenon, <2>1
<1>4. \A x \in Workers : Unserved(x)'
  BY Zenon, <1>3 DEF Unserved
<1> QED BY Zenon, <1>1, <1>2, <1>4 DEF VInv

-----------------------------------------------------------------------------
(* The steps.                                                              *)

LEMMA EnvironmentStable ==
    ASSUME Respecced = {}, VInv, TInv',
           \/ \E c \in Claims : User(c)
           \/ \E p \in Pools : CreatePool(p) \/ ValidatePool(p)
           \/ Inform \/ Reap \/ Restart
    PROVE  VInv' /\ \A d \in Claims : Stable(d)
<1> USE DEF VInv, TInv
<1>1. ASSUME NEW c \in Claims, CreateClaim(c)
      PROVE  VInv' /\ \A d \in Claims : Stable(d)
  <2> DEFINE r == [NoClaim EXCEPT !.up = TRUE, !.uid = births + 1]
  <2>1. WriteClaim(c, r) /\ UNCHANGED <<claimCache, work>> /\ ~claims[c].up
    BY Zenon, <1>1 DEF CreateClaim
  <2>2. births + 1 \in Nat /\ births + 1 # 0 /\ claims[c] \in Claim /\ Fit(claims[c])
    BY DEF TypeOK, ClaimsFit
  <2>3. Succeeds(r, claims[c]) /\ r.val = 0
    BY Zenon, <2>1, <2>2, PlainWrites
  <2> HIDE DEF r, VInv, TInv
  <2> QED BY Zenon, <2>1, <2>3, OwnerWrites
<1>2. ASSUME NEW c \in Claims, DeleteClaim(c)
      PROVE  VInv' /\ \A d \in Claims : Stable(d)
  <2> DEFINE r == IF claims[c].fin THEN [claims[c] EXCEPT !.deleting = TRUE] ELSE NoClaim
  <2>1. WriteClaim(c, r) /\ UNCHANGED <<claimCache, work>>
    BY Zenon, <1>2 DEF DeleteClaim
  <2>2. claims[c] \in Claim /\ Fit(claims[c])
    BY Zenon DEF TypeOK, ClaimsFit
  <2>3. Succeeds(r, claims[c]) /\ (r.val # 0 => r.val = claims[c].val)
    BY Zenon, <2>2, PlainWrites
  <2> HIDE DEF r, VInv, TInv
  <2> QED BY Zenon, <2>1, <2>3, OwnerWrites
<1>3. \A c \in Claims : ~UpdateSpec(c)
  BY Zenon DEF UpdateSpec
<1>4. ASSUME NEW p \in Pools, CreatePool(p) \/ ValidatePool(p)
      PROVE  UNCHANGED <<claims, claimCache, claimRv, work>>
  BY Zenon, <1>4 DEF CreatePool, ValidatePool
<1>5. ASSUME NEW k \in Leases, InformLease(k) \/ FindExpired(k) \/ DeleteExpired(k)
      PROVE  UNCHANGED <<claims, claimCache, claimRv, work>>
  BY Zenon, <1>5 DEF InformLease, FindExpired, DeleteExpired
<1>6. ASSUME UNCHANGED <<claims, claimCache, claimRv, work>>
      PROVE  VInv' /\ \A d \in Claims : Stable(d)
  <2>1. CopySound'
    BY Zenon, <1>6 DEF CopySound
  <2> QED BY Zenon, <1>6, <2>1, Aside
<1>7. ASSUME NEW c \in Claims, InformClaim(c)
      PROVE  VInv' /\ \A d \in Claims : Stable(d)
  <2>1. CopySound'
    BY Zenon, <1>7 DEF InformClaim, CopySound, TypeOK
  <2> QED BY Zenon, <1>7, <2>1, Aside DEF InformClaim
<1>8. CASE Restart
  <2>1. CopySound'
    BY Zenon, <1>8 DEF Restart, CopySound
  <2>2. \A w \in Workers : work'[w].pc = "idle"
    BY Zenon, <1>8 DEF Restart, Idle
  <2> QED BY Zenon, <1>8, <2>1, <2>2, Aside DEF Restart
<1> QED BY Zenon, <1>1, <1>2, <1>3, <1>4, <1>5, <1>6, <1>7, <1>8 DEF User, Inform, Reap

(* A worker takes a claim that no other has.                               *)
LEMMA StartStable ==
    ASSUME VInv, TInv', NEW w \in Workers, NEW c \in Claims, Start(w, c)
    PROVE  VInv' /\ \A d \in Claims : Stable(d)
<1>1. CopySound'
  <2>1. claimRv' = [claimRv EXCEPT ![c] = IF "cache" \in claimRv[c] THEN claimRv[c] \cup {w}
                                         ELSE claimRv[c] \ {w}]
    BY Zenon DEF Start
  <2>2. \A d \in Claims : "cache" \in claimRv'[d] => "cache" \in claimRv[d]
    BY Zenon, <2>1 DEF VInv, TInv, TypeOK
  <2> QED BY Zenon, <2>2 DEF Start, VInv, CopySound
<1>2. CASE work' = work
  BY Zenon, <1>1, <1>2, Aside DEF Start
<1>3. CASE work' # work
  <2> DEFINE r == claimCache[c]
             pc == IF r.deleting THEN "release"
                   ELSE IF ~r.fin THEN "finalizer" ELSE Proceed(c, r)
             y == [Idle EXCEPT !.claim = c, !.uid = r.uid, !.pc = pc]
  <2>1. work' = [work EXCEPT ![w] = y]
    BY Zenon, <1>3 DEF Start
  <2>2. y.claim = c /\ y.pc = pc
    BY Zenon DEF Idle
  <2>3. pc \notin Allocating
    BY Zenon DEF Proceed, Allocating
  <2> HIDE DEF y, pc
  <2>4. work'[w] = y /\ \A x \in Workers \ {w} : work'[x] = work[x]
    BY Zenon, <2>1 DEF VInv, TInv, TypeOK
  <2>5. Apart'
    BY <2>2, <2>4 DEF VInv, Apart, Start
  <2>6. ClaimsFit' /\ \A d \in Claims : Stable(d)
    BY Zenon DEF Start, VInv, ClaimsFit, Stable
  <2>7. \A x \in Workers : Unserved(x)'
    BY ZenonT(30), <2>2, <2>3, <2>4 DEF Start, VInv, Unserved
  <2> QED BY Zenon, <1>1, <2>5, <2>6, <2>7 DEF VInv
<1> QED BY Zenon, <1>2, <1>3

(* How a call goes on, or ends.                                            *)
LEMMA CallMoves ==
    ASSUME TypeOK, NEW w \in Workers
    PROVE  /\ Done(w) \/ Failed(w) =>
                 work'[w].pc = "idle" /\ \A x \in Workers \ {w} : work'[x] = work[x]
           /\ \A pc : Goto(w, pc) =>
                 /\ work'[w].pc = pc /\ work'[w].claim = work[w].claim
                 /\ \A x \in Workers \ {w} : work'[x] = work[x]
<1>1. work[w] \in Work
  BY Zenon DEF TypeOK
<1>2. \A pc : Goto(w, pc) => work'[w] = [work[w] EXCEPT !.pc = pc]
  BY Zenon DEF TypeOK, Goto
<1>3. \A pc : Goto(w, pc) => work'[w].pc = pc /\ work'[w].claim = work[w].claim
  <2> SUFFICES ASSUME NEW pc, Goto(w, pc) PROVE work'[w].pc = pc /\ work'[w].claim = work[w].claim
    BY Zenon
  <2>1. work'[w] = [work[w] EXCEPT !.pc = pc]
    BY Zenon, <1>2
  <2> QED BY Zenon, <1>1, <2>1 DEF Work
<1>4. Done(w) \/ Failed(w) =>
         work'[w].pc = "idle" /\ \A x \in Workers \ {w} : work'[x] = work[x]
  BY DEF TypeOK, Done, Failed, Idle
<1>5. \A pc : Goto(w, pc) => \A x \in Workers \ {w} : work'[x] = work[x]
  BY DEF TypeOK, Goto
<1> QED BY Zenon, <1>3, <1>4, <1>5

(* A step of a worker that writes no claim, to a place where its claim is  *)
(* still without a value if it has to be.                                  *)
LEMMA WorkerReads ==
    ASSUME VInv, TInv', NEW w \in Workers, work[w].pc # "idle", UNCHANGED <<claims, claimCache, claimRv>>,
           \A x \in Workers \ {w} : work'[x] = work[x],
           \/ work'[w].pc = "idle"
           \/ /\ work'[w].claim = work[w].claim
              /\ work'[w].pc \in Allocating =>
                    work[w].pc \in Allocating \/ claims[work[w].claim].val = 0
    PROVE  VInv' /\ \A d \in Claims : Stable(d)
<1>1. CopySound'
  BY Zenon DEF VInv, CopySound
<1>2. work[w].claim \in Claims
  BY Zenon DEF VInv, TInv
<1>3. Unserved(w)'
  BY Zenon DEF VInv, Unserved, Allocating
<1>4. Succeeds(claims'[work[w].claim], claims[work[w].claim])
  BY Zenon, <1>2 DEF VInv, ClaimsFit, Succeeds
<1> QED BY Zenon, <1>1, <1>3, <1>4, WorkerMoves

(* A step of a worker that writes its claim.                               *)
LEMMA WorkerWrites ==
    ASSUME VInv, TInv', NEW w \in Workers, work[w].pc # "idle", UNCHANGED claimCache,
           NEW r, WriteClaim(work[w].claim, r), Succeeds(r, claims[work[w].claim]),
           \A x \in Workers \ {w} : work'[x] = work[x],
           work'[w].pc = "idle" \/ work'[w].claim = work[w].claim,
           work'[w].pc \notin Allocating
    PROVE  VInv' /\ \A d \in Claims : Stable(d)
<1>1. work[w].claim \in Claims
  BY Zenon DEF VInv, TInv
<1>2. CopySound'
  BY Zenon, <1>1, CopiesWritten DEF VInv, TInv
<1>3. \A d \in Claims : claims'[d] = IF d = work[w].claim THEN r ELSE claims[d]
  BY Zenon, <1>1 DEF VInv, TInv, TypeOK, WriteClaim
<1>4. Unserved(w)'
  BY Zenon DEF Unserved
<1> QED BY Zenon, <1>1, <1>2, <1>3, <1>4, WorkerMoves

LEMMA AddFinalizerStable ==
    ASSUME VInv, TInv', NEW w \in Workers, AddFinalizer(w)
    PROVE  VInv' /\ \A d \in Claims : Stable(d)
<1> DEFINE c == work[w].claim
           pc == Proceed(c, claimCache[c])
           next == [work EXCEPT ![w].pc = pc, ![w].uid = claimCache[c].uid]
<1>1. work[w].pc = "finalizer" /\ UNCHANGED claimCache /\ TypeOK
  BY Zenon DEF AddFinalizer, VInv, TInv
<1>2. c \in Claims /\ claims[c] \in Claim /\ Fit(claims[c])
  BY Zenon, <1>1 DEF VInv, TInv, TypeOK, ClaimsFit
<1>3. pc \notin Allocating /\ "finalizer" \notin Allocating
  BY Zenon DEF Proceed, Allocating
<1>4. ASSUME work' = next
      PROVE  /\ work'[w].pc = pc /\ work'[w].claim = c
             /\ \A x \in Workers \ {w} : work'[x] = work[x]
  <2>1. work[w] \in Work
    BY Zenon, <1>1 DEF TypeOK
  <2> HIDE DEF pc
  <2>2. work'[w] = [work[w] EXCEPT !.pc = pc, !.uid = claimCache[c].uid]
    BY Zenon, <1>1, <1>4 DEF TypeOK
  <2>3. work'[w].pc = pc /\ work'[w].claim = c
    BY Zenon, <2>1, <2>2 DEF Work
  <2>4. \A x \in Workers \ {w} : work'[x] = work[x]
    BY Zenon, <1>1, <1>4 DEF TypeOK
  <2> QED BY Zenon, <2>3, <2>4
<1>5. \/ /\ UNCHANGED <<claims, claimRv>>
         /\ Done(w) \/ Failed(w) \/ Goto(w, "finalizer") \/ work' = next
      \/ WriteClaim(c, [claims[c] EXCEPT !.fin = TRUE]) /\ work' = next
  BY Zenon DEF AddFinalizer, Conflict
<1>6. CASE UNCHANGED <<claims, claimRv>> /\ (Done(w) \/ Failed(w) \/ Goto(w, "finalizer") \/ work' = next)
  <2> HIDE DEF next, pc
  <2>1. /\ \A x \in Workers \ {w} : work'[x] = work[x]
        /\ \/ work'[w].pc = "idle"
           \/ work'[w].claim = c /\ work'[w].pc \notin Allocating
    BY Zenon, <1>1, <1>3, <1>4, <1>6, CallMoves
  <2> QED BY Zenon, <1>1, <1>6, <2>1, WorkerReads
<1>7. CASE WriteClaim(c, [claims[c] EXCEPT !.fin = TRUE]) /\ work' = next
  <2>1. Succeeds([claims[c] EXCEPT !.fin = TRUE], claims[c])
    BY Zenon, <1>2, PlainWrites
  <2> HIDE DEF next, pc
  <2> QED BY Zenon, <1>1, <1>3, <1>4, <1>7, <2>1, WorkerWrites
<1> QED BY Zenon, <1>5, <1>6, <1>7

(* A status is written for a claim without one, or says what is there.     *)
LEMMA updateStatusStable ==
    ASSUME VInv, TInv', NEW w \in Workers, NEW pc, NEW retry \in {"read", "reject"}, NEW st, NEW v,
           \/ pc = "reject" /\ st # "Allocated" /\ v = 0
           \/ pc \in Allocating /\ (v # 0 => st = "Allocated"),
           updateStatus(w, pc, retry, st, v)
    PROVE  VInv' /\ \A d \in Claims : Stable(d)
<1> DEFINE c == work[w].claim
           old == claimCache[c]
           r == [old EXCEPT !.status = st, !.val = v, !.observed = TRUE]
<1>1. work[w].pc = pc /\ pc # "idle" /\ UNCHANGED claimCache /\ TypeOK
  BY Zenon DEF updateStatus, VInv, TInv, Allocating
<1>2. c \in Claims /\ claimCache[c] \in Claim /\ Fit(claims[c])
  BY Zenon, <1>1 DEF VInv, TInv, TypeOK, ClaimsFit
<1>3. retry \notin Allocating
  BY Zenon DEF Allocating
<1>4. \/ UNCHANGED <<claims, claimRv>> /\ (Done(w) \/ Failed(w) \/ Goto(w, retry))
      \/ /\ WriteClaim(c, r) /\ Done(w) /\ "cache" \in claimRv[c] /\ old.up
         /\ ~allocationClaimReady(old) \/ st = "Allocated"
  BY Zenon DEF updateStatus, Conflict
<1>5. CASE UNCHANGED <<claims, claimRv>> /\ (Done(w) \/ Failed(w) \/ Goto(w, retry))
  <2>1. /\ \A x \in Workers \ {w} : work'[x] = work[x]
        /\ \/ work'[w].pc = "idle"
           \/ work'[w].claim = c /\ work'[w].pc \notin Allocating
    BY Zenon, <1>1, <1>3, <1>5, CallMoves
  <2> QED BY Zenon, <1>1, <1>5, <2>1, WorkerReads
<1>6. CASE /\ WriteClaim(c, r) /\ Done(w) /\ "cache" \in claimRv[c] /\ old.up
           /\ ~allocationClaimReady(old) \/ st = "Allocated"
  <2>1. old = claims[c]
    BY Zenon, <1>2, <1>6 DEF VInv, CopySound
  <2>2. claims[c].val = 0
    BY Zenon, <1>1, <1>2, <1>6, <2>1 DEF VInv, Unserved, Fit
  <2>3. r.up = old.up /\ r.uid = old.uid /\ r.val = v /\ r.status = st /\ r.observed = TRUE
    BY Zenon, <1>2 DEF Claim
  <2>4. Succeeds(r, claims[c])
    <3> HIDE DEF r
    <3> QED BY Zenon, <1>2, <1>6, <2>1, <2>2, <2>3 DEF Succeeds, Fit, allocationClaimReady
  <2>5. /\ \A x \in Workers \ {w} : work'[x] = work[x]
        /\ work'[w].pc = "idle" /\ "idle" \notin Allocating
    BY Zenon, <1>1, <1>6, CallMoves DEF Allocating
  <2> HIDE DEF r
  <2> QED BY Zenon, <1>1, <1>6, <2>4, <2>5, WorkerWrites
<1> QED BY Zenon, <1>4, <1>5, <1>6

(* The closure goes on to allocate only for a claim that is not ready.     *)
LEMMA AllocationStable ==
    ASSUME VInv, TInv', NEW w \in Workers, ReadFresh(w) \/ allocate(w)
    PROVE  VInv' /\ \A d \in Claims : Stable(d)
<1> DEFINE c == work[w].claim
<1>1. /\ work[w].pc \in {"read", "allocate"} /\ UNCHANGED <<claims, claimCache, claimRv>>
      /\ TypeOK /\ work[w] \in Work
  BY Zenon DEF ReadFresh, allocate, VInv, TInv, TypeOK
<1>2. c \in Claims
  BY Zenon, <1>1 DEF VInv, TInv
<1>3. CASE ReadFresh(w)
  <2>1. CASE Done(w) \/ Failed(w)
    BY Zenon, <1>1, <2>1, CallMoves, WorkerReads
  <2>2. CASE ~(Done(w) \/ Failed(w))
    <3> DEFINE l == leases[LeaseNameFor[c]]
    <3>1. /\ ~allocationClaimReady(claims[c])
          /\ work' = [work EXCEPT ![w].pc = "allocate", ![w].held = l, ![w].uid = claims[c].uid]
      BY Zenon, <1>3, <2>2 DEF ReadFresh
    <3> HIDE DEF l
    <3>2. /\ work'[w] = [work[w] EXCEPT !.pc = "allocate", !.held = l, !.uid = claims[c].uid]
          /\ \A x \in Workers \ {w} : work'[x] = work[x]
      BY Zenon, <1>1, <3>1 DEF TypeOK
    <3>3. work'[w].claim = c
      BY Zenon, <1>1, <3>2 DEF Work
    <3>4. claims[c].val = 0
      BY Zenon, <1>2, <3>1 DEF VInv, ClaimsFit, Fit
    <3> QED BY Zenon, <1>1, <3>2, <3>3, <3>4, WorkerReads
  <2> QED BY Zenon, <2>1, <2>2
<1>4. CASE allocate(w)
  <2>1. \/ \E why : work' = [work EXCEPT ![w].pc = "fail", ![w].why = why]
        \/ \E q, v : work' = [work EXCEPT ![w].pc = "lease", ![w].pool = q,
                                          ![w].val = v, ![w].held = NoLease]
    BY Zenon, <1>4 DEF allocate
  <2>2. ASSUME NEW y, work' = [work EXCEPT ![w] = y], y.claim = c
        PROVE  work'[w].claim = c /\ \A x \in Workers \ {w} : work'[x] = work[x]
    BY Zenon, <1>1, <2>2 DEF TypeOK
  <2>3. ASSUME NEW why, work' = [work EXCEPT ![w].pc = "fail", ![w].why = why]
        PROVE  work'[w].claim = c /\ \A x \in Workers \ {w} : work'[x] = work[x]
    <3> DEFINE y == [work[w] EXCEPT !.pc = "fail", !.why = why]
    <3>1. y.claim = c
      BY Zenon, <1>1 DEF Work
    <3>2. work' = [work EXCEPT ![w] = y]
      BY Zenon, <2>3
    <3> HIDE DEF y
    <3> QED BY Zenon, <2>2, <3>1, <3>2
  <2>4. ASSUME NEW q, NEW v, work' = [work EXCEPT ![w].pc = "lease", ![w].pool = q,
                                                 ![w].val = v, ![w].held = NoLease]
        PROVE  work'[w].claim = c /\ \A x \in Workers \ {w} : work'[x] = work[x]
    <3> DEFINE y == [work[w] EXCEPT !.pc = "lease", !.pool = q, !.val = v, !.held = NoLease]
    <3>1. y.claim = c
      BY Zenon, <1>1 DEF Work
    <3>2. work' = [work EXCEPT ![w] = y]
      BY Zenon, <2>4
    <3> HIDE DEF y
    <3> QED BY Zenon, <2>2, <3>1, <3>2
  <2>5. work[w].pc \in Allocating
    BY Zenon, <1>4 DEF allocate, Allocating
  <2>6. work'[w].claim = c /\ \A x \in Workers \ {w} : work'[x] = work[x]
    BY Zenon, <2>1, <2>3, <2>4
  <2> QED BY Zenon, <1>1, <2>5, <2>6, WorkerReads
<1> QED BY Zenon, <1>3, <1>4

(* The steps that are not about the claim's record, and the last one.      *)
LEMMA OtherStepsStable ==
    ASSUME VInv, TInv', NEW w \in Workers,
           \/ reconcileLease(w) \/ ensureOwnerExists(w) \/ ensureLease(w) \/ UpdatePool(w)
           \/ releaseLease(w) \/ removeFinalizer(w)
    PROVE  VInv' /\ \A d \in Claims : Stable(d)
<1>1. TypeOK
  BY Zenon DEF VInv, TInv
<1>2. ASSUME work[w].pc # "idle", UNCHANGED <<claims, claimCache, claimRv>>,
             \/ Done(w) \/ Failed(w)
             \/ \E pc : Goto(w, pc) /\ (pc \in Allocating => work[w].pc \in Allocating)
      PROVE  VInv' /\ \A d \in Claims : Stable(d)
  <2>1. CASE Done(w) \/ Failed(w)
    <3>1. work'[w].pc = "idle" /\ \A x \in Workers \ {w} : work'[x] = work[x]
      BY Zenon, <1>1, <2>1, CallMoves
    <3> QED BY Zenon, <1>2, <3>1, WorkerReads
  <2>2. ASSUME NEW pc, Goto(w, pc), pc \in Allocating => work[w].pc \in Allocating
        PROVE  VInv' /\ \A d \in Claims : Stable(d)
    <3>1. /\ work'[w].pc = pc /\ work'[w].claim = work[w].claim
          /\ \A x \in Workers \ {w} : work'[x] = work[x]
      BY Zenon, <1>1, <2>2, CallMoves
    <3> QED BY Zenon, <1>2, <2>2, <3>1, WorkerReads
  <2> QED BY Zenon, <1>2, <2>1, <2>2
<1>3. CASE reconcileLease(w)
  BY Zenon, <1>2, <1>3 DEF reconcileLease
<1>4. CASE ensureOwnerExists(w)
  BY <1>2, <1>4 DEF ensureOwnerExists, Allocating
<1>5. CASE ensureLease(w)
  <2>1. /\ work[w].pc = "lease" /\ UNCHANGED <<claims, claimCache, claimRv>>
        /\ Done(w) \/ Failed(w) \/ Goto(w, "pool") \/ Goto(w, "read")
    BY Zenon, <1>5 DEF ensureLease, Conflict
  <2> QED BY Zenon, <1>2, <2>1 DEF Allocating
<1>6. CASE UpdatePool(w)
  BY Zenon, <1>2, <1>6 DEF UpdatePool, Conflict, Allocating
<1>7. CASE releaseLease(w)
  <2>1. /\ work[w].pc = "release" /\ UNCHANGED <<claims, claimCache, claimRv>>
        /\ Failed(w) \/ Goto(w, "unfinalize")
    BY Zenon, <1>7 DEF releaseLease
  <2> QED BY <1>2, <2>1 DEF Allocating
<1>8. CASE removeFinalizer(w)
  <2>1. work[w].pc = "unfinalize" /\ UNCHANGED claimCache
    BY Zenon, <1>8 DEF removeFinalizer
  <2>2. work[w].claim \in Claims /\ claims[work[w].claim] \in Claim /\ Fit(claims[work[w].claim])
    BY Zenon, <1>1, <2>1 DEF VInv, TInv, TypeOK, ClaimsFit
  <2>3. Succeeds(NoClaim, claims[work[w].claim])
    BY Zenon, <2>2, PlainWrites
  <2>4. \/ WriteClaim(work[w].claim, NoClaim) /\ Done(w)
        \/ UNCHANGED <<claims, claimRv>> /\ Failed(w)
    BY Zenon, <1>8 DEF removeFinalizer
  <2>5. "idle" \notin Allocating
    BY Zenon DEF Allocating
  <2>6. CASE WriteClaim(work[w].claim, NoClaim) /\ Done(w)
    BY Zenon, <1>1, <2>1, <2>3, <2>5, <2>6, CallMoves, WorkerWrites
  <2> QED BY Zenon, <1>2, <2>1, <2>4, <2>6
<1> QED BY Zenon, <1>3, <1>4, <1>5, <1>6, <1>7, <1>8

LEMMA StepStable ==
    ASSUME Respecced = {}, VInv, [Next]_vars
    PROVE  VInv' /\ \A d \in Claims : Stable(d)
<1>1. TInv'
  BY Zenon, StepTyped DEF VInv
<1>2. CASE UNCHANGED vars
  <2>1. UNCHANGED <<claims, claimCache, claimRv, work>>
    BY Zenon, <1>2 DEF vars
  <2>2. CopySound'
    BY Zenon, <2>1 DEF VInv, CopySound
  <2> QED BY Zenon, <1>1, <2>1, <2>2, Aside
<1>3. ASSUME NEW w \in Workers,
             updateStatusAllocated(w) \/ updateStatusPending(w) \/ updateStatusFailed(w)
      PROVE  VInv' /\ \A d \in Claims : Stable(d)
  <2>1. CASE updateStatusAllocated(w)
    BY Zenon, <1>1, <2>1, updateStatusStable DEF updateStatusAllocated, Allocating
  <2>2. CASE updateStatusPending(w)
    BY Zenon, <1>1, <2>2, updateStatusStable DEF updateStatusPending, Allocating
  <2>3. CASE updateStatusFailed(w)
    BY Zenon, <1>1, <2>3, updateStatusStable DEF updateStatusFailed
  <2> QED BY Zenon, <1>3, <2>1, <2>2, <2>3
<1>4. ASSUME NEW w \in Workers, Reconcile(w)
      PROVE  VInv' /\ \A d \in Claims : Stable(d)
  BY Zenon, <1>1, <1>3, <1>4, StartStable, AddFinalizerStable, AllocationStable, OtherStepsStable
     DEF Reconcile
<1>5. CASE \/ \E c \in Claims : User(c)
           \/ \E p \in Pools : CreatePool(p) \/ ValidatePool(p)
           \/ Inform \/ Reap \/ Restart
  BY Zenon, <1>1, <1>5, EnvironmentStable
<1> QED BY Zenon, <1>2, <1>4, <1>5 DEF Next

LEMMA InitStable == Init => VInv
<1> SUFFICES ASSUME Init PROVE VInv
  BY Zenon
<1>1. TInv
  BY Zenon, InitTyped
<1>2. CopySound
  BY Zenon DEF Init, CopySound
<1>3. /\ \A c \in Claims : ~claims[c].up /\ claims[c].val = 0
      /\ \A w \in Workers : work[w].pc = "idle"
  BY Zenon DEF Init, NoClaim, Idle
<1>4. ClaimsFit /\ Apart /\ \A w \in Workers : Unserved(w)
  BY Zenon, <1>3 DEF ClaimsFit, Fit, Apart, Unserved, Allocating
<1> QED BY Zenon, <1>1, <1>2, <1>4 DEF VInv

(* A claim whose spec is not edited keeps the value it has been given for  *)
(* as long as it exists, with any number of workers, restarts, and caches  *)
(* however stale: a Reconcile call writes the status several steps after   *)
(* it has found the claim without a value, and only on a current copy      *)
(* (allocationclaim_controller.go, updateStatus).                          *)
THEOREM ValuesStable ==
    ASSUME Respecced = {}
    PROVE  Spec => ValueStable
<1>1. VInv /\ [Next]_vars => VInv'
  BY Zenon, StepStable
<1>2. VInv /\ [Next]_vars =>
         [\A c \in Claims : claims[c].val # 0 /\ claims'[c].uid = claims[c].uid
                               => claims'[c].val = claims[c].val]_vars
  BY Zenon, StepStable DEF Stable
<1> QED BY <1>1, <1>2, InitStable, PTL DEF Spec, ValueStable

(***************************************************************************)
(* The leases.                                                             *)
(***************************************************************************)
-----------------------------------------------------------------------------
(* The inductive invariant that the three share.                           *)

(* A cached copy of a lease that is current is a copy of the lease.        *)
LeaseCopySound == \A k \in Leases : leaseRv[k] => leaseCache[k] = leases[k]

(* A lease that exists is held by a claim of its name.                     *)
LeasesNamed ==
    \A k \in Leases :
        \/ leases[k] = NoLease
        \/ leases[k].up /\ leases[k].claim \in Claims /\ LeaseNameFor[leases[k].claim] = k

(* What a call has read of its lease stays true while its own claim holds  *)
(* the lease, whatever calls for other claims of that name do.             *)
HeldCurrent(w) ==
    LET c == work[w].claim
        l == leases[LeaseNameFor[c]]
    IN  work[w].pc = "allocate" /\ l.up /\ l.claim = c => work[w].held = l

BInv == /\ TInv /\ CopySound /\ LeaseCopySound /\ Apart /\ LeasesNamed
        /\ \A w \in Workers : HeldCurrent(w)

-----------------------------------------------------------------------------
(* What a step of worker w may do to the calls,                            *)
Turns(w) ==
    /\ \A x \in Workers \ {w} : work'[x] = work[x]
    /\ \/ work'[w].pc = "idle"
       \/ work[w].pc # "idle" /\ work'[w].claim = work[w].claim
       \/ \A x \in Workers : work[x].claim # work'[w].claim
    /\ work'[w].pc \notin {"idle", "finalizer"}
          => \/ work[w].pc \notin {"idle", "finalizer"} /\ work'[w].claim = work[w].claim
             \/ AddFinalizer(w)
             \/ \E c \in Claims : Start(w, c)
    /\ work'[w].pc = "allocate" => ReadFresh(w)
    /\ work'[w].pc = "lease" => allocate(w)
    /\ work'[w].pc \in {"pool", "allocated"}
          => /\ work[w].pc \in {"lease", "pool"}
             /\ work'[w].claim = work[w].claim
             /\ work'[w].pool = work[w].pool
             /\ work'[w].val = work[w].val
    /\ work'[w].pc = "unfinalize" => releaseLease(w)

(* to the leases,                                                          *)
Rewritten(w, k) ==
    /\ work[w].pc \in {"keep", "release"}
    /\ leases[k].up /\ leases[k].claim = work[w].claim
    /\ leases'[k].up /\ leases'[k].claim = work[w].claim
    /\ leases'[k].pool = leases[k].pool /\ leases'[k].val = leases[k].val
    /\ leases[k].released => leases'[k].released

Written(w, k) ==
    /\ work[w].pc = "lease"
    /\ leases'[k].up /\ leases'[k].claim = work[w].claim
    /\ leases'[k].pool = work[w].pool /\ leases'[k].val = work[w].val

Reserves(w) ==
    \A k \in Leases :
        \/ leases'[k] = leases[k] \/ leases'[k] = NoLease
        \/ k = LeaseNameFor[work[w].claim] /\ (Rewritten(w, k) \/ Written(w, k))

(* and to the claims.                                                      *)
Attends(w) ==
    \A d \in Claims :
        \/ claims'[d] = claims[d]
        \/ /\ d = work[w].claim /\ work[w].pc # "idle" /\ UNCHANGED leases
           /\ \/ work[w].pc = "unfinalize" /\ work'[w].pc = "idle"
              \/ claims[d].up /\ claims[d].fin => claims'[d].up /\ claims'[d].fin
           /\ \/ claims'[d].val \in {0, claims[d].val}
              \/ work[w].pc = "allocated" /\ claims'[d].val = work[w].val

Copies == CopySound /\ LeaseCopySound

LEMMA CopiesKept ==
    ASSUME TypeOK, Copies, UNCHANGED <<claimCache, leaseCache>>,
           UNCHANGED <<claims, claimRv>> \/ \E c \in Claims : \E r : WriteClaim(c, r),
           \/ UNCHANGED <<leases, leaseRv>>
           \/ \E k \in Leases : \E l : WriteLease(k, l)
           \/ \E k \in Leases : RemoveLease(k)
    PROVE  Copies'
<1>1. CopySound'
  BY Zenon, CopiesWritten DEF Copies
<1>2. LeaseCopySound'
  BY Zenon DEF TypeOK, Copies, LeaseCopySound, WriteLease, RemoveLease
<1> QED BY Zenon, <1>1, <1>2 DEF Copies

LEMMA LeaseWritten ==
    ASSUME TypeOK, NEW k \in Leases, NEW l, WriteLease(k, l)
    PROVE  \A j \in Leases : leases'[j] = IF j = k THEN l ELSE leases[j]
  BY Zenon DEF TypeOK, WriteLease

LEMMA NoLeaseFacts ==
    ~NoLease.up /\ NoLease.pool = None
  BY Zenon DEF NoLease

LEMMA LeaseRemoved ==
    ASSUME TypeOK, NEW k \in Leases, RemoveLease(k)
    PROVE  \A j \in Leases : leases'[j] = IF j = k THEN NoLease ELSE leases[j]
  BY Zenon DEF TypeOK, RemoveLease

LEMMA ClaimWritten ==
    ASSUME TypeOK, NEW c \in Claims, NEW r, WriteClaim(c, r)
    PROVE  \A d \in Claims : claims'[d] = IF d = c THEN r ELSE claims[d]
  BY Zenon DEF TypeOK, WriteClaim

(* How a call goes on, or ends, field by field.                            *)
LEMMA CallTurns ==
    ASSUME TypeOK, NEW w \in Workers
    PROVE  /\ Done(w) \/ Failed(w) =>
                 work'[w].pc = "idle" /\ \A x \in Workers \ {w} : work'[x] = work[x]
           /\ \A pc : Goto(w, pc) =>
                 /\ work'[w].pc = pc /\ work'[w].claim = work[w].claim
                 /\ work'[w].pool = work[w].pool /\ work'[w].val = work[w].val
                 /\ \A x \in Workers \ {w} : work'[x] = work[x]
<1>1. work[w] \in Work
  BY Zenon DEF TypeOK
<1>2. \A pc : Goto(w, pc) => work'[w] = [work[w] EXCEPT !.pc = pc]
  BY Zenon DEF TypeOK, Goto
<1>3. \A pc : Goto(w, pc) => work'[w].pool = work[w].pool /\ work'[w].val = work[w].val
  BY Zenon, <1>1, <1>2 DEF Work
<1> QED BY Zenon, <1>3, CallMoves

-----------------------------------------------------------------------------
(* The steps of a worker.                                                  *)
Steps(w) == Copies' /\ Turns(w) /\ Reserves(w) /\ Attends(w)

(* A call that ends, or goes on to a point where nothing was chosen.       *)
LEMMA PlainTurns ==
    ASSUME TypeOK, NEW w \in Workers, work[w].pc # "idle",
           \/ Done(w) \/ Failed(w)
           \/ \E pc : /\ Goto(w, pc)
                     /\ \/ pc = "finalizer"
                        \/ pc \in {"read", "reject"} /\ work[w].pc # "finalizer"
    PROVE  Turns(w)
<1>1. CASE Done(w) \/ Failed(w)
  BY Zenon, <1>1, CallTurns DEF Turns
<1>2. CASE \E pc : /\ Goto(w, pc)
                  /\ \/ pc = "finalizer"
                     \/ pc \in {"read", "reject"} /\ work[w].pc # "finalizer"
  <2>1. PICK pc : /\ Goto(w, pc)
                  /\ \/ pc = "finalizer"
                     \/ pc \in {"read", "reject"} /\ work[w].pc # "finalizer"
    BY Zenon, <1>2
  <2>2. /\ work'[w].pc = pc /\ work'[w].claim = work[w].claim
        /\ \A x \in Workers \ {w} : work'[x] = work[x]
    BY Zenon, <2>1, CallTurns
  <2> QED BY Zenon, <2>1, <2>2 DEF Turns
<1> QED BY Zenon, <1>1, <1>2

LEMMA StartSteps ==
    ASSUME BInv, NEW w \in Workers, NEW c \in Claims, Start(w, c)
    PROVE  Steps(w)
<1> USE DEF BInv, TInv
<1>1. UNCHANGED <<claims, leases, claimCache, leaseCache, leaseRv>> /\ work[w].pc = "idle"
  BY Zenon DEF Start
<1>2. Copies'
  <2>1. claimRv' = [claimRv EXCEPT ![c] = IF "cache" \in claimRv[c] THEN claimRv[c] \cup {w}
                                         ELSE claimRv[c] \ {w}]
    BY Zenon DEF Start
  <2>2. \A d \in Claims : "cache" \in claimRv'[d] => "cache" \in claimRv[d]
    BY Zenon, <2>1 DEF TypeOK
  <2> QED BY Zenon, <1>1, <2>2 DEF Copies, CopySound, LeaseCopySound
<1>3. Reserves(w) /\ Attends(w)
  BY Zenon, <1>1 DEF Reserves, Attends
<1>4. Turns(w)
  <2>1. CASE work' = work
    BY Zenon, <1>1, <2>1 DEF Turns
  <2>2. CASE work' # work
    <3> DEFINE r == claimCache[c]
               pc == IF r.deleting THEN "release"
                     ELSE IF ~r.fin THEN "finalizer" ELSE Proceed(c, r)
               y == [Idle EXCEPT !.claim = c, !.uid = r.uid, !.pc = pc]
    <3>1. work' = [work EXCEPT ![w] = y]
      BY Zenon, <2>2 DEF Start
    <3>2. y.claim = c /\ y.pc = pc
      BY Zenon DEF Idle
    <3>3. pc \in {"release", "finalizer", "keep", "reject", "owner"}
      BY Zenon DEF Proceed
    <3> HIDE DEF y, pc
    <3>4. work'[w] = y /\ \A x \in Workers \ {w} : work'[x] = work[x]
      BY Zenon, <3>1 DEF TypeOK
    <3>5. \A x \in Workers : work[x].claim # c
      BY Zenon DEF Start
    <3> QED BY Zenon, <3>2, <3>3, <3>4, <3>5 DEF Turns
  <2> QED BY Zenon, <2>1, <2>2
<1> QED BY Zenon, <1>2, <1>3, <1>4 DEF Steps

LEMMA AddFinalizerSteps ==
    ASSUME BInv, NEW w \in Workers, AddFinalizer(w)
    PROVE  Steps(w)
<1> USE DEF BInv, TInv
<1> DEFINE c == work[w].claim
           r == [claims[c] EXCEPT !.fin = TRUE]
           pc == Proceed(c, claimCache[c])
           next == [work EXCEPT ![w].pc = pc, ![w].uid = claimCache[c].uid]
<1>1. /\ c \in Claims /\ claims[c] \in Claim /\ work[w].pc = "finalizer"
      /\ UNCHANGED <<leases, claimCache, leaseCache, leaseRv>>
  BY Zenon DEF AddFinalizer, TypeOK
<1>2. WriteClaim(c, r) \/ UNCHANGED <<claims, claimRv>>
  BY Zenon DEF AddFinalizer
<1>3. r.up = claims[c].up /\ r.fin = TRUE /\ r.val = claims[c].val
  BY Zenon, <1>1 DEF Claim
<1>4. Done(w) \/ Failed(w) \/ Goto(w, "finalizer") \/ work' = next
  BY Zenon DEF AddFinalizer, Conflict
<1>5. ASSUME work' = next PROVE Turns(w)
  <2>1. pc \in {"keep", "owner", "reject"}
    BY Zenon DEF Proceed
  <2> HIDE DEF pc
  <2>2. /\ work'[w] = [work[w] EXCEPT !.pc = pc, !.uid = claimCache[c].uid]
        /\ \A x \in Workers \ {w} : work'[x] = work[x]
    BY Zenon, <1>5 DEF TypeOK
  <2>3. work'[w].pc = pc /\ work'[w].claim = c
    BY <2>2 DEF TypeOK, Work
  <2> QED BY Zenon, <1>1, <2>1, <2>2, <2>3 DEF Turns
<1> HIDE DEF r, next
<1>6. Turns(w)
  BY Zenon, <1>1, <1>4, <1>5, PlainTurns
<1>7. Copies'
  BY Zenon, <1>1, <1>2, CopiesKept DEF Copies
<1>8. Reserves(w)
  BY Zenon, <1>1 DEF Reserves
<1>9. Attends(w)
  BY <1>1, <1>2, <1>3, ClaimWritten DEF Attends
<1> QED BY Zenon, <1>6, <1>7, <1>8, <1>9 DEF Steps

LEMMA updateStatusSteps ==
    ASSUME BInv, NEW w \in Workers, NEW pc, NEW retry \in {"read", "reject"}, NEW st, NEW v,
           pc \notin {"idle", "finalizer"},
           v = 0 \/ (pc = "allocated" /\ v = work[w].val),
           updateStatus(w, pc, retry, st, v)
    PROVE  Steps(w)
<1> USE DEF BInv, TInv
<1> DEFINE c == work[w].claim
           r == [claimCache[c] EXCEPT !.status = st, !.val = v, !.observed = TRUE]
<1>1. /\ work[w].pc = pc /\ c \in Claims /\ claimCache[c] \in Claim
      /\ UNCHANGED <<leases, claimCache, leaseCache, leaseRv>>
  BY Zenon DEF updateStatus, TypeOK
<1>2. \/ WriteClaim(c, r) /\ "cache" \in claimRv[c]
      \/ UNCHANGED <<claims, claimRv>>
  BY Zenon DEF updateStatus
<1>3. "cache" \in claimRv[c] => r.up = claims[c].up /\ r.fin = claims[c].fin /\ r.val = v
  BY Zenon, <1>1 DEF Claim, CopySound
<1>4. Done(w) \/ Failed(w) \/ Goto(w, retry)
  BY Zenon DEF updateStatus, Conflict
<1> HIDE DEF r
<1>5. Turns(w)
  BY Zenon, <1>1, <1>4, PlainTurns
<1>6. Copies'
  BY Zenon, <1>1, <1>2, CopiesKept DEF Copies
<1>7. Reserves(w)
  BY Zenon, <1>1 DEF Reserves
<1>8. Attends(w)
  <2>1. CASE UNCHANGED <<claims, claimRv>>
    BY Zenon, <2>1 DEF Attends
  <2>2. CASE WriteClaim(c, r) /\ "cache" \in claimRv[c]
    <3>1. \A d \in Claims : claims'[d] = IF d = c THEN r ELSE claims[d]
      BY ZenonT(30), <1>1, <2>2, ClaimWritten
    <3> HIDE DEF BInv, TInv
    <3> QED BY Zenon, <1>1, <1>3, <2>2, <3>1 DEF Attends
  <2> QED BY Zenon, <1>2, <2>1, <2>2
<1> QED BY Zenon, <1>5, <1>6, <1>7, <1>8 DEF Steps

(* The steps that write neither claims nor leases.                         *)
LEMMA ReadingSteps ==
    ASSUME BInv, NEW w \in Workers,
           ensureOwnerExists(w) \/ ReadFresh(w) \/ allocate(w) \/ UpdatePool(w)
    PROVE  Steps(w)
<1> USE DEF BInv, TInv
<1>1. UNCHANGED <<claims, claimRv, claimCache, leases, leaseRv, leaseCache>>
  BY Zenon DEF ensureOwnerExists, ReadFresh, allocate, UpdatePool
<1>2. work[w].pc \in {"owner", "read", "allocate", "pool"} /\ work[w] \in Work
  BY Zenon DEF ensureOwnerExists, ReadFresh, allocate, UpdatePool, TypeOK
<1>3. ASSUME NEW y, work' = [work EXCEPT ![w] = y], y.claim = work[w].claim,
             \/ y.pc = "allocate" /\ ReadFresh(w)
             \/ y.pc = "lease" /\ allocate(w)
             \/ y.pc = "fail"
      PROVE  Turns(w)
  <2>1. work'[w] = y /\ \A x \in Workers \ {w} : work'[x] = work[x]
    BY Zenon, <1>3 DEF TypeOK
  <2> QED BY Zenon, <1>2, <1>3, <2>1 DEF Turns
<1>4. ASSUME ensureOwnerExists(w) PROVE Turns(w)
  BY Zenon, <1>2, <1>4, PlainTurns DEF ensureOwnerExists
<1>5. ASSUME ReadFresh(w) PROVE Turns(w)
  <2> DEFINE c == work[w].claim
             y == [work[w] EXCEPT !.pc = "allocate", !.held = leases[LeaseNameFor[c]],
                                  !.uid = claims[c].uid]
  <2>1. y.pc = "allocate" /\ y.claim = work[w].claim
    BY Zenon, <1>2 DEF Work
  <2>2. Done(w) \/ Failed(w) \/ work' = [work EXCEPT ![w] = y]
    BY Zenon, <1>5 DEF ReadFresh
  <2> HIDE DEF y
  <2> QED BY Zenon, <1>2, <1>3, <1>5, <2>1, <2>2, PlainTurns
<1>6. ASSUME allocate(w) PROVE Turns(w)
  <2>1. ASSUME NEW why, work' = [work EXCEPT ![w].pc = "fail", ![w].why = why]
        PROVE  Turns(w)
    <3> DEFINE y == [work[w] EXCEPT !.pc = "fail", !.why = why]
    <3>1. y.pc = "fail" /\ y.claim = work[w].claim
      BY Zenon, <1>2 DEF Work
    <3>2. work' = [work EXCEPT ![w] = y]
      BY Zenon, <2>1
    <3> HIDE DEF y
    <3> QED BY Zenon, <1>3, <3>1, <3>2
  <2>2. ASSUME NEW q, NEW v, work' = [work EXCEPT ![w].pc = "lease", ![w].pool = q,
                                                 ![w].val = v, ![w].held = NoLease]
        PROVE  Turns(w)
    <3> DEFINE y == [work[w] EXCEPT !.pc = "lease", !.pool = q, !.val = v, !.held = NoLease]
    <3>1. y.pc = "lease" /\ y.claim = work[w].claim
      BY Zenon, <1>2 DEF Work
    <3>2. work' = [work EXCEPT ![w] = y]
      BY Zenon, <2>2
    <3> HIDE DEF y
    <3> QED BY Zenon, <1>3, <1>6, <3>1, <3>2
  <2>3. \/ \E why : work' = [work EXCEPT ![w].pc = "fail", ![w].why = why]
        \/ \E q, v : work' = [work EXCEPT ![w].pc = "lease", ![w].pool = q,
                                          ![w].val = v, ![w].held = NoLease]
    BY Zenon, <1>6 DEF allocate
  <2> QED BY Zenon, <2>1, <2>2, <2>3
<1>7. ASSUME UpdatePool(w) PROVE Turns(w)
  <2>1. CASE Goto(w, "allocated")
    <3>1. /\ work'[w].pc = "allocated" /\ work'[w].claim = work[w].claim
          /\ work'[w].pool = work[w].pool /\ work'[w].val = work[w].val
          /\ \A x \in Workers \ {w} : work'[x] = work[x]
      BY Zenon, <2>1, CallTurns
    <3>2. work[w].pc = "pool"
      BY Zenon, <1>7 DEF UpdatePool
    <3> QED BY Zenon, <3>1, <3>2 DEF Turns
  <2> QED BY Zenon, <1>2, <1>7, <2>1, PlainTurns DEF UpdatePool, Conflict
<1>8. Copies'
  BY Zenon, <1>1, CopiesKept DEF Copies
<1>9. Reserves(w) /\ Attends(w)
  BY Zenon, <1>1 DEF Reserves, Attends
<1> QED BY Zenon, <1>4, <1>5, <1>6, <1>7, <1>8, <1>9 DEF Steps

LEMMA reconcileLeaseSteps ==
    ASSUME BInv, NEW w \in Workers, reconcileLease(w)
    PROVE  Steps(w)
<1> USE DEF BInv, TInv
<1> DEFINE c == work[w].claim
           k == LeaseNameFor[c]
           l == [leases[k] EXCEPT !.uid = work[w].uid]
<1>1. /\ c \in Claims /\ k \in Leases /\ leases[k] \in Lease /\ work[w].pc = "keep"
      /\ UNCHANGED <<claims, claimRv, claimCache, leaseCache>> /\ (Done(w) \/ Failed(w))
  BY Zenon, ConstantsAssumption DEF reconcileLease, TypeOK
<1>2. \/ leases[k].up /\ leases[k].claim = c /\ WriteLease(k, l)
      \/ UNCHANGED <<leases, leaseRv>>
  BY Zenon DEF reconcileLease, leaseOwnedByClaim
<1>3. /\ l.up = leases[k].up /\ l.claim = leases[k].claim /\ l.pool = leases[k].pool
      /\ l.val = leases[k].val /\ l.released = leases[k].released
  BY Zenon, <1>1 DEF Lease
<1> HIDE DEF l
<1>4. Turns(w)
  BY Zenon, <1>1, PlainTurns
<1>5. Copies'
  BY Zenon, <1>1, <1>2, CopiesKept DEF Copies
<1>6. Reserves(w)
  BY <1>1, <1>2, <1>3, LeaseWritten DEF Reserves, Rewritten
<1>7. Attends(w)
  BY Zenon, <1>1 DEF Attends
<1> QED BY Zenon, <1>4, <1>5, <1>6, <1>7 DEF Steps

LEMMA ensureLeaseSteps ==
    ASSUME BInv, NEW w \in Workers, ensureLease(w)
    PROVE  Steps(w)
<1> USE DEF BInv, TInv
<1> DEFINE c == work[w].claim
           k == LeaseNameFor[c]
           want == [up |-> TRUE, pool |-> work[w].pool, val |-> work[w].val,
                    claim |-> c, uid |-> work[w].uid, released |-> FALSE]
<1>1. /\ c \in Claims /\ k \in Leases /\ work[w].pc = "lease"
      /\ UNCHANGED <<claims, claimRv, claimCache, leaseCache>>
  BY Zenon, ConstantsAssumption DEF ensureLease
<1>2. WriteLease(k, want) \/ UNCHANGED <<leases, leaseRv>>
  BY Zenon DEF ensureLease
<1>3. Goto(w, "pool") \/ Done(w) \/ Failed(w) \/ Goto(w, "read")
  BY Zenon DEF ensureLease, Conflict
<1>4. Turns(w)
  <2>1. CASE Goto(w, "pool")
    <3>1. /\ work'[w].pc = "pool" /\ work'[w].claim = work[w].claim
          /\ work'[w].pool = work[w].pool /\ work'[w].val = work[w].val
          /\ \A x \in Workers \ {w} : work'[x] = work[x]
      BY Zenon, <2>1, CallTurns
    <3> QED BY Zenon, <1>1, <3>1 DEF Turns
  <2> QED BY Zenon, <1>1, <1>3, <2>1, PlainTurns
<1>5. want.up /\ want.claim = c /\ want.pool = work[w].pool /\ want.val = work[w].val
  BY Zenon
<1> HIDE DEF want
<1>6. Copies'
  BY Zenon, <1>1, <1>2, CopiesKept DEF Copies
<1>7. Reserves(w)
  <2>1. CASE WriteLease(k, want)
    <3>1. \A j \in Leases : leases'[j] = IF j = k THEN want ELSE leases[j]
      BY ZenonT(30), <1>1, <2>1, LeaseWritten
    <3>2. Written(w, k)
      BY Zenon, <1>1, <1>5, <3>1 DEF Written
    <3> QED BY Zenon, <3>1, <3>2 DEF Reserves
  <2> QED BY Zenon, <1>2, <2>1 DEF Reserves
<1>8. Attends(w)
  BY Zenon, <1>1 DEF Attends
<1> QED BY Zenon, <1>4, <1>6, <1>7, <1>8 DEF Steps

(* The lease is given up by the cached copy, or removed by its name.       *)
LEMMA releaseLeaseSteps ==
    ASSUME BInv, NEW w \in Workers, releaseLease(w)
    PROVE  Steps(w)
<1> USE DEF BInv, TInv
<1> DEFINE c == work[w].claim
           k == LeaseNameFor[c]
           l == [leases[k] EXCEPT !.released = TRUE]
<1>1. /\ c \in Claims /\ k \in Leases /\ leases[k] \in Lease /\ work[w].pc = "release"
      /\ UNCHANGED <<claims, claimRv, claimCache, leaseCache>>
  BY Zenon, ConstantsAssumption DEF releaseLease, TypeOK
<1>2. \/ leases[k].up /\ leases[k].claim = c /\ WriteLease(k, l)
      \/ RemoveLease(k)
      \/ UNCHANGED <<leases, leaseRv>>
  BY Zenon, <1>1 DEF releaseLease, leaseOwnedByClaim, LeaseCopySound
<1>3. /\ l.up = leases[k].up /\ l.claim = leases[k].claim /\ l.pool = leases[k].pool
      /\ l.val = leases[k].val /\ l.released
  BY Zenon, <1>1 DEF Lease
<1> HIDE DEF l
<1>4. Turns(w)
  <2>1. CASE Goto(w, "unfinalize")
    <3>1. /\ work'[w].pc = "unfinalize" /\ work'[w].claim = work[w].claim
          /\ \A x \in Workers \ {w} : work'[x] = work[x]
      BY Zenon, <2>1, CallTurns
    <3> QED BY Zenon, <1>1, <3>1 DEF Turns
  <2>2. Failed(w) \/ Goto(w, "unfinalize")
    BY Zenon DEF releaseLease
  <2> QED BY Zenon, <1>1, <2>1, <2>2, PlainTurns
<1>5. Copies'
  BY Zenon, <1>1, <1>2, CopiesKept DEF Copies
<1>6. Reserves(w)
  <2>1. CASE leases[k].up /\ leases[k].claim = c /\ WriteLease(k, l)
    <3>1. \A j \in Leases : leases'[j] = IF j = k THEN l ELSE leases[j]
      BY Zenon, <1>1, <2>1, LeaseWritten
    <3>2. Rewritten(w, k)
      BY Zenon, <1>1, <1>3, <2>1, <3>1 DEF Rewritten
    <3> QED BY Zenon, <3>1, <3>2 DEF Reserves
  <2>2. CASE RemoveLease(k)
    <3>1. \A j \in Leases : leases'[j] = IF j = k THEN NoLease ELSE leases[j]
      BY Zenon, <1>1, <2>2, LeaseRemoved
    <3> QED BY Zenon, <3>1 DEF Reserves
  <2> QED BY Zenon, <1>2, <2>1, <2>2 DEF Reserves
<1>7. Attends(w)
  BY Zenon, <1>1 DEF Attends
<1> QED BY Zenon, <1>4, <1>5, <1>6, <1>7 DEF Steps

LEMMA removeFinalizerSteps ==
    ASSUME BInv, NEW w \in Workers, removeFinalizer(w)
    PROVE  Steps(w)
<1> USE DEF BInv, TInv
<1> DEFINE c == work[w].claim
<1>1. /\ c \in Claims /\ work[w].pc = "unfinalize"
      /\ UNCHANGED <<leases, claimCache, leaseCache, leaseRv>>
  BY Zenon DEF removeFinalizer
<1>2. \/ WriteClaim(c, NoClaim) /\ Done(w)
      \/ UNCHANGED <<claims, claimRv>> /\ Failed(w)
  BY Zenon DEF removeFinalizer
<1>3. Turns(w) /\ work'[w].pc = "idle"
  BY Zenon, <1>1, <1>2, PlainTurns, CallTurns
<1>4. Copies'
  BY Zenon, <1>1, <1>2, CopiesKept DEF Copies
<1>5. Reserves(w)
  BY Zenon, <1>1 DEF Reserves
<1>6. Attends(w)
  <2>1. CASE UNCHANGED <<claims, claimRv>>
    BY Zenon, <2>1 DEF Attends
  <2>2. CASE WriteClaim(c, NoClaim)
    <3>1. \A d \in Claims : claims'[d] = IF d = c THEN NoClaim ELSE claims[d]
      BY Zenon, <1>1, <2>2, ClaimWritten
    <3>2. NoClaim.val = 0
      BY Zenon DEF NoClaim
    <3> HIDE DEF BInv, TInv
    <3> QED BY Zenon, <1>1, <1>3, <3>1, <3>2 DEF Attends
  <2> QED BY Zenon, <1>2, <2>1, <2>2
<1> QED BY Zenon, <1>3, <1>4, <1>5, <1>6 DEF Steps

LEMMA ReconcileSteps ==
    ASSUME BInv, NEW w \in Workers, Reconcile(w)
    PROVE  Steps(w)
<1>1. CASE updateStatusAllocated(w)
  BY <1>1, updateStatusSteps DEF updateStatusAllocated
<1>2. CASE updateStatusPending(w)
  BY <1>2, updateStatusSteps DEF updateStatusPending
<1>3. CASE updateStatusFailed(w)
  <2>1. updateStatus(w, "reject", "reject", "Failed", 0)
    BY Zenon, <1>3 DEF updateStatusFailed
  <2>2. "reject" \notin {"idle", "finalizer"} /\ "reject" \in {"read", "reject"}
    BY Zenon
  <2> QED BY Zenon, <2>1, <2>2, updateStatusSteps
<1>4. CASE ensureOwnerExists(w) \/ ReadFresh(w) \/ allocate(w) \/ UpdatePool(w)
  BY Zenon, <1>4, ReadingSteps
<1>5. CASE reconcileLease(w) \/ ensureLease(w) \/ releaseLease(w)
  BY Zenon, <1>5, reconcileLeaseSteps, ensureLeaseSteps, releaseLeaseSteps
<1>6. CASE (\E c \in Claims : Start(w, c)) \/ AddFinalizer(w) \/ removeFinalizer(w)
  BY Zenon, <1>6, StartSteps, AddFinalizerSteps, removeFinalizerSteps
<1> QED
  BY Zenon, <1>1, <1>2, <1>3, <1>4, <1>5, <1>6 DEF Reconcile

-----------------------------------------------------------------------------
(* The steps of everybody else: leases only go, the calls go on or are     *)
(* lost, and a claim keeps its finalizer.                                  *)
Around ==
    /\ Copies'
    /\ UNCHANGED work \/ \A w \in Workers : work'[w].pc = "idle"
    /\ \A k \in Leases : leases'[k] = leases[k] \/ leases'[k] = NoLease
    /\ \A d \in Claims :
          /\ claims[d].up /\ claims[d].fin => claims'[d].up /\ claims'[d].fin
          /\ claims'[d].val \in {0, claims[d].val}
    /\ \A p \in Pools : pools'[p] = "absent" => pools[p] = "absent"

LEMMA EnvironmentSteps ==
    ASSUME BInv,
           \/ \E c \in Claims : User(c)
           \/ \E p \in Pools : CreatePool(p) \/ ValidatePool(p)
           \/ Inform \/ Reap \/ Restart
    PROVE  Around
<1> USE DEF BInv, TInv
<1>1. ASSUME NEW c \in Claims, NEW r, WriteClaim(c, r),
             UNCHANGED <<claimCache, leases, leaseCache, leaseRv, pools, work>>,
             claims[c].up /\ claims[c].fin => r.up /\ r.fin,
             r.val \in {0, claims[c].val}
      PROVE  Around
  <2>1. Copies'
    BY Zenon, <1>1, CopiesKept DEF Copies
  <2> QED BY ZenonT(30), <1>1, <2>1, ClaimWritten DEF Around
<1>2. ASSUME NEW c \in Claims, CreateClaim(c) PROVE Around
  <2> DEFINE r == [NoClaim EXCEPT !.up = TRUE, !.uid = births']
  <2>1. r.val = 0
    BY Zenon DEF NoClaim
  <2> HIDE DEF r
  <2> QED BY Zenon, <1>1, <1>2, <2>1 DEF CreateClaim, r
<1>3. ASSUME NEW c \in Claims, DeleteClaim(c) PROVE Around
  <2> DEFINE r == IF claims[c].fin THEN [claims[c] EXCEPT !.deleting = TRUE] ELSE NoClaim
  <2>1. /\ claims[c].up /\ claims[c].fin => r.up /\ r.fin
        /\ r.val \in {0, claims[c].val}
    BY ZenonT(30) DEF TypeOK, Claim, NoClaim
  <2>2. /\ WriteClaim(c, r)
        /\ UNCHANGED <<claimCache, leases, leaseCache, leaseRv, pools, work>>
    BY Zenon, <1>3 DEF DeleteClaim
  <2> HIDE DEF r
  <2> QED BY Zenon, <1>1, <2>1, <2>2
<1>4. ASSUME NEW c \in Claims, UpdateSpec(c) PROVE Around
  <2> DEFINE r == [claims[c] EXCEPT !.observed = FALSE]
  <2>1. r.up = claims[c].up /\ r.fin = claims[c].fin /\ r.val = claims[c].val
    BY DEF TypeOK, Claim
  <2>2. /\ WriteClaim(c, r)
        /\ UNCHANGED <<claimCache, leases, leaseCache, leaseRv, pools, work>>
    BY Zenon, <1>4 DEF UpdateSpec
  <2> HIDE DEF r
  <2> QED BY Zenon, <1>1, <2>1, <2>2
<1>5. ASSUME NEW p \in Pools, CreatePool(p) \/ ValidatePool(p) PROVE Around
  <2>1. /\ UNCHANGED <<claims, claimRv, claimCache, leases, leaseCache, leaseRv, work>>
        /\ \A q \in Pools : pools'[q] = "absent" => pools[q] = "absent"
    BY Zenon, <1>5 DEF CreatePool, ValidatePool, TypeOK
  <2> QED BY Zenon, <2>1, CopiesKept DEF Around, Copies
<1>6. ASSUME NEW c \in Claims, InformClaim(c) PROVE Around
  <2>1. Copies'
    BY Zenon, <1>6 DEF InformClaim, Copies, CopySound, LeaseCopySound, TypeOK
  <2> QED BY Zenon, <1>6, <2>1 DEF InformClaim, Around
<1>7. ASSUME NEW k \in Leases, InformLease(k) PROVE Around
  <2>1. Copies'
    BY Zenon, <1>7 DEF InformLease, Copies, CopySound, LeaseCopySound, TypeOK
  <2> QED BY Zenon, <1>7, <2>1 DEF InformLease, Around
<1>8. ASSUME NEW k \in Leases, FindExpired(k) \/ DeleteExpired(k) PROVE Around
  <2>1. /\ UNCHANGED <<claims, claimRv, claimCache, leaseCache, pools, work>>
        /\ RemoveLease(k) \/ UNCHANGED <<leases, leaseRv>>
    BY Zenon, <1>8 DEF FindExpired, DeleteExpired
  <2>2. Copies'
    BY Zenon, <2>1, CopiesKept DEF Copies
  <2> QED BY Zenon, <2>1, <2>2, LeaseRemoved DEF Around
<1>9. CASE Restart
  <2>1. Copies'
    BY Zenon, <1>9 DEF Restart, Copies, CopySound, LeaseCopySound
  <2> QED BY Zenon, <1>9, <2>1 DEF Restart, Around, Idle
<1> QED BY Zenon, <1>2, <1>3, <1>4, <1>5, <1>6, <1>7, <1>8, <1>9 DEF User, Inform, Reap

-----------------------------------------------------------------------------
(* The shared invariant is inductive, whatever the caches and the number   *)
(* of workers.                                                             *)
LEMMA HeldRead ==
    ASSUME BInv, NEW w \in Workers, ReadFresh(w), work'[w].pc = "allocate"
    PROVE  HeldCurrent(w)'
<1> USE DEF BInv, TInv
<1> DEFINE c == work[w].claim
           l == leases[LeaseNameFor[c]]
<1>1. work' = [work EXCEPT ![w].pc = "allocate", ![w].held = l, ![w].uid = claims[c].uid]
  <2>1. ~(Done(w) \/ Failed(w))
    BY Zenon, CallTurns
  <2> QED BY Zenon, <2>1 DEF ReadFresh
<1> HIDE DEF l
<1>2. work'[w] = [work[w] EXCEPT !.pc = "allocate", !.held = l, !.uid = claims[c].uid]
  BY Zenon, <1>1 DEF TypeOK
<1>3. work'[w].claim = c /\ work'[w].held = l
  BY <1>2 DEF TypeOK, Work
<1>4. UNCHANGED leases
  BY Zenon DEF ReadFresh
<1> QED BY Zenon, <1>3, <1>4 DEF HeldCurrent, l

LEMMA WorkerBase ==
    ASSUME BInv, TInv', NEW w \in Workers, Steps(w)
    PROVE  BInv'
<1>1. CopySound' /\ LeaseCopySound'
  BY Zenon DEF Steps, Copies
<1>2. Apart'
  <2>1. /\ \A x \in Workers \ {w} : work'[x] = work[x]
        /\ \/ work'[w].pc = "idle"
           \/ work[w].pc # "idle" /\ work'[w].claim = work[w].claim
           \/ \A x \in Workers : work[x].claim # work'[w].claim
    BY Zenon DEF Steps, Turns
  <2>2. ASSUME NEW x \in Workers, x # w, work[x].pc # "idle", work'[w].pc # "idle"
        PROVE  work'[w].claim # work[x].claim
    BY Zenon, <2>1, <2>2 DEF BInv, Apart
  <2> QED BY ZenonT(30), <2>1, <2>2 DEF BInv, Apart
<1>3. work[w].pc # "idle" => work[w].claim \in Claims
  BY Zenon DEF BInv, TInv
<1>4. LeasesNamed'
  BY Zenon, <1>3 DEF BInv, LeasesNamed, Steps, Reserves, Rewritten, Written
<1>5. HeldCurrent(w)'
  <2>1. CASE work'[w].pc = "allocate"
    BY Zenon, <2>1, HeldRead DEF Steps, Turns
  <2> QED BY Zenon, <2>1 DEF HeldCurrent
<1>6. ASSUME NEW x \in Workers, x # w, work[x].pc = "allocate"
      PROVE  LET l == leases[LeaseNameFor[work[x].claim]]
                 m == leases'[LeaseNameFor[work[x].claim]]
             IN  m.up /\ m.claim = work[x].claim => work[x].held = m
  <2> DEFINE c == work[x].claim
             k == LeaseNameFor[c]
  <2>1. c \in Claims /\ k \in Leases /\ (work[w].pc # "idle" => work[w].claim # c)
    BY Zenon, <1>6, ConstantsAssumption DEF BInv, TInv, Apart
  <2>2. leases[k].up /\ leases[k].claim = c => work[x].held = leases[k]
    BY Zenon, <1>6 DEF BInv, HeldCurrent
  <2>3. ~NoLease.up
    BY Zenon, NoLeaseFacts
  <2> QED BY Zenon, <2>1, <2>2, <2>3 DEF Steps, Reserves, Rewritten, Written
<1>7. ASSUME NEW x \in Workers PROVE HeldCurrent(x)'
  <2>1. CASE x = w
    BY Zenon, <1>5, <2>1
  <2>2. CASE x # w
    <3>1. work'[x] = work[x]
      BY Zenon, <2>2 DEF Steps, Turns
    <3>2. CASE work[x].pc = "allocate"
      BY Zenon, <1>6, <2>2, <3>1, <3>2 DEF HeldCurrent
    <3> QED BY Zenon, <3>1, <3>2 DEF HeldCurrent
  <2> QED BY Zenon, <2>1, <2>2
<1> QED BY Zenon, <1>1, <1>2, <1>4, <1>7 DEF BInv

LEMMA AroundBase ==
    ASSUME BInv, TInv', Around
    PROVE  BInv'
<1>1. CopySound' /\ LeaseCopySound'
  BY Zenon DEF Around, Copies
<1>2. Apart'
  BY ZenonT(30) DEF BInv, Apart, Around
<1>3. LeasesNamed'
  BY Zenon DEF BInv, LeasesNamed, Around
<1>4. ASSUME NEW x \in Workers, UNCHANGED work, work[x].pc = "allocate"
      PROVE  HeldCurrent(x)'
  <2>1. LeaseNameFor[work[x].claim] \in Leases /\ HeldCurrent(x)
    BY Zenon, <1>4, ConstantsAssumption DEF BInv, TInv
  <2> QED BY Zenon, <1>4, <2>1, NoLeaseFacts DEF HeldCurrent, Around
<1>5. \A x \in Workers : HeldCurrent(x)'
  BY Zenon, <1>4 DEF HeldCurrent, Around
<1> QED BY Zenon, <1>1, <1>2, <1>3, <1>5 DEF BInv

LEMMA StillAround ==
    ASSUME BInv, UNCHANGED vars
    PROVE  Around
<1>1. UNCHANGED <<claims, claimRv, claimCache, leases, leaseRv, leaseCache, pools, work>>
  BY Zenon DEF vars
<1> QED BY Zenon, <1>1, CopiesKept DEF BInv, TInv, Around, Copies

(* Every step is one of the two kinds.                                     *)
LEMMA StepBase ==
    ASSUME BInv, [Next]_vars
    PROVE  BInv' /\ (Around \/ \E w \in Workers : Reconcile(w) /\ Steps(w))
<1>1. TInv'
  BY Zenon, StepTyped DEF BInv
<1>2. Around \/ \E w \in Workers : Reconcile(w) /\ Steps(w)
  BY Zenon, StillAround, EnvironmentSteps, ReconcileSteps DEF Next
<1> QED BY Zenon, <1>1, <1>2, WorkerBase, AroundBase

LEMMA InitBase == Init => BInv
<1> SUFFICES ASSUME Init PROVE BInv
  BY Zenon
<1>1. TInv
  BY Zenon, InitTyped
<1>2. CopySound /\ LeaseCopySound
  BY Zenon DEF Init, CopySound, LeaseCopySound
<1>3. LeasesNamed
  BY Zenon DEF Init, LeasesNamed
<1>4. \A w \in Workers : work[w].pc = "idle"
  BY Zenon DEF Init, Idle
<1> QED BY Zenon, <1>1, <1>2, <1>3, <1>4 DEF BInv, Apart, HeldCurrent

-----------------------------------------------------------------------------
(* RefusedForCause: a value that allocate passes over is in use.           *)
LEMMA LeastExists ==
    ASSUME NEW S, S \subseteq Nat, S # {}
    PROVE  First(S) # {}
<1>1. PICK x \in S : \A y \in S : ~(<<y, x>> \in OpToRel(<, Nat))
  BY NatLessThanWellFounded, WFMin
<1>2. \A y \in S : ~(y < x)
  BY <1>1 DEF OpToRel
<1>3. \A y \in S : x <= y
  BY <1>2
<1> QED BY Zenon, <1>3 DEF First

(* A pinned value that the first pool cannot give is in use.               *)
LEMMA PinnedInUse ==
    ASSUME NEW c \in Claims, NEW held, NEW i \in First(Present(c)), Requested[c] # 0,
           Requested[c] \in Space[PoolRefs[c][i]],
           Stops(c, held) = {} \/ \E j \in Stops(c, held) : Fits(c, j, held) = {}
    PROVE  Requested[c] \in Used(c, PoolRefs[c][i], held)
<1>1. Stops(c, held) = First(Present(c))
  BY Zenon DEF Stops
<1>2. PICK j \in First(Present(c)) : Fits(c, j, held) = {}
  BY Zenon, <1>1
<1>3. DOMAIN PoolRefs[c] \subseteq Nat
  BY ConstantsAssumption
<1>4. i = j
  BY <1>2, <1>3 DEF First, Present
<1>5. Requested[c] \notin Free(c, i, held)
  BY Zenon, <1>2, <1>4 DEF Fits
<1> QED BY Zenon, <1>5 DEF Free

(* When no value is pinned and no pool gives one, all values are in use:   *)
(* a pool that had one would be among those the scan stops at, and so      *)
(* would the first of them.                                                *)
LEMMA AllInUse ==
    ASSUME NEW c \in Claims, NEW held, NEW i \in Present(c), Requested[c] = 0,
           NEW v \in Space[PoolRefs[c][i]],
           Stops(c, held) = {} \/ \E j \in Stops(c, held) : Fits(c, j, held) = {}
    PROVE  v \in Used(c, PoolRefs[c][i], held)
<1> DEFINE S == {j \in Present(c) : Free(c, j, held) # {}}
<1>1. Stops(c, held) = First(S)
  BY Zenon DEF Stops
<1>2. S \subseteq Nat
  BY ConstantsAssumption DEF Present
<1>3. ASSUME NEW j \in S PROVE Fits(c, j, held) # {}
  <2>1. PoolRefs[c][j] \in Pools
    BY Zenon, RefsArePools DEF Present
  <2>2. Free(c, j, held) \subseteq Nat
    BY <2>1, ConstantsAssumption DEF Free
  <2>3. First(Free(c, j, held)) # {}
    BY Zenon, <2>2, LeastExists
  <2> QED BY Zenon, <2>3 DEF Fits
<1>4. First(S) \subseteq S
  BY Zenon DEF First
<1> HIDE DEF S
<1>5. S = {}
  BY Zenon, <1>1, <1>2, <1>3, <1>4, LeastExists
<1>6. Free(c, i, held) = {}
  BY Zenon, <1>5 DEF S
<1> QED BY Zenon, <1>6 DEF Free

(* What is in use for a call is somebody else's, never the claim's own:    *)
(* the lease it judges is the one it has read past the cache.              *)
LEMMA InUseIsSpoken ==
    ASSUME BInv, NEW w \in Workers, allocate(w), NEW i \in Present(work[w].claim), NEW v,
           v \in Used(work[w].claim, PoolRefs[work[w].claim][i], work[w].held)
    PROVE  Spoken(work[w].claim, PoolRefs[work[w].claim][i], v)
<1> DEFINE c == work[w].claim
           p == PoolRefs[c][i]
           k == LeaseNameFor[c]
           held == work[w].held
<1>1. c \in Claims /\ k \in Leases /\ work[w].pc = "allocate"
  BY Zenon, ConstantsAssumption DEF BInv, TInv, TypeOK, allocate
<1>2. p \in Pools
  BY Zenon, <1>1, RefsArePools DEF Present
<1>3. CASE \E d \in Claims \ {c} : p \in Refs(d) /\ claims[d].val = v
  BY Zenon, <1>3 DEF Spoken
<1>4. CASE \E j \in Leases : /\ leases[j].pool = p /\ leases[j].val = v
                             /\ j # k \/ (held.up /\ leaseHeldByOtherClaim(held, c))
  <2>1. PICK j \in Leases : /\ leases[j].pool = p /\ leases[j].val = v
                            /\ j # k \/ (held.up /\ leaseHeldByOtherClaim(held, c))
    BY Zenon, <1>4
  <2>2. leases[j] # NoLease
    <3>1. None \notin Pools
      BY Zenon, ConstantsAssumption
    <3> QED BY Zenon, <1>2, <2>1, <3>1, NoLeaseFacts
  <2>3. ASSUME j = k, leases[j].claim = c PROVE FALSE
    <3>1. leases[k].up /\ HeldCurrent(w)
      BY Zenon, <1>1, <2>2, <2>3 DEF BInv, LeasesNamed
    <3>2. held = leases[k]
      BY Zenon, <1>1, <2>3, <3>1 DEF HeldCurrent
    <3> QED BY Zenon, <2>1, <2>3, <3>2 DEF leaseHeldByOtherClaim
  <2> QED BY Zenon, <2>1, <2>3 DEF Spoken
<1> QED BY Zenon, <1>3, <1>4 DEF Used

LEMMA RefusalHasCause ==
    ASSUME BInv, NEW w \in Workers, allocate(w), work'[w].pc = "fail"
    PROVE  Cause(work[w].claim)
<1> DEFINE c == work[w].claim
           held == work[w].held
<1>1. c \in Claims /\ work[w] \in Work
  BY Zenon DEF BInv, TInv, TypeOK, allocate
<1>2. ASSUME NEW q, NEW v, work' = [work EXCEPT ![w].pc = "lease", ![w].pool = q,
                                               ![w].val = v, ![w].held = NoLease]
      PROVE  FALSE
  <2>1. work'[w] = [work[w] EXCEPT !.pc = "lease", !.pool = q, !.val = v, !.held = NoLease]
    BY Zenon, <1>2 DEF BInv, TInv, TypeOK
  <2>2. work'[w].pc = "lease"
    BY Zenon, <1>1, <2>1 DEF Work
  <2> QED BY Zenon, <2>2
<1>3. Stops(c, held) = {} \/ \E j \in Stops(c, held) : Fits(c, j, held) = {}
  BY Zenon, <1>2 DEF allocate
<1>4. ASSUME Requested[c] = 0, NEW i \in Present(c), NEW v \in Space[PoolRefs[c][i]]
      PROVE  Spoken(c, PoolRefs[c][i], v)
  BY Zenon, <1>1, <1>3, <1>4, AllInUse, InUseIsSpoken
<1>5. ASSUME Requested[c] # 0, NEW i \in First(Present(c)),
             Requested[c] \in Space[PoolRefs[c][i]]
      PROVE  Spoken(c, PoolRefs[c][i], Requested[c])
  <2>1. i \in Present(c)
    BY Zenon, <1>5 DEF First
  <2> QED BY Zenon, <1>1, <1>3, <1>5, <2>1, PinnedInUse, InUseIsSpoken
<1> QED BY Zenon, <1>4, <1>5 DEF Cause

(* A claim is turned away only for a cause: without a pinned value, every  *)
(* value of every pool it lists is somebody else's; with one, the first    *)
(* pool that exists does not span it or somebody else has it.  With any    *)
(* number of workers, and caches however stale, it is never on account of  *)
(* the claim's own lease (allocationclaim_controller.go, allocate and      *)
(* allocateFromPool).                                                      *)
THEOREM RefusalsHaveCause == Spec => RefusedForCause
<1> DEFINE Refusals ==
       \A w \in Workers : work[w].pc = "allocate" /\ work'[w].pc = "fail" => Cause(work[w].claim)
<1>1. ASSUME BInv, [Next]_vars PROVE BInv' /\ Refusals
  <2>1. ASSUME NEW w \in Workers, work[w].pc = "allocate", work'[w].pc = "fail"
        PROVE  allocate(w)
    <3>1. ASSUME Around PROVE FALSE
      BY Zenon, <2>1, <3>1 DEF Around
    <3>2. PICK x \in Workers : Reconcile(x) /\ Steps(x)
      BY Zenon, <1>1, <3>1, StepBase
    <3>3. x = w
      BY Zenon, <2>1, <3>2 DEF Steps, Turns
    <3> QED
      BY ZenonT(30), <2>1, <3>2, <3>3
         DEF Reconcile, Start, AddFinalizer, reconcileLease, ensureOwnerExists, ReadFresh,
             ensureLease, UpdatePool, updateStatusAllocated, updateStatusPending,
             updateStatusFailed, updateStatus, releaseLease, removeFinalizer
  <2>2. Refusals
    BY Zenon, <1>1, <2>1, RefusalHasCause
  <2> QED BY Zenon, <1>1, <2>2, StepBase
<1>2. BInv /\ [Next]_vars => BInv' /\ [Refusals]_vars
  BY Zenon, <1>1
<1> QED BY <1>2, InitBase, PTL DEF Spec, RefusedForCause
-----------------------------------------------------------------------------
(* LeaseAgrees, where no spec is edited: a call that has chosen a value    *)
(* has chosen that of the lease its claim holds, if it holds one.          *)

PoolsThere ==
    \A k \in Leases : leases[k].up
        => leases[k].pool \in Refs(leases[k].claim) /\ pools[leases[k].pool] # "absent"

Chosen(w) ==
    LET c == work[w].claim
        l == leases[LeaseNameFor[c]]
    IN  work[w].pc \in {"lease", "pool", "allocated"} =>
            /\ work[w].pool \in Refs(c) /\ pools[work[w].pool] # "absent"
            /\ l.up /\ l.claim = c /\ ~l.released => l.val = work[w].val

GInv == BInv /\ VInv /\ PoolsThere /\ LeaseAgrees /\ \A w \in Workers : Chosen(w)

LEMMA ReconcileKeepsPools ==
    ASSUME NEW w \in Workers, Reconcile(w)
    PROVE  UNCHANGED pools
  BY Zenon
  DEF Reconcile, Start, AddFinalizer, reconcileLease, ensureOwnerExists, ReadFresh, allocate,
         ensureLease, UpdatePool, updateStatusAllocated, updateStatusPending,
         updateStatusFailed, updateStatus, releaseLease, removeFinalizer

(* allocate gives a claim that holds a lease the value of that lease.      *)
LEMMA ChosenStep ==
    ASSUME GInv, NEW w \in Workers, allocate(w), work'[w].pc = "lease"
    PROVE  Chosen(w)'
<1> USE DEF GInv, BInv, TInv
<1> DEFINE c == work[w].claim
           held == work[w].held
           l == leases[LeaseNameFor[c]]
<1>1. /\ c \in Claims /\ LeaseNameFor[c] \in Leases /\ work[w] \in Work
      /\ UNCHANGED <<leases, pools>> /\ work[w].pc = "allocate"
  BY Zenon, ConstantsAssumption DEF allocate, TypeOK
<1>2. ASSUME NEW why, work' = [work EXCEPT ![w].pc = "fail", ![w].why = why]
      PROVE  FALSE
  <2>1. work'[w] = [work[w] EXCEPT !.pc = "fail", !.why = why]
    BY Zenon, <1>2 DEF TypeOK
  <2>2. work'[w].pc = "fail"
    BY Zenon, <1>1, <2>1 DEF Work
  <2> QED BY Zenon, <2>2
<1>3. ASSUME l.up, l.claim = c PROVE held = l /\ Reusable(c, held)
  <2>1. held = l
    BY Zenon, <1>1, <1>3 DEF HeldCurrent
  <2> QED BY Zenon, <1>1, <1>3, <2>1 DEF PoolsThere, Reusable, leaseHeldByOtherClaim
<1>4. PICK p, v : /\ work' = [work EXCEPT ![w].pc = "lease", ![w].pool = p, ![w].val = v,
                                         ![w].held = NoLease]
                  /\ \/ Reusable(c, held) /\ p = held.pool /\ v = held.val
                     \/ ~Reusable(c, held) /\ \E i \in Stops(c, held) : p = PoolRefs[c][i]
  BY Zenon, <1>2 DEF allocate
<1>5. work'[w] = [work[w] EXCEPT !.pc = "lease", !.pool = p, !.val = v, !.held = NoLease]
  BY Zenon, <1>4 DEF TypeOK
<1>6. work'[w].claim = c /\ work'[w].pool = p /\ work'[w].val = v
  BY Zenon, <1>1, <1>5 DEF Work
<1>7. p \in Refs(c) /\ pools[p] # "absent"
  BY Zenon, <1>1, <1>4, RefsArePools DEF Reusable, Stops, First, Present, Refs
<1> QED BY Zenon, <1>1, <1>3, <1>4, <1>6, <1>7 DEF Chosen

LEMMA WorkerAgrees ==
    ASSUME GInv, BInv', VInv', NEW w \in Workers, Reconcile(w), Steps(w)
    PROVE  GInv'
<1>1. work[w].pc # "idle" => work[w].claim \in Claims
  BY Zenon DEF GInv, BInv, TInv
<1>2. UNCHANGED pools
  BY Zenon, ReconcileKeepsPools
<1>3. PoolsThere'
  <2> SUFFICES ASSUME NEW k \in Leases, leases'[k].up
               PROVE  /\ leases'[k].pool \in Refs(leases'[k].claim)
                      /\ pools[leases'[k].pool] # "absent"
    BY Zenon, <1>2 DEF PoolsThere
  <2>1. CASE Written(w, k)
    BY Zenon, <2>1 DEF GInv, Chosen, Written
  <2>2. leases'[k] # NoLease
    BY Zenon, NoLeaseFacts
  <2>3. CASE leases'[k] = leases[k]
    BY Zenon, <2>3 DEF GInv, PoolsThere
  <2>4. CASE Rewritten(w, k)
    BY Zenon, <2>4 DEF GInv, PoolsThere, Rewritten
  <2> QED BY Zenon, <2>1, <2>2, <2>3, <2>4 DEF Steps, Reserves
<1>4. Chosen(w)'
  <2> DEFINE c == work[w].claim
             k == LeaseNameFor[c]
  <2>1. CASE work'[w].pc \in {"pool", "allocated"}
    <3>1. /\ work[w].pc \in {"lease", "pool"} /\ work'[w].claim = c
          /\ work'[w].pool = work[w].pool /\ work'[w].val = work[w].val
      BY Zenon, <2>1 DEF Steps, Turns
    <3>2. k \in Leases /\ Chosen(w)
      BY Zenon, <1>1, <3>1, ConstantsAssumption DEF GInv
    <3>3. leases'[k] = leases[k] \/ leases'[k] = NoLease \/ Written(w, k)
      BY Zenon, <3>1, <3>2 DEF Steps, Reserves, Rewritten
    <3>4. ASSUME leases'[k].up, leases'[k].claim = c, ~leases'[k].released
          PROVE  leases'[k].val = work[w].val
      <4>1. CASE leases'[k] = leases[k]
        BY Zenon, <3>1, <3>2, <3>4, <4>1 DEF Chosen
      <4>2. leases'[k] # NoLease
        BY Zenon, <3>4, NoLeaseFacts
      <4> QED BY Zenon, <3>3, <4>1, <4>2 DEF Written
    <3> QED BY Zenon, <1>2, <3>1, <3>2, <3>4 DEF Chosen
  <2>2. CASE work'[w].pc = "lease"
    BY Zenon, <2>2, ChosenStep DEF Steps, Turns
  <2> QED BY Zenon, <2>1, <2>2 DEF Chosen
<1>5. ASSUME NEW x \in Workers, x # w PROVE Chosen(x)'
  <2> DEFINE c == work[x].claim
             k == LeaseNameFor[c]
  <2>1. work'[x] = work[x] /\ Chosen(x)
    BY Zenon, <1>5 DEF Steps, Turns, GInv
  <2>2. ASSUME work[x].pc \in {"lease", "pool", "allocated"},
               leases'[k].up, leases'[k].claim = c, ~leases'[k].released
        PROVE  leases'[k].val = work[x].val
    <3>1. k \in Leases /\ (work[w].pc # "idle" => work[w].claim # c)
      BY Zenon, <1>5, <2>2, ConstantsAssumption DEF GInv, BInv, TInv, Apart
    <3>2. leases'[k] # NoLease
      BY Zenon, <2>2, NoLeaseFacts
    <3>3. ~Rewritten(w, k) /\ ~Written(w, k)
      BY Zenon, <2>2, <3>1 DEF Rewritten, Written
    <3>4. leases'[k] = leases[k]
      BY Zenon, <3>1, <3>2, <3>3 DEF Steps, Reserves
    <3> QED BY Zenon, <2>1, <2>2, <3>4 DEF Chosen
  <2> QED BY Zenon, <1>2, <2>1, <2>2 DEF Chosen
<1>6. LeaseAgrees'
  <2> SUFFICES ASSUME NEW k \in Leases, leases'[k].up, ~leases'[k].released,
                      claims'[leases'[k].claim].up, claims'[leases'[k].claim].val # 0
               PROVE  claims'[leases'[k].claim].val = leases'[k].val
    BY Zenon DEF LeaseAgrees
  <2> DEFINE d == leases'[k].claim
  <2>1. d \in Claims /\ LeaseNameFor[d] = k
    BY Zenon, NoLeaseFacts DEF BInv, LeasesNamed
  <2>2. claims[d].val # 0 => claims[d].up
    BY Zenon, <2>1 DEF GInv, VInv, ClaimsFit, Fit
  <2>3. CASE leases'[k] = leases[k]
    <3>1. CASE claims'[d].val = claims[d].val
      BY Zenon, <2>2, <2>3, <3>1 DEF GInv, LeaseAgrees
    <3>2. CASE work[w].pc = "allocated" /\ claims'[d].val = work[w].val /\ d = work[w].claim
      <4>1. Chosen(w)
        BY Zenon DEF GInv
      <4> QED BY Zenon, <2>1, <2>3, <3>2, <4>1 DEF Chosen
    <3> QED BY Zenon, <2>1, <3>1, <3>2 DEF Steps, Attends
  <2>4. CASE leases'[k] # leases[k]
    <3>1. claims'[d] = claims[d]
      BY Zenon, <2>1, <2>4 DEF Steps, Attends
    <3>2. CASE Rewritten(w, k)
      BY ZenonT(30), <2>2, <3>1, <3>2 DEF GInv, LeaseAgrees, Rewritten
    <3>3. CASE Written(w, k)
      BY Zenon, <3>1, <3>3 DEF GInv, VInv, Unserved, Allocating, Written
    <3>4. leases'[k] # NoLease
      BY Zenon, NoLeaseFacts
    <3> QED BY Zenon, <2>4, <3>2, <3>3, <3>4 DEF Steps, Reserves
  <2> QED BY Zenon, <2>3, <2>4
<1> QED BY Zenon, <1>3, <1>4, <1>5, <1>6 DEF GInv

LEMMA AroundAgrees ==
    ASSUME GInv, BInv', VInv', Around
    PROVE  GInv'
<1>1. ASSUME NEW k \in Leases, leases'[k].up
      PROVE  /\ leases'[k] = leases[k] /\ leases[k].claim \in Claims
             /\ leases[k].pool \in Refs(leases[k].claim)
             /\ leases[k].pool \in Pools /\ pools'[leases[k].pool] # "absent"
  <2>1. leases'[k] = leases[k] /\ leases[k].claim \in Claims
    BY Zenon, <1>1, NoLeaseFacts DEF Around, GInv, BInv, LeasesNamed
  <2>2. leases[k].pool \in Refs(leases[k].claim) /\ pools[leases[k].pool] # "absent"
    BY Zenon, <1>1, <2>1 DEF GInv, PoolsThere
  <2>3. leases[k].pool \in Pools
    BY Zenon, <2>1, <2>2, RefsArePools
  <2> QED BY Zenon, <2>1, <2>2, <2>3 DEF Around
<1>2. PoolsThere'
  BY Zenon, <1>1 DEF PoolsThere
<1>3. LeaseAgrees'
  <2> SUFFICES ASSUME NEW k \in Leases, leases'[k].up, ~leases'[k].released,
                      claims'[leases'[k].claim].up, claims'[leases'[k].claim].val # 0
               PROVE  claims'[leases'[k].claim].val = leases'[k].val
    BY Zenon DEF LeaseAgrees
  <2> DEFINE d == leases[k].claim
  <2>1. leases'[k] = leases[k] /\ d \in Claims
    BY Zenon, <1>1
  <2>2. claims'[d].val = claims[d].val /\ (claims[d].val # 0 => claims[d].up)
    BY Zenon, <2>1 DEF Around, GInv, VInv, ClaimsFit, Fit
  <2> QED BY Zenon, <2>1, <2>2 DEF GInv, LeaseAgrees
<1>4. ASSUME NEW w \in Workers, UNCHANGED work, work[w].pc \in {"lease", "pool", "allocated"}
      PROVE  Chosen(w)'
  <2>1. work[w].claim \in Claims /\ LeaseNameFor[work[w].claim] \in Leases /\ Chosen(w)
    BY Zenon, <1>4, ConstantsAssumption DEF GInv, BInv, TInv
  <2>2. work[w].pool \in Pools
    BY Zenon, <1>4, <2>1, RefsArePools DEF Chosen
  <2> QED BY Zenon, <1>1, <1>4, <2>1, <2>2 DEF Chosen, Around
<1>5. \A w \in Workers : Chosen(w)'
  BY Zenon, <1>4 DEF Chosen, Around
<1> QED BY Zenon, <1>2, <1>3, <1>5 DEF GInv

LEMMA InitAgrees == Init => GInv
<1> SUFFICES ASSUME Init PROVE GInv
  BY Zenon
<1>1. /\ \A k \in Leases : ~leases[k].up
      /\ \A w \in Workers : work[w].pc = "idle"
  BY Zenon DEF Init, Idle, NoLease
<1> QED BY Zenon, <1>1, InitBase, InitStable DEF GInv, PoolsThere, LeaseAgrees, Chosen

(* The claim that holds a lease reports the value of the lease or none,    *)
(* with any number of workers and caches however stale: a retry, a restart *)
(* or a reaped lease never makes ensureLease and updateStatus write two    *)
(* results, because the closure reads the lease past the cache and takes   *)
(* over its value (allocationclaim_controller.go, allocate).               *)
THEOREM LeasesAgree ==
    ASSUME Respecced = {}
    PROVE  Spec => []LeaseAgrees
<1>1. GInv /\ [Next]_vars => GInv'
  <2> SUFFICES ASSUME GInv, [Next]_vars PROVE GInv'
    BY Zenon
  <2>1. BInv' /\ (Around \/ \E w \in Workers : Reconcile(w) /\ Steps(w))
    BY Zenon, StepBase DEF GInv
  <2>2. VInv'
    BY Zenon, StepStable DEF GInv
  <2> QED BY Zenon, <2>1, <2>2, WorkerAgrees, AroundAgrees
<1>2. GInv => LeaseAgrees
  BY Zenon DEF GInv
<1> QED BY <1>1, <1>2, InitAgrees, PTL DEF Spec
=============================================================================
