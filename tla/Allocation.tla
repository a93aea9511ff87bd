----------------------------- MODULE Allocation -----------------------------
(***************************************************************************)
(* The allocator of the controller: AllocationClaims ask for a value (an   *)
(* IP address or a number) out of AllocationPools, AllocationLeases keep a *)
(* value reserved beyond the life of the claim that got it.  The module    *)
(* models the AllocationClaim controller step by step, one step per API    *)
(* call that another actor can interleave with, the part of the            *)
(* AllocationLease controller that deletes expired leases, the informer    *)
(* caches both read through, and the users that create and delete claims.  *)
(*                                                                         *)
(* Two abstractions carry the module.                                      *)
(*   - resourceVersion: nobody compares two versions, a write only asks    *)
(*     whether the copy it is based on is still the current one.  So for   *)
(*     every object the model keeps the set of copies that are current     *)
(*     (claimRv, leaseRv, poolRv); a write empties it, a read joins it.    *)
(*   - a value is the position at which the first-fit scan of its pool     *)
(*     visits it, so "the first free value" is the least one.              *)
(***************************************************************************)
EXTENDS Naturals, Sequences, FiniteSets

CONSTANTS
    Claims,        \* names of AllocationClaims
    Leases,        \* names of AllocationLeases
    Pools,         \* names of AllocationPools
    None,          \* no claim, no pool, no lease
    Workers,       \* workers of the claim controller (one, unless configured)
    LeaseNameFor,  \* the lease name of a claim: its reuse key, or its own name
    PoolRefs,      \* spec.poolRefs of a claim
    Space,         \* the candidate values of a pool
    Requested,     \* spec.requestedNumber / requestedIP of a claim, or 0
    ReleaseAfter,  \* the claims with a positive spec.releaseAfter
    Respecced,     \* the claims whose spec is edited while they are live
    Lagging,       \* do the informer caches trail behind the API server?
    Restarts,      \* does the manager restart?
    Founded,       \* the pools that exist from the start
    Orphans,       \* the claims whose owner may be gone when it is checked
    MaxBirths      \* bound: how many claims are ever created

ASSUME ConstantsAssumption ==
    /\ None \notin Claims \cup Pools \cup Leases
    /\ LeaseNameFor \in [Claims -> Leases]
    /\ PoolRefs \in [Claims -> Seq(Pools)]
    /\ Space \in [Pools -> SUBSET (Nat \ {0})]
    /\ Requested \in [Claims -> Nat]
    /\ ReleaseAfter \subseteq Claims
    /\ Respecced \subseteq Claims
    /\ Orphans \subseteq Claims
    /\ Founded \subseteq Pools
    /\ Restarts \in BOOLEAN
    /\ Lagging \in BOOLEAN
    /\ MaxBirths \in Nat

(* The pools a claim lists. *)
Refs(c) == {PoolRefs[c][i] : i \in DOMAIN PoolRefs[c]}

(* Two claims compete when they list a common pool. *)
Compete(c, d) == Refs(c) \cap Refs(d) # {}

(* Distinct pools listed by competing claims have disjoint candidate       *)
(* spaces: the claims that list several pools list the AddressPools of one *)
(* ExternalNetwork, and the AddressPool webhook rejects overlaps.          *)
ASSUME DisjointAssumption ==
    \A c, d \in Claims : Compete(c, d) =>
        \A p \in Refs(c), q \in Refs(d) : p # q => Space[p] \cap Space[q] = {}

VARIABLES
    claims,      \* the AllocationClaims at the API server
    births,      \* how many claims were created, the source of their UIDs
    leases,      \* the AllocationLeases at the API server
    pools,       \* the AllocationPools: absent, new or with a status
    claimCache,  \* the claims as the manager's informer has them
    leaseCache,  \* the leases as the manager's informer has them
    claimRv,     \* per claim, whose copy is current: workers and "cache"
    leaseRv,     \* per lease, is the cached copy current
    poolRv,      \* per pool, the workers whose copy is current
    gone,        \* per lease, the pools of Delete events yet to be delivered
    queue,       \* the workqueue of the claim controller
    work,        \* per worker, where its Reconcile call is
    reaper       \* where the lease controller's Reconcile call is

vars == <<claims, births, leases, pools, claimCache, leaseCache, claimRv,
          leaseRv, poolRv, gone, queue, work, reaper>>

Value == UNION {Space[p] : p \in Pools}
Status == {"New", "Pending", "Failed", "Allocated"}
Claim == [up : BOOLEAN, uid : Nat, deleting : BOOLEAN, fin : BOOLEAN,
          observed : BOOLEAN, status : Status, val : Value \cup {0}]
Lease == [up : BOOLEAN, pool : Pools \cup {None}, val : Value \cup {0},
          claim : Claims \cup {None}, uid : Nat, released : BOOLEAN]
Pc == {"idle", "finalizer", "keep", "owner", "read", "allocate", "lease",
       "pool", "allocated", "fail", "reject", "release", "unfinalize"}
Work == [pc : Pc, claim : Claims \cup {None}, uid : Nat, held : Lease,
         pool : Pools \cup {None}, val : Value \cup {0}, why : Status]

NoClaim == [up |-> FALSE, uid |-> 0, deleting |-> FALSE, fin |-> FALSE,
            observed |-> FALSE, status |-> "New", val |-> 0]
NoLease == [up |-> FALSE, pool |-> None, val |-> 0, claim |-> None,
            uid |-> 0, released |-> FALSE]
Idle == [pc |-> "idle", claim |-> None, uid |-> 0, held |-> NoLease,
         pool |-> None, val |-> 0, why |-> "Pending"]
Resting == [lease |-> None, same |-> FALSE]

-----------------------------------------------------------------------------
(* Mutant: the generations are compared the wrong way round.               *)
ReadyForOtherSpec(r) == r.status = "Allocated" /\ r.val # 0 /\ ~r.observed

(* A claim is ready when its Allocated status is for its current spec.     *)
allocationClaimReady(r) == r.status = "Allocated" /\ r.val # 0 /\ r.observed

(* Mutant: a holder is never respected.                                    *)
HeldByNobody(l, c) == FALSE

leaseOwnedByClaim(l, c) == l.claim = c
leaseHeldByOtherClaim(l, c) == l.claim # c /\ ~l.released

(* The informer is up to date, or is allowed not to be.                    *)
CachesCurrent == /\ \A c \in Claims : "cache" \in claimRv[c]
                 /\ \A k \in Leases : leaseRv[k]
Caught == Lagging \/ CachesCurrent

(* A write of a claim or a lease at the API server.                        *)
WriteClaim(c, r) == /\ claims' = [claims EXCEPT ![c] = r]
                    /\ claimRv' = [claimRv EXCEPT ![c] = {}]
WriteLease(k, l) == /\ leases' = [leases EXCEPT ![k] = l]
                    /\ leaseRv' = [leaseRv EXCEPT ![k] = FALSE]
                    /\ UNCHANGED <<gone, reaper>>
(* Deleting a lease ends its UID, the precondition of the reaper's Delete. *)
RemoveLease(k) ==
    /\ leases' = [leases EXCEPT ![k] = NoLease]
    /\ leaseRv' = [leaseRv EXCEPT ![k] = FALSE]
    /\ gone' = [gone EXCEPT ![k] = @ \cup {leases[k].pool}]

Goto(w, pc) == work' = [work EXCEPT ![w].pc = pc]
(* Reconcile returns nil, or an error that puts the claim back in queue.   *)
Done(w) == work' = [work EXCEPT ![w] = Idle] /\ UNCHANGED queue
Failed(w) == /\ work' = [work EXCEPT ![w] = Idle]
             /\ queue' = queue \cup {work[w].claim}
(* A conflict inside RetryOnConflict: run the closure again from `pc', or  *)
(* give up after the last attempt.                                         *)
Conflict(w, pc) == \/ Goto(w, pc) /\ UNCHANGED queue
                   \/ Failed(w)

Init ==
    /\ claims = [c \in Claims |-> NoClaim]
    /\ births = 0
    /\ leases = [k \in Leases |-> NoLease]
    /\ pools = [p \in Pools |-> IF p \in Founded THEN "valid" ELSE "absent"]
    /\ claimCache = claims
    /\ leaseCache = leases
    /\ claimRv = [c \in Claims |-> {"cache"}]
    /\ leaseRv = [k \in Leases |-> TRUE]
    /\ poolRv = [p \in Pools |-> {}]
    /\ gone = [k \in Leases |-> {}]
    /\ queue = {}
    /\ work = [w \in Workers |-> Idle]
    /\ reaper = Resting

-----------------------------------------------------------------------------
(* The environment: owners with their claims, pools, informers, restarts.  *)

(* A controller creates a claim for an object it reconciles.               *)
CreateClaim(c) ==
    /\ Caught
    /\ ~claims[c].up
    /\ births < MaxBirths
    /\ births' = births + 1
    /\ WriteClaim(c, [NoClaim EXCEPT !.up = TRUE, !.uid = births'])
    /\ UNCHANGED <<leases, pools, claimCache, leaseCache, leaseRv, poolRv,
                   gone, queue, work, reaper>>

(* The claim is deleted: at once without a finalizer, marked with one.     *)
DeleteClaim(c) ==
    /\ Caught
    /\ claims[c].up /\ ~claims[c].deleting
    /\ WriteClaim(c, IF claims[c].fin
                       THEN [claims[c] EXCEPT !.deleting = TRUE]
                       ELSE NoClaim)
    /\ UNCHANGED <<births, leases, pools, claimCache, leaseCache, leaseRv,
                   poolRv, gone, queue, work, reaper>>

(* The spec of a live claim is edited: its status is for an older spec.    *)
UpdateSpec(c) ==
    /\ Caught
    /\ c \in Respecced
    /\ claims[c].up /\ ~claims[c].deleting /\ claims[c].observed
    /\ WriteClaim(c, [claims[c] EXCEPT !.observed = FALSE])
    /\ UNCHANGED <<births, leases, pools, claimCache, leaseCache, leaseRv,
                   poolRv, gone, queue, work, reaper>>

(* A pool appears; the watch enqueues the cached claims that list it.      *)
CreatePool(p) ==
    /\ Caught
    /\ pools[p] = "absent"
    /\ pools' = [pools EXCEPT ![p] = "new"]
    /\ queue' = queue \cup {c \in Claims : claimCache[c].up /\ p \in Refs(c)}
    /\ UNCHANGED <<claims, births, leases, claimCache, leaseCache, claimRv,
                   leaseRv, poolRv, gone, work, reaper>>

(* The pool controller validates a pool and writes its status, past which  *)
(* a copy read before it is stale.                                         *)
ValidatePool(p) ==
    /\ Caught
    /\ pools[p] = "new"
    /\ pools' = [pools EXCEPT ![p] = "valid"]
    /\ poolRv' = [poolRv EXCEPT ![p] = {}]
    /\ UNCHANGED <<claims, births, leases, claimCache, leaseCache, claimRv,
                   leaseRv, gone, queue, work, reaper>>

(* Mutant: a predicate keeps all but new claims out of the queue.          *)
InformNewClaim(c) ==
    /\ "cache" \notin claimRv[c]
    /\ claimCache' = [claimCache EXCEPT ![c] = claims[c]]
    /\ claimRv' = [claimRv EXCEPT ![c] = @ \cup {"cache"}]
    /\ queue' = IF claimCache[c].up THEN queue ELSE queue \cup {c}
    /\ UNCHANGED <<claims, births, leases, pools, leaseCache, leaseRv, poolRv,
                   gone, work, reaper>>

(* The informer catches up on a claim and enqueues it.                     *)
InformClaim(c) ==
    /\ "cache" \notin claimRv[c]
    /\ claimCache' = [claimCache EXCEPT ![c] = claims[c]]
    /\ claimRv' = [claimRv EXCEPT ![c] = @ \cup {"cache"}]
    /\ queue' = queue \cup {c}
    /\ UNCHANGED <<claims, births, leases, pools, leaseCache, leaseRv, poolRv,
                   gone, work, reaper>>

(* Mutant: a lease's Delete event wakes nobody.                            *)
InformLeaseQuietly(k) ==
    /\ ~leaseRv[k]
    /\ leaseCache' = [leaseCache EXCEPT ![k] = leases[k]]
    /\ leaseRv' = [leaseRv EXCEPT ![k] = TRUE]
    /\ gone' = [gone EXCEPT ![k] = {}]
    /\ UNCHANGED <<claims, births, leases, pools, claimCache, claimRv, poolRv,
                   queue, work, reaper>>

(* The informer catches up on a lease.  Only a Delete event passes         *)
(* leaseDeletionPredicate; it enqueues the cached claims that list the     *)
(* pool of the lease that went.                                            *)
InformLease(k) ==
    /\ ~leaseRv[k]
    /\ leaseCache' = [leaseCache EXCEPT ![k] = leases[k]]
    /\ leaseRv' = [leaseRv EXCEPT ![k] = TRUE]
    /\ gone' = [gone EXCEPT ![k] = {}]
    /\ queue' = queue \cup {c \in Claims :
                    claimCache[c].up /\ gone[k] \cap Refs(c) # {}}
    /\ UNCHANGED <<claims, births, leases, pools, claimCache, claimRv, poolRv,
                   work, reaper>>

(* The manager restarts: what a Reconcile call was doing is lost, the      *)
(* informers list everything again.                                        *)
Restart ==
    /\ Restarts
    /\ work' = [w \in Workers |-> Idle]
    /\ reaper' = Resting
    /\ claimCache' = claims
    /\ leaseCache' = leases
    /\ claimRv' = [c \in Claims |-> {"cache"}]
    /\ leaseRv' = [k \in Leases |-> TRUE]
    /\ gone' = [k \in Leases |-> {}]
    /\ queue' = {c \in Claims : claims[c].up}
    /\ UNCHANGED <<claims, births, leases, pools, poolRv>>

-----------------------------------------------------------------------------
(* The claim controller.                                                   *)

(* What Reconcile does with a claim that has its finalizer.                *)
Proceed(c, r) == IF allocationClaimReady(r) THEN "keep"
                 ELSE IF PoolRefs[c] = <<>> THEN "reject" ELSE "owner"

(* Reconcile reads the claim from the cache and branches on it.            *)
Start(w, c) ==
    LET r == claimCache[c] IN
    /\ Caught
    /\ work[w].pc = "idle"
    /\ c \in queue
    /\ \A x \in Workers : work[x].claim # c
    /\ queue' = queue \ {c}
    /\ claimRv' = [claimRv EXCEPT ![c] = IF "cache" \in @ THEN @ \cup {w} ELSE @ \ {w}]
    /\ work' = IF ~r.up \/ (r.deleting /\ ~r.fin) THEN work
               ELSE [work EXCEPT ![w] = [Idle EXCEPT
                       !.claim = c, !.uid = r.uid,
                       !.pc = IF r.deleting THEN "release"
                              ELSE IF ~r.fin THEN "finalizer"
                              ELSE Proceed(c, r)]]
    /\ UNCHANGED <<claims, births, leases, pools, claimCache, leaseCache,
                   leaseRv, poolRv, gone, reaper>>

(* Add the finalizer to the cached claim, retrying on conflict.            *)
AddFinalizer(w) ==
    LET c == work[w].claim
        r == claimCache[c]
        next == [work EXCEPT ![w].pc = Proceed(c, r), ![w].uid = r.uid]
    IN
    /\ Caught
    /\ work[w].pc = "finalizer"
    /\ \/ ~r.up /\ Done(w) /\ UNCHANGED <<claims, claimRv>>
       \/ r.up /\ r.fin /\ work' = next /\ UNCHANGED <<claims, claimRv, queue>>
       \/ /\ r.up /\ ~r.fin /\ "cache" \in claimRv[c]
          /\ WriteClaim(c, [claims[c] EXCEPT !.fin = TRUE])
          /\ work' = next
          /\ UNCHANGED queue
       \/ /\ r.up /\ ~r.fin /\ "cache" \notin claimRv[c]
          /\ IF claims[c].up THEN Conflict(w, "finalizer") ELSE Done(w)
          /\ UNCHANGED <<claims, claimRv>>
    /\ UNCHANGED <<births, leases, pools, claimCache, leaseCache, leaseRv,
                   poolRv, gone, reaper>>

(* reconcileLease: a ready claim re-asserts itself as holder of its lease. *)
(* The lease is read past the cache; when it is written or removed between *)
(* the read and the Update, the Update fails.  (A lease without a holder,  *)
(* written by a version before the field existed, does not occur here.)    *)
reconcileLease(w) ==
    LET c == work[w].claim
        k == LeaseNameFor[c]
        outdated == /\ leases[k].up /\ leaseOwnedByClaim(leases[k], c)
                    /\ leases[k].uid # work[w].uid
        kept == UNCHANGED <<leases, leaseRv, gone, reaper>>
    IN
    /\ Caught
    /\ work[w].pc = "keep"
    /\ \/ ~outdated /\ kept /\ Done(w)
       \/ /\ outdated
          /\ WriteLease(k, [leases[k] EXCEPT !.uid = work[w].uid])
          /\ Done(w)
       \/ outdated /\ kept /\ Failed(w)
    /\ UNCHANGED <<claims, births, pools, claimCache, leaseCache, claimRv, poolRv>>

(* The owner the claim names must exist; an owner may go before its claim. *)
ensureOwnerExists(w) ==
    /\ Caught
    /\ work[w].pc = "owner"
    /\ \/ Goto(w, "read")
       \/ work[w].claim \in Orphans /\ Goto(w, "reject")
    /\ UNCHANGED <<claims, births, leases, pools, claimCache, leaseCache, claimRv,
                   leaseRv, poolRv, gone, queue, reaper>>

(* Mutant: the lease is read from the cache.                               *)
ReadCachedLease(w) ==
    LET c == work[w].claim
        l == leaseCache[LeaseNameFor[c]]
    IN
    /\ Caught
    /\ work[w].pc = "read"
    /\ \/ ~claims[c].up /\ Failed(w)
       \/ claims[c].up /\ allocationClaimReady(claims[c]) /\ Done(w)
       \/ /\ claims[c].up /\ ~allocationClaimReady(claims[c])
          /\ work' = [work EXCEPT ![w].pc = "allocate", ![w].held = l,
                                  ![w].uid = claims[c].uid]
          /\ UNCHANGED queue
    /\ UNCHANGED <<claims, births, leases, pools, claimCache, leaseCache, claimRv,
                   leaseRv, poolRv, gone, reaper>>

(* The allocation closure reads the claim and its lease past the cache.    *)
ReadFresh(w) ==
    LET c == work[w].claim
        l == leases[LeaseNameFor[c]]
    IN
    /\ Caught
    /\ work[w].pc = "read"
    /\ \/ ~claims[c].up /\ Failed(w)
       \/ claims[c].up /\ allocationClaimReady(claims[c]) /\ Done(w)
       \/ /\ claims[c].up /\ ~allocationClaimReady(claims[c])
          /\ work' = [work EXCEPT ![w].pc = "allocate", ![w].held = l,
                                  ![w].uid = claims[c].uid]
          /\ UNCHANGED queue
    /\ UNCHANGED <<claims, births, leases, pools, claimCache, leaseCache, claimRv,
                   leaseRv, poolRv, gone, reaper>>

(* Mutants: only the status of claims, or only leases, reserve a value.    *)
UsedByClaims(c, p, held) == {claims[d].val : d \in {x \in Claims \ {c} : p \in Refs(x)}}
UsedByLeases(c, p, held) ==
    {leases[k].val : k \in {x \in Leases : leases[x].pool = p /\ x # LeaseNameFor[c]}}

(* The values of pool p that claim c may not take: those in the status of  *)
(* other Allocated claims that list p, and those of the leases of p, the   *)
(* claim's own lease excepted unless another live claim holds it.          *)
Used(c, p, held) ==
    LET taken == held.up /\ leaseHeldByOtherClaim(held, c) IN
    {claims[d].val : d \in {x \in Claims \ {c} : p \in Refs(x)}}
    \cup {leases[k].val : k \in {x \in Leases :
             leases[x].pool = p /\ (x # LeaseNameFor[c] \/ taken)}}

(* May the claim take over the value of the lease it read?                 *)
Reusable(c, held) == /\ held.up
                     /\ ~leaseHeldByOtherClaim(held, c)
                     /\ held.pool \in Refs(c) /\ pools[held.pool] # "absent"

(* The pools of a claim that exist, by their position in spec.poolRefs.    *)
Present(c) == {i \in DOMAIN PoolRefs[c] : pools[PoolRefs[c][i]] # "absent"}
(* Mutant: the scan starts after the first value of the pool.              *)
FreeAfterFirst(c, i, held) ==
    {v \in Space[PoolRefs[c][i]] : \E u \in Space[PoolRefs[c][i]] : u < v} \ Used(c, PoolRefs[c][i], held)

Free(c, i, held) == Space[PoolRefs[c][i]] \ Used(c, PoolRefs[c][i], held)

(* What the pool at position i gives the claim: the requested value or the *)
(* first fit, if it is free.                                               *)
First(S) == {x \in S : \A y \in S : x <= y}
Fits(c, i, held) == IF Requested[c] # 0 THEN {Requested[c]} \cap Free(c, i, held)
                    ELSE First(Free(c, i, held))
(* The pools the scan stops at: a requested value that a pool cannot give  *)
(* is an error on the spot, an exhausted pool passes the turn on.          *)
Stops(c, held) == First({i \in Present(c) : Requested[c] # 0 \/ Free(c, i, held) # {}})

(* allocate: the value of the held lease, else the first pool's fit.       *)
allocate(w) ==
    LET c == work[w].claim
        held == work[w].held
        fail(why) == /\ work' = [work EXCEPT ![w].pc = "fail", ![w].why = why]
                     /\ UNCHANGED poolRv
        take(p, v) == /\ work' = [work EXCEPT ![w].pc = "lease", ![w].pool = p,
                                              ![w].val = v, ![w].held = NoLease]
                      /\ poolRv' = [poolRv EXCEPT ![p] = @ \cup {w}]
    IN
    /\ Caught
    /\ work[w].pc = "allocate"
    /\ \/ Reusable(c, held) /\ take(held.pool, held.val)
       \/ /\ ~Reusable(c, held)
          /\ \E i \in Stops(c, held) : \E v \in Fits(c, i, held) : take(PoolRefs[c][i], v)
       \/ /\ ~Reusable(c, held)
          /\ \E i \in Stops(c, held) : Fits(c, i, held) = {}
          /\ fail("Failed")
       \/ ~Reusable(c, held) /\ Stops(c, held) = {} /\ fail("Pending")
    /\ UNCHANGED <<claims, births, leases, pools, claimCache, leaseCache, claimRv,
                   leaseRv, gone, queue, reaper>>

(* ensureLease: create or revive the lease, judged by its cached copy.  An *)
(* AlreadyExists from the API server counts as success, and pool and value *)
(* of an existing lease are immutable (the webhook refuses the update).    *)
ensureLease(w) ==
    LET c == work[w].claim
        k == LeaseNameFor[c]
        old == leaseCache[k]
        want == [up |-> TRUE, pool |-> work[w].pool, val |-> work[w].val,
                 claim |-> c, uid |-> work[w].uid, released |-> FALSE]
        kept == UNCHANGED <<leases, leaseRv, gone, reaper>>
        next == Goto(w, "pool") /\ UNCHANGED queue
    IN
    /\ Caught
    /\ work[w].pc = "lease"
    /\ \/ ~old.up /\ ~leases[k].up /\ WriteLease(k, want) /\ next
       \/ ~old.up /\ leases[k].up /\ kept /\ next
       \/ /\ old.up /\ (leaseHeldByOtherClaim(old, c) \/ old = want)
          /\ kept /\ next
       \/ /\ old.up /\ ~leaseHeldByOtherClaim(old, c) /\ old # want
          /\ IF leaseRv[k]
               THEN IF old.pool = want.pool /\ old.val = want.val
                      THEN WriteLease(k, want) /\ next
                      ELSE kept /\ Failed(w)
               ELSE kept /\ IF leases[k].up THEN Conflict(w, "read") ELSE Failed(w)
    /\ UNCHANGED <<claims, births, pools, claimCache, leaseCache, claimRv, poolRv>>

(* Record the allocation in the pool's status, on the copy allocate read.  *)
UpdatePool(w) ==
    LET p == work[w].pool IN
    /\ Caught
    /\ work[w].pc = "pool"
    /\ \/ /\ w \in poolRv[p]
          /\ poolRv' = [poolRv EXCEPT ![p] = {}]
          /\ Goto(w, "allocated") /\ UNCHANGED queue
       \/ w \notin poolRv[p] /\ Conflict(w, "read") /\ UNCHANGED poolRv
    /\ UNCHANGED <<claims, births, leases, pools, claimCache, leaseCache, claimRv,
                   leaseRv, gone, reaper>>

(* updateStatus on the cached claim; a ready claim is never demoted.  When *)
(* the conflicts outlast its retries the caller's loop, if it is in one,   *)
(* starts over.                                                            *)
updateStatus(w, pc, retry, status, val) ==
    LET c == work[w].claim
        old == claimCache[c]
        new == [old EXCEPT !.status = status, !.val = val, !.observed = TRUE]
    IN
    /\ Caught
    /\ work[w].pc = pc
    /\ \/ ~old.up /\ Failed(w) /\ UNCHANGED <<claims, claimRv>>
       \/ /\ old.up
          /\ \/ allocationClaimReady(old) /\ status # "Allocated"
             \/ new = old
          /\ Done(w) /\ UNCHANGED <<claims, claimRv>>
       \/ /\ old.up /\ new # old
          /\ ~allocationClaimReady(old) \/ status = "Allocated"
          /\ IF "cache" \in claimRv[c]
               THEN WriteClaim(c, new) /\ Done(w)
               ELSE /\ UNCHANGED <<claims, claimRv>>
                    /\ IF claims[c].up THEN Conflict(w, retry) ELSE Failed(w)
    /\ UNCHANGED <<births, leases, pools, claimCache, leaseCache, leaseRv, poolRv,
                   gone, reaper>>

updateStatusAllocated(w) ==
    updateStatus(w, "allocated", "read", "Allocated", work[w].val)
(* allocate failed, inside the loop; the owner or the pools are missing,   *)
(* before it.                                                              *)
updateStatusPending(w) == updateStatus(w, "fail", "read", work[w].why, 0)
updateStatusFailed(w) == updateStatus(w, "reject", "reject", "Failed", 0)

(* handleDeletion, first half: release or delete the cached lease.         *)
releaseLease(w) ==
    LET c == work[w].claim
        k == LeaseNameFor[c]
        old == leaseCache[k]
        mine == old.up /\ leaseOwnedByClaim(old, c)
        next == Goto(w, "unfinalize") /\ UNCHANGED queue
        kept == UNCHANGED <<leases, leaseRv, gone, reaper>>
    IN
    /\ Caught
    /\ work[w].pc = "release"
    /\ \/ ~mine /\ kept /\ next
       \/ /\ mine /\ c \in ReleaseAfter
          /\ IF old.released THEN kept /\ next
             ELSE IF leaseRv[k]
               THEN WriteLease(k, [leases[k] EXCEPT !.released = TRUE]) /\ next
               ELSE kept /\ Failed(w)
       \/ /\ mine /\ c \notin ReleaseAfter
          /\ IF leases[k].up
               THEN /\ RemoveLease(k)
                    /\ reaper' = IF reaper.lease = k THEN [reaper EXCEPT !.same = FALSE]
                                 ELSE reaper
               ELSE kept
          /\ next
    /\ UNCHANGED <<claims, births, pools, claimCache, leaseCache, claimRv, poolRv>>

(* handleDeletion, second half: drop the finalizer from the claim that was *)
(* read at the start, which lets the claim go.                             *)
removeFinalizer(w) ==
    LET c == work[w].claim IN
    /\ Caught
    /\ work[w].pc = "unfinalize"
    /\ IF w \in claimRv[c]
         THEN WriteClaim(c, NoClaim) /\ Done(w)
         ELSE Failed(w) /\ UNCHANGED <<claims, claimRv>>
    /\ UNCHANGED <<births, leases, pools, claimCache, leaseCache, leaseRv, poolRv,
                   gone, reaper>>

-----------------------------------------------------------------------------
(* The lease controller, as far as claims can notice: it finds a cached    *)
(* lease released and past its TTL, and then deletes it by UID.            *)
FindExpired(k) ==
    /\ Caught
    /\ reaper = Resting
    /\ leaseCache[k].up /\ leaseCache[k].released
    /\ reaper' = [lease |-> k, same |-> leases[k].up /\ gone[k] = {}]
    /\ UNCHANGED <<claims, births, leases, pools, claimCache, leaseCache, claimRv,
                   leaseRv, poolRv, gone, queue, work>>

DeleteExpired(k) ==
    /\ Caught
    /\ reaper.lease = k
    /\ reaper' = Resting
    /\ IF reaper.same THEN RemoveLease(k) ELSE UNCHANGED <<leases, leaseRv, gone>>
    /\ UNCHANGED <<claims, births, pools, claimCache, leaseCache, claimRv, poolRv,
                   queue, work>>

-----------------------------------------------------------------------------
Reconcile(w) ==
    \/ \E c \in Claims : Start(w, c)
    \/ AddFinalizer(w) \/ reconcileLease(w) \/ ensureOwnerExists(w)
    \/ ReadFresh(w) \/ allocate(w) \/ ensureLease(w) \/ UpdatePool(w)
    \/ updateStatusAllocated(w) \/ updateStatusPending(w) \/ updateStatusFailed(w)
    \/ releaseLease(w) \/ removeFinalizer(w)

User(c) == CreateClaim(c) \/ DeleteClaim(c) \/ UpdateSpec(c)

Inform == \/ \E c \in Claims : InformClaim(c)
          \/ \E k \in Leases : InformLease(k)

Reap == \E k \in Leases : FindExpired(k) \/ DeleteExpired(k)

Next ==
    \/ \E c \in Claims : User(c)
    \/ \E p \in Pools : CreatePool(p) \/ ValidatePool(p)
    \/ \E w \in Workers : Reconcile(w)
    \/ Inform
    \/ Reap
    \/ Restart

Spec == Init /\ [][Next]_vars

(* The manager keeps running its informers and its controllers, takes      *)
(* every queued claim in turn (the workqueue is first in, first out), and  *)
(* does not restart forever.                                               *)
Fairness ==
    /\ \A c \in Claims : WF_vars(InformClaim(c))
    /\ \A k \in Leases : WF_vars(InformLease(k)) /\ WF_vars(FindExpired(k) \/ DeleteExpired(k))
    /\ \A w \in Workers : WF_vars(Reconcile(w))
    /\ \A w \in Workers, c \in Claims : SF_vars(Start(w, c))
    /\ <>[][~Restart]_vars

FairSpec == Spec /\ Fairness

-----------------------------------------------------------------------------
(* Type correctness: in particular every value that a claim, a lease or a  *)
(* Reconcile call carries is a candidate of some pool.                     *)
TypeOK ==
    /\ claims \in [Claims -> Claim]
    /\ births \in Nat
    /\ leases \in [Leases -> Lease]
    /\ pools \in [Pools -> {"absent", "new", "valid"}]
    /\ claimCache \in [Claims -> Claim]
    /\ leaseCache \in [Leases -> Lease]
    /\ claimRv \in [Claims -> SUBSET (Workers \cup {"cache"})]
    /\ leaseRv \in [Leases -> BOOLEAN]
    /\ poolRv \in [Pools -> SUBSET Workers]
    /\ gone \in [Leases -> SUBSET (Pools \cup {None})]
    /\ queue \subseteq Claims
    /\ work \in [Workers -> Work]
    /\ reaper \in [lease : Leases \cup {None}, same : BOOLEAN]

Live(c) == claims[c].up /\ ~claims[c].deleting

(* Two live claims that compete for a pool never report the same value.    *)
UniqueValues ==
    \A c, d \in Claims :
        c # d /\ Live(c) /\ Live(d) /\ Compete(c, d) /\ claims[c].val # 0
            => claims[c].val # claims[d].val

(* A value a lease keeps in reserve is reported only by a claim of the     *)
(* lease's own reuse key, whoever wrote the lease and however stale the    *)
(* caches are: this is what makes a released address wait for its owner.   *)
ReservedForKey ==
    \A c \in Claims, k \in Leases :
        leases[k].up /\ claims[c].val = leases[k].val /\ leases[k].pool \in Refs(c)
            => LeaseNameFor[c] = k

(* The claim that holds a lease reports the lease's value, never another   *)
(* one: ensureLease and updateStatusAllocated write the same result even   *)
(* when a retry, a restart or the reaper comes between them.               *)
LeaseAgrees ==
    \A k \in Leases : LET c == leases[k].claim IN
        leases[k].up /\ ~leases[k].released /\ claims[c].up /\ claims[c].val # 0
            => claims[c].val = leases[k].val

(* A claim keeps its value for as long as it exists.                       *)
ValueStable ==
    [][\A c \in Claims :
          claims[c].val # 0 /\ claims'[c].uid = claims[c].uid
            => claims'[c].val = claims[c].val]_vars

(* Another claim, or a lease that is not the claim's own, has the value.   *)
Spoken(c, p, v) ==
    \/ \E d \in Claims \ {c} : p \in Refs(d) /\ claims[d].val = v
    \/ \E k \in Leases : /\ leases[k].pool = p
                         /\ leases[k].val = v
                         /\ k # LeaseNameFor[c] \/ leases[k].claim # c

(* What justifies that allocate turns a claim away.  One that pins no      *)
(* value: every value of every pool it lists, as far as the pools exist,   *)
(* is somebody else's.  One that pins a value: the first of its pools that *)
(* exists does not span it or has given it away.                           *)
Cause(c) ==
    IF Requested[c] = 0
      THEN \A i \in Present(c) : \A v \in Space[PoolRefs[c][i]] : Spoken(c, PoolRefs[c][i], v)
      ELSE \A i \in First(Present(c)) :
              Requested[c] \in Space[PoolRefs[c][i]] => Spoken(c, PoolRefs[c][i], Requested[c])

(* allocate turns a claim away only for a cause, whatever the caches show  *)
(* and whoever else is at work.  For a pinned value the pools listed after *)
(* the first are not asked, even where one of them has it free: that is    *)
(* what the code does, and not what allocationclaim_types.go:25-26 and     *)
(* 44-46 say of requestedIP.                                               *)
RefusedForCause ==
    [][\A w \in Workers :
          work[w].pc = "allocate" /\ work'[w].pc = "fail" => Cause(work[w].claim)]_vars

(* A claim that is being deleted goes: no conflict or missing lease keeps  *)
(* its finalizer forever.                                                  *)
DeletionCompletes ==
    \A c \in Claims : claims[c].deleting ~> ~claims[c].deleting

Available(c) == LET held == leases[LeaseNameFor[c]] IN
                \E i \in Stops(c, held) : Fits(c, i, held) # {}

(* An event that leads to a Reconcile call of the claim is on its way: the *)
(* claim changed, a lease of one of its pools was deleted, or the claim is *)
(* in the queue.                                                           *)
Stirred(c) == \/ c \in queue
              \/ "cache" \notin claimRv[c]
              \/ \E k \in Leases : gone[k] \cap Refs(c) # {}

(* A live claim for which a value stays free while an event on its account *)
(* is on its way is allocated one: no event is lost between the informers, *)
(* the queue and a call that fails, however late the caches are.  A value  *)
(* that becomes free without such an event, because the status of another  *)
(* claim changes or goes, is not covered: the watches do not look at it.   *)
EventuallyAllocated ==
    \A c \in Claims :
        [](Stirred(c) /\ [](Live(c) /\ Available(c)) => <>(claims[c].val # 0))

-----------------------------------------------------------------------------
(* The API server's claims and leases, as Allocator sees them.             *)
LifeOf(r) == IF ~r.up THEN "absent" ELSE IF r.deleting THEN "leaving" ELSE "live"

Listed == [c \in Claims |-> Refs(c)]
Lives == [c \in Claims |-> LifeOf(claims[c])]
Given == [c \in Claims |-> claims[c].val]
Reserved == [k \in Leases |-> <<leases[k].pool, leases[k].val>>]

A == INSTANCE Allocator WITH life <- Lives, given <- Given, reserved <- Reserved

(* The reconcilers, with their caches, their retries and their conflicting *)
(* writes, do nothing that Allocator does not allow: every value is given  *)
(* and reserved at one write, at which nobody of another name has a say in *)
(* it and no live claim of the same name reports it.                       *)
Implements == A!Spec

=============================================================================
