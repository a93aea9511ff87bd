------------------------------ MODULE Cluster ------------------------------
(***************************************************************************)
(* What every Juneau controller is built on: the API server behind its     *)
(* webhooks, the informer caches of the controller manager, and the work   *)
(* queues.                                                                 *)
(*                                                                         *)
(* A controller is a function from the caches to a pass: the writes one    *)
(* Reconcile call makes, in order, and whether it asks to run again.  The  *)
(* caches lag, so a write is refused when the copy it was computed from    *)
(* is no longer the stored one, and when the webhooks refuse it; a refused *)
(* or failing write ends the pass with an error and the key stays queued.  *)
(***************************************************************************)
EXTENDS Admission, SequencesExt

(***************************************************************************)
(* The parts of a pass.                                                    *)
(***************************************************************************)
Done(writes) == [do |-> writes, again |-> FALSE]
Again(writes) == [do |-> writes, again |-> TRUE]
Then(writes, pass) == [pass EXCEPT !.do = writes \o @]
Nothing == Done(<<>>)

\* One write: the object to store under key, or None to delete it.  What the
\* error branch stores for the pass's own object, None for no such branch:
\* orElse when the call fails, lost when it meets a conflict.  lax: a create
\* that finds the object there is taken for done.  patch: the call carries no
\* resource version.
Write(k, val) ==
    <<[key |-> k, val |-> val, orElse |-> None, lost |-> None, lax |-> FALSE, patch |-> FALSE]>>
Patch(k, val) == <<[Write(k, val)[1] EXCEPT !.patch = TRUE]>>
Lax(writes) == [i \in DOMAIN writes |-> [writes[i] EXCEPT !.lax = TRUE]]
Guarded(writes, alt) ==
    [i \in DOMAIN writes |-> [writes[i] EXCEPT !.orElse = alt, !.lost = alt]]
GuardedFailure(writes, alt) == [i \in DOMAIN writes |-> [writes[i] EXCEPT !.orElse = alt]]
Each(S, Writes(_)) ==
    LET q == SetToSeq(S) IN FlattenSeq([i \in DOMAIN q |-> Writes(q[i])])

\* controllerutil.CreateOrUpdate: the spec and the owner are set, the status
\* of an object that exists is kept.
CreateOrUpdate(c, k, owner, spec, status) ==
    Write(k, IF Has(c, k) THEN [c[k] EXCEPT !.owner = owner, !.spec = spec]
             ELSE NewObject(c, k, owner, spec, status))

WithStatus(c, k, status) == [c[k] EXCEPT !.status = status]
SetStatus(c, k, status) == Write(k, WithStatus(c, k, status))
Delete(k) == Write(k, None)

(***************************************************************************)
(* Running a pass.  A write that changes nothing is not sent.  A delete    *)
(* carries no precondition; every other write needs the cached copy, or    *)
(* the one this pass wrote, to be the stored one.  The webhooks have to    *)
(* admit both.                                                             *)
(***************************************************************************)
\* What a pass has done: the store, the keys it wrote, whether a call failed.
Attempt(st, w) ==
    LET k == w.key
        now == IF k \in st.mine THEN st.obj[k] ELSE seen[k]
        put(v) == [obj |-> [st.obj EXCEPT ![k] = Stored(v)], mine |-> st.mine \cup {k}, ok |-> TRUE]
        error == [st EXCEPT !.ok = FALSE]
    IN  CASE ~st.ok                                  -> st
          [] w.val = None /\ At(st.obj, k) = None    -> st
          [] w.val = None                            ->
                 IF AdmitsDelete(st.obj, k) THEN put(Removed(st.obj[k])) ELSE error
          [] w.patch                                 -> put(w.val)
          [] w.val = now                             -> st
          [] w.lax /\ now = None /\ st.obj[k] # None  -> st
          [] OTHER -> IF now = st.obj[k] /\ Admits(st.obj, k, now, w.val) THEN put(w.val) ELSE error

\* The error branch of the failing write: a status write to the pass's own key.
Recover(st, k, alt) ==
    IF alt = None \/ (k \notin st.mine /\ seen[k] # st.obj[k]) \/ st.obj[k] = None
    THEN st.obj ELSE [st.obj EXCEPT ![k] = alt]

Start == [obj |-> obj, mine |-> {}, ok |-> TRUE]

\* What the pass has done before each of its writes, and at its end; and the
\* first write the API server refuses, or one past the last.
Run(writes) == FoldLeft(LAMBDA run, w : Append(run, Attempt(run[Len(run)], w)), <<Start>>, writes)
FirstRefused(run) == Cardinality({n \in DOMAIN run : run[n].ok})

\* The store after the pass, and whether the key stays queued.
StopAt(k, pass, run, stop) ==
    [obj |-> IF stop < Len(run) THEN Recover(run[stop], k, pass.do[stop].lost) ELSE run[stop].obj,
     again |-> stop < Len(run) \/ pass.again]
Stop(k, pass, run) == StopAt(k, pass, run, FirstRefused(run))
Outcome(k, pass) == Stop(k, pass, Run(pass.do))

\* A worker takes k from the queue and runs its pass.
Leave(k, out) ==
    /\ obj' = out.obj
    /\ queue' = IF out.again THEN queue ELSE queue \ {k}
    /\ UNCHANGED <<seen, todo, faults>>
Work(k, pass) == Leave(k, Outcome(k, pass))

\* The same, when an API call that would have been accepted fails.
FailAfter(k, pass, run) ==
    \E n \in 1 .. FirstRefused(run) - 1 :
        /\ run[n + 1].obj # run[n].obj
        /\ obj' = Recover(run[n], k, pass.do[n].orElse)
WorkFails(k, pass) ==
    /\ faults.calls > 0
    /\ faults' = [faults EXCEPT !.calls = @ - 1]
    /\ FailAfter(k, pass, Run(pass.do))
    /\ UNCHANGED <<seen, queue, todo>>

\* The manager dies after some of the writes; the new one lists everything,
\* and its watchers take every object for a new one.
DieAfter(run) == \E n \in 1 .. FirstRefused(run) : obj' = run[n].obj
CrashAndRestart(k, pass, Wakes(_, _, _)) ==
    /\ faults.crashes > 0
    /\ faults' = [faults EXCEPT !.crashes = @ - 1]
    /\ DieAfter(Run(pass.do))
    /\ seen' = obj'
    /\ queue' = DOMAIN obj \cap UNION {Wakes(obj', j, obj'[j]) : j \in {i \in DOMAIN obj : obj'[i] # None}}
    /\ UNCHANGED todo

(***************************************************************************)
(* The API server's side.                                                  *)
(***************************************************************************)
\* The informer of a kind catches up; its watchers enqueue the keys that Wakes
\* gives for the old and the new copy of every object that changed, computed
\* from the cache after the events.  An informer that stops halfway is one that
\* caught up before the later writes.
Deliver(kind, Wakes(_, _, _)) ==
    LET news == {k \in DOMAIN obj : Kind(k) = kind /\ seen[k] # obj[k]} IN
    /\ news # {}
    /\ seen' = [k \in DOMAIN obj |-> IF k \in news THEN obj[k] ELSE seen[k]]
    /\ queue' = queue \cup (DOMAIN obj \cap UNION
           {UNION {Wakes(seen', k, o) : o \in {seen[k], obj[k]} \ {None}} : k \in news})
    /\ UNCHANGED <<obj, todo, faults>>

\* The garbage collector removes an object whose owner is gone.
Orphan(k) ==
    /\ obj[k] # None /\ obj[k].owner # NoOwner /\ ~obj[k].del
    /\ LET o == At(obj, obj[k].owner[1]) IN o # None => o.uid # obj[k].owner[2]

GarbageCollect(k) ==
    /\ Orphan(k) /\ AdmitsDelete(obj, k)
    /\ obj' = [obj EXCEPT ![k] = Removed(@)]
    /\ UNCHANGED <<seen, queue, todo, faults>>

\* A user who tries until the request is admitted.  e.turn orders what the
\* users do; edits of one turn come in any order.
Upcoming == {e \in todo : \A f \in todo : e.turn <= f.turn}
Edit(e, status) ==
    /\ e \in Upcoming
    /\ todo' = todo \ {e}
    /\ Submit(e, status)

(***************************************************************************)
(* The allocator, as the claims' owners see it: an unserved claim gets a   *)
(* value of its pools that nobody holds, or the one it asks for, and keeps *)
(* it until its finalizer is gone.  A claim that names a lease takes over  *)
(* the value the lease kept after its last holder, and finds the lease     *)
(* taken while that holder is there.  A claim nothing is free for is       *)
(* marked pending.  Modules Allocator and Allocation model the reconcilers *)
(* behind these steps.                                                     *)
(***************************************************************************)
Unserved == [value |-> NoValue, from |-> NoKey, pending |-> FALSE]
ClaimSpec(ref, pools) == [pools |-> pools, ref |-> ref, want |-> NoValue, lease |-> NoKey]

\* newAllocationClaim under CreateOrUpdate, controlled by the resource.
EnsureClaims(c, k, pools) ==
    CreateOrUpdate(c, ClaimKey(k, pools[1]), RefTo(c, k), ClaimSpec(k, pools), Unserved)
EnsureClaim(c, k, pool) == EnsureClaims(c, k, <<pool>>)

\* The claims the ElasticIP and NetworkInterface controllers create and then
\* leave alone; nothing controls them.
CreateClaim(c, claim, spec) ==
    IF Has(c, claim) THEN <<>> ELSE Lax(Write(claim, NewObject(c, claim, NoOwner, spec, Unserved)))

\* A claim's value, and whether it was told there is none to have.
ValueOf(c, k) == IF Has(c, k) THEN c[k].status.value ELSE NoValue
Exhausted(c, k) == Has(c, k) /\ c[k].status.pending

Taken(pool) ==
    {obj[j].status.value : j \in {i \in Of(obj, "AllocationClaim") : obj[i].status.from = pool}}
    \cup {obj[j].spec.value : j \in {i \in Of(obj, "AllocationLease") : obj[i].spec.from = pool}}

\* bootstrap/defaults.go: the pools of numbers and their first values, 2 where
\* the default object holds 1 without a claim.
FirstNumber(pool) == IF Name(pool) \in {"vpc-id", "subnet-vni", "route-table-id"} THEN 2 ELSE 1

\* The pool of an object hands out addresses, the others are bootstrapped.
FreeValues(pool) ==
    CASE pool = PoolKey(Name(pool)) -> (FirstNumber(pool) .. MaxValue) \ Taken(pool)
      [] pool # PoolKey(Name(pool)) /\ ~Has(obj, pool) -> {}
      [] OTHER ->
            UNION {Pickable(p, obj[pool].spec.excluded) : p \in obj[pool].spec.cidrs} \ Taken(pool)

Serve(k, v, pool) ==
    LET lease == obj[k].spec.lease
        free == lease \in DOMAIN obj /\ (obj[lease] = None \/ ~obj[lease].spec.held)
        held == [claim |-> k, held |-> TRUE, value |-> v, from |-> pool]
    IN  obj' = [j \in DOMAIN obj |->
            CASE j = k -> [obj[k] EXCEPT !.fins = {"lease"},
                              !.status = [value |-> v, from |-> pool, pending |-> FALSE]]
              [] j = lease /\ free /\ obj[j] = None -> NewObject(seen, j, NoOwner, held, None)
              [] j = lease /\ free /\ obj[j] # None -> [obj[j] EXCEPT !.spec = held]
              [] OTHER -> obj[j]]

IsClaim(k) == Kind(k) = "AllocationClaim" /\ obj[k] # None
Waiting(k) == IsClaim(k) /\ ~obj[k].del /\ obj[k].status.value = NoValue
Options(k, i) ==
    LET spec == obj[k].spec
        free == FreeValues(spec.pools[i])
    IN  IF spec.want = NoValue THEN free ELSE {spec.want} \cap free
Able(k) == {i \in DOMAIN obj[k].spec.pools : Options(k, i) # {}}

Kept(k) == LET l == At(obj, obj[k].spec.lease) IN l # None /\ ~l.spec.held
Servable(k) == Waiting(k) /\ (Kept(k) \/ Able(k) # {} \/ ~obj[k].status.pending)

Allocate(k) ==
    /\ Waiting(k)
    /\ LET lease == obj[k].spec.lease
           i == Min(Able(k))
       IN  \/ Kept(k) /\ Serve(k, obj[lease].spec.value, obj[lease].spec.from)
           \/ ~Kept(k) /\ Able(k) # {} /\ Serve(k, Min(Options(k, i)), obj[k].spec.pools[i])
           \/ /\ ~Kept(k) /\ Able(k) = {} /\ ~obj[k].status.pending
              /\ obj' = [obj EXCEPT ![k].status.pending = TRUE]
    /\ UNCHANGED <<seen, queue, todo, faults>>

\* The lease goes first, or stays for the next claim of its name, then the
\* finalizer and with it the claim.
Releasable(k) == IsClaim(k) /\ obj[k].del
Release(k) ==
    LET lease == obj[k].spec.lease
        mine == At(obj, lease) # None /\ obj[lease].spec.claim = k
    IN  /\ Releasable(k)
        /\ obj' = [j \in DOMAIN obj |->
               CASE j = k -> None
                 [] j = lease /\ mine -> [obj[j] EXCEPT !.spec.held = FALSE]
                 [] OTHER -> obj[j]]
        /\ UNCHANGED <<seen, queue, todo, faults>>

\* A lease nobody came back for runs out.
Expirable(k) == Kind(k) = "AllocationLease" /\ obj[k] # None /\ ~obj[k].spec.held
Expire(k) ==
    /\ Expirable(k)
    /\ obj' = [obj EXCEPT ![k] = None]
    /\ UNCHANGED <<seen, queue, todo, faults>>
=============================================================================
