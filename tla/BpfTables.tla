------------------------------ MODULE BpfTables ------------------------------
(***************************************************************************)
(* What the daemon's map reconcilers share: the informer caches, the work  *)
(* queue of each runner, the kernel maps and the in-memory tables behind   *)
(* them.                                                                   *)
(*                                                                         *)
(* A pass of a reconciler reads the caches once and then makes a sequence  *)
(* of steps.  A step writes or removes one entry of one table.  Kernel     *)
(* tables are written by system calls, which may fail; the reconcilers'    *)
(* own snapshots are tables too, whose steps never fail.                   *)
(***************************************************************************)
EXTENDS Integers, Sequences, FiniteSets, SequencesExt

CONSTANTS None,   \* no object
          Self    \* the node this daemon runs on

VARIABLES
    cache,    \* [object key -> object or None]: what the informers delivered
    feed,     \* [kind -> Seq of [key, obj]]: changes on their way
    queue,    \* [runner -> Seq of keys]: the work queue of a runner
    later,    \* [runner -> set of keys]: failed keys, waiting out the backoff
    running,  \* [runner -> None or [key, steps, touched, failed]]: the pass it is in
    tables,   \* [table -> [entry key -> value]]; loose and lives are histories
    faults    \* [calls, restarts] that may still happen

tableVars == <<cache, feed, queue, later, running, tables, faults>>

(* Keys are <<kind, name>>. *)
Get(k) == IF k \in DOMAIN cache THEN cache[k] ELSE None
All(kind) == {k \in DOMAIN cache : k[1] = kind /\ cache[k] # None}

Has(t, k) == k \in DOMAIN tables[t]
When(condition, steps) == IF condition THEN steps ELSE <<>>

(***************************************************************************)
(* Steps.  fail: what an error of the step does to the pass.  "never": the *)
(* step is not a system call; "stop": the pass takes the steps of undo and *)
(* returns the error; "join": the pass goes on and returns the error at    *)
(* the end; "ignore": the error is logged.  skip: how many of the steps    *)
(* that follow are left out after an error that does not end the pass.     *)
(***************************************************************************)
Step(op, t, k, v, fail) ==
    [op |-> op, table |-> t, key |-> k, val |-> v, fail |-> fail, undo |-> <<>>,
     skip |-> 0]

Put(t, k, v) == Step("put", t, k, v, "stop")
Del(t, k) == Step("del", t, k, None, "stop")
Keep(t, k, v) == Step("put", t, k, v, "never")
Drop(t, k) == Step("del", t, k, None, "never")
Error == Step("error", "", None, None, "never")
Joined(s) == [s EXCEPT !.fail = "join"]
Ignored(s) == [s EXCEPT !.fail = "ignore"]
Undoing(s, steps) == [s EXCEPT !.undo = steps]
Skipping(s, n) == [s EXCEPT !.skip = n]

(* errors.Join: all the steps are tried, and the pass ends with the error. *)
AllOrStop(steps) ==
    [i \in DOMAIN steps |-> Undoing(steps[i],
        [j \in 1..(Len(steps) - i) |-> Ignored(steps[i + j])])]

(* One step for each member of a set, in some order. *)
Each(S, F(_)) == LET o == SetToSeq(S) IN [i \in 1..Len(o) |-> F(o[i])]

(***************************************************************************)
(* A history of what failed calls left behind, for the properties: an      *)
(* entry is "undeleted" while the last call on it was a removal that       *)
(* failed, and "unsure" while the last pass that was to write or remove it *)
(* failed, so that the record of its owner may not tell what became of it. *)
(***************************************************************************)
Loose(t, k) == Has("loose", <<t, k>>)
Undeleted(t, k) == Loose(t, k) /\ tables.loose[<<t, k>>] = "undeleted"

Entries(steps) == {<<steps[i].table, steps[i].key>> : i \in DOMAIN steps}
Touched(steps) ==
    Entries(SelectSeq(steps, LAMBDA s : s.fail # "never" /\ s.op \notin {"claim", "error", "drop"}))

Loosened(t, entries, why) ==
    [t EXCEPT !.loose = [x \in DOMAIN @ \cup entries |-> IF x \in entries THEN why ELSE @[x]]]

Without(f, k) == [x \in DOMAIN f \ {k} |-> f[x]]
With(f, k, v) == [x \in DOMAIN f \cup {k} |-> IF x = k THEN v ELSE f[x]]

-----------------------------------------------------------------------------
(* ownedaddr.Store: external_address_pools is the union of the claims.  *)

Here == "here"
Elsewhere == "elsewhere"
preferredDelivery(deliveries) == IF Here \in deliveries THEN Here ELSE Elsewhere

Claim(owner, claimed) == Step("claim", "claims", owner, claimed, "stop")
Release(owner) == Claim(owner, <<>>)

storeSet(claims, owner, claimed) ==
    IF DOMAIN claimed = {} THEN Without(claims, owner) ELSE With(claims, owner, claimed)

Union(claims) ==
    [p \in UNION {DOMAIN claims[o] : o \in DOMAIN claims} |->
        preferredDelivery({claims[o][p] : o \in {q \in DOMAIN claims : p \in DOMAIN claims[q]}})]

(* apply: what is missing or different is written, what is unclaimed goes; *)
(* the prefixes of failing are left as they are.                           *)
apply(claims, installed, failing) ==
    LET want == Union(claims)
        kept == {p \in failing : p \in DOMAIN installed}
    IN  [p \in (DOMAIN want \ failing) \cup kept |->
            IF p \in kept THEN installed[p] ELSE want[p]]

Differing(claims, installed) ==
    {p \in DOMAIN Union(claims) \cup DOMAIN installed :
        ~ (p \in DOMAIN Union(claims) /\ p \in DOMAIN installed
           /\ Union(claims)[p] = installed[p])}

-----------------------------------------------------------------------------
(* l2.Table: the inner map of a VNI comes with its first entry.  Entries   *)
(* are keyed <<vni, port or address>>; the inner map itself is <<vni>>.    *)

Insert(f, k, v) == With(With(f, <<k[1]>>, TRUE), k, v)

TablePut(t, k, v) == Step("insert", t, k, v, "stop")
TableEnsure(t, vni) == Step("insert", t, <<vni>>, TRUE, "stop")
TablePutIfAbsent(t, k, v) == Step("insertIfAbsent", t, k, v, "stop")
TableRemoveIfEqual(t, k, v) == Step("delIfEqual", t, k, v, "stop")
TableDelete(t, vni) == Step("drop", t, vni, None, "stop")

-----------------------------------------------------------------------------
Written(t, s) ==
    LET f == t[s.table] IN
    CASE s.op = "put" -> With(f, s.key, s.val)
      [] s.op = "del" -> Without(f, s.key)
      [] s.op = "insert" -> Insert(f, s.key, s.val)
      [] s.op = "insertIfAbsent" -> IF s.key \in DOMAIN f THEN f ELSE Insert(f, s.key, s.val)
      [] s.op = "delIfEqual" ->
            IF s.key \in DOMAIN f /\ f[s.key] = s.val THEN Without(f, s.key) ELSE f
      [] s.op = "drop" -> [x \in {y \in DOMAIN f : y[1] # s.key} |-> f[x]]

(* A call that succeeds settles its entry, a drop those of its VNI. *)
Known(loose, s) ==
    LET settled(x) == x[1] = s.table /\ (IF s.op = "drop" THEN x[2][1] = s.key ELSE x[2] = s.key)
    IN  [x \in {y \in DOMAIN loose : ~ settled(y)} |-> loose[x]]

(* The tables after a step that succeeds, and after one that fails. *)
Done(t, s) ==
    IF s.op = "claim"
    THEN LET claims == storeSet(t.claims, s.key, s.val)
         IN  [t EXCEPT !.claims = claims,
                       !.external_address_pools = apply(claims, @, {})]
    ELSE [t EXCEPT ![s.table] = Written(t, s), !.loose = Known(@, s)]

Failed(t, s) ==
    IF s.op = "claim"
    THEN LET claims == storeSet(t.claims, s.key, s.val)
         IN  {[t EXCEPT !.claims = claims, !.external_address_pools = apply(claims, @, {p})] :
                p \in Differing(claims, t.external_address_pools)}
    ELSE {IF s.op \in {"del", "delIfEqual"} THEN Loosened(t, {<<s.table, s.key>>}, "undeleted") ELSE t}

-----------------------------------------------------------------------------
(* The work queue: a key waits in it once. *)
Enqueue(q, keys) == q \o SelectSeq(keys, LAMBDA k : ~ Contains(q, k))

Orders(S) == {o \in [1..Cardinality(S) -> S] : \A i, j \in DOMAIN o : o[i] = o[j] => i = j}

(* The steps of a pass up to its next system call are one with it. *)
Settled(t, steps) ==
    LET calls == {i \in DOMAIN steps : steps[i].fail # "never" \/ steps[i].op = "error"}
        n == IF calls = {} THEN Len(steps) ELSE (CHOOSE i \in calls : \A j \in calls : i <= j) - 1
    IN  <<FoldLeft(Done, t, SubSeq(steps, 1, n)), SubSeq(steps, n + 1, Len(steps))>>

Goes(r, k, t, steps, touched, failed) ==
    LET next == Settled(t, steps)
        rest == {x \in touched : x \notin DOMAIN next[1].loose}
    IN
    /\ tables' = IF next[2] = <<>> /\ failed THEN Loosened(next[1], rest, "unsure") ELSE next[1]
    /\ running' = [running EXCEPT ![r] =
            IF next[2] = <<>> THEN None
            ELSE [key |-> k, steps |-> next[2], touched |-> touched, failed |-> failed]]
    /\ later' = [later EXCEPT ![r] =
            IF next[2] = <<>> /\ failed THEN @ \cup {k} ELSE @]

(* processNext: a runner has one worker, so its keys are passed one by     *)
(* one.  passes(r, k): what the pass may do, by the order of its lists.    *)
Begin(r, passes(_, _)) ==
    /\ running[r] = None
    /\ queue[r] # <<>>
    /\ \E steps \in passes(r, Head(queue[r])) :
            Goes(r, Head(queue[r]), tables, steps, Touched(steps), FALSE)
    /\ queue' = [queue EXCEPT ![r] = Tail(@)]
    /\ UNCHANGED <<cache, feed, faults>>

Continue(r) ==
    /\ running[r] # None
    /\ LET p == running[r]
           s == Head(p.steps)
       IN  IF s.op = "error"
           THEN Goes(r, p.key, tables, <<>>, p.touched, TRUE)
           ELSE Goes(r, p.key, Done(tables, s), Tail(p.steps), p.touched, p.failed)
    /\ UNCHANGED <<cache, feed, queue, faults>>

CallFails(r) ==
    /\ faults.calls > 0
    /\ running[r] # None
    /\ LET p == running[r]
           s == Head(p.steps)
       IN  /\ s.op # "error"
           /\ \E t \in Failed(tables, s) :
                IF s.fail = "stop" THEN Goes(r, p.key, t, s.undo, p.touched, TRUE)
                ELSE Goes(r, p.key, Loosened(t, Entries(SubSeq(p.steps, 2, s.skip + 1)), "unsure"),
                          SubSeq(p.steps, s.skip + 2, Len(p.steps)),
                          p.touched, p.failed \/ s.fail = "join")
    /\ faults' = [faults EXCEPT !.calls = @ - 1]
    /\ UNCHANGED <<cache, feed, queue>>

(* AddRateLimited: a failed key comes back after its backoff. *)
Retry(r) ==
    \E k \in later[r] :
        /\ later' = [later EXCEPT ![r] = @ \ {k}]
        /\ queue' = [queue EXCEPT ![r] = Enqueue(@, <<k>>)]
        /\ UNCHANGED <<cache, feed, running, tables, faults>>

(* watch: an add or an update hands the new object to the handler of each  *)
(* runner that watches the kind, a delete hands it the last copy.  The     *)
(* handler lists what it enqueues from the caches, in no particular order. *)
Deliver(kind, wakes(_, _, _, _)) ==
    /\ feed[kind] # <<>>
    /\ LET e == Head(feed[kind])
           known == [cache EXCEPT ![e.key] = e.obj]
           o == IF e.obj = None THEN cache[e.key] ELSE e.obj
           woken == [r \in DOMAIN queue |-> IF o = None THEN {} ELSE wakes(r, e.key, o, known)]
       IN  /\ cache' = known
           /\ \E order \in Orders(UNION {woken[r] : r \in DOMAIN queue}) :
                queue' = [r \in DOMAIN queue |->
                    Enqueue(queue[r], SelectSeq(order, LAMBDA k : k \in woken[r]))]
    /\ feed' = [feed EXCEPT ![kind] = Tail(@)]
    /\ UNCHANGED <<later, running, tables, faults>>
=============================================================================
