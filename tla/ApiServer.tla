----------------------------- MODULE ApiServer -----------------------------
(***************************************************************************)
(* The objects the API server stores and the copies the controller         *)
(* manager's caches hold of them.                                          *)
(*                                                                         *)
(* An object is a record: uid tells two objects of one name apart, owner   *)
(* is <<key, uid>> of the controller reference, fins its finalizers, del   *)
(* whether deletion was asked for.                                         *)
(***************************************************************************)
EXTENDS Addressing, Sequences, Functions

CONSTANTS
    None,           \* no object; a model value
    MaxValue        \* the last value of a number pool

VARIABLES
    obj,            \* obj[k]: the object the API server stores, or None
    seen,           \* seen[k]: the manager's cached copy of it
    queue,          \* the keys waiting for the controller of their kind
    todo,           \* what the users have not done yet, see Edit
    faults          \* how many API calls may fail, and how often the manager may crash

clusterVars == <<obj, seen, queue, todo, faults>>

\* A name, or a pair of names that makes one (a node and a Vpc, say).  A claim
\* is named after its owner and its pool, see ClaimKey.
Key(kind, name) == <<kind, name, "", "", "", "">>
Key2(kind, name, more) == <<kind, name, more, "", "", "">>
Kind(k) == k[1]
Name(k) == k[2]
NoOwner == <<Key("", ""), 0>>

(***************************************************************************)
(* Reading a cache c.                                                      *)
(***************************************************************************)
At(c, k) == IF k \in DOMAIN c THEN c[k] ELSE None
Has(c, k) == At(c, k) # None
Of(c, kind) == {k \in DOMAIN c : Kind(k) = kind /\ c[k] # None}
Where(c, kind, P(_)) == {k \in Of(c, kind) : P(c[k].spec)}

NoValue == NoAddress
NoKey == Key("", "")

\* A bootstrapped pool of numbers, and the address pool of an object.
PoolKey(name) == Key("AllocationPool", name)
PoolOf(kind, name) == Key2("AllocationPool", kind, name)
ClaimKey(owner, pool) == <<"AllocationClaim", owner[2], owner[3], Kind(owner), pool[2], pool[3]>>

\* A uid no owner reference or cached copy still names.
FreshUid(c, k) ==
    CHOOSE n \in 0 .. 3 :
        /\ \A j \in DOMAIN obj : obj[j] # None => obj[j].owner # <<k, n>>
        /\ \A j \in DOMAIN c : c[j] # None => c[j].owner # <<k, n>>
        /\ c[k] # None => c[k].uid # n

NewObject(c, k, owner, spec, status) ==
    [uid |-> FreshUid(c, k), del |-> FALSE, fins |-> {}, owner |-> owner,
     spec |-> spec, status |-> status]

RefTo(c, k) == <<k, c[k].uid>>
=============================================================================
