----------------------------- MODULE Allocator -----------------------------
(***************************************************************************)
(* What the allocator of the controller promises, without saying how: a    *)
(* claim is given a value of one of its pools, a name keeps a value in     *)
(* reserve, and both happen in one step each.  There are no caches, no     *)
(* workers, no retries and no restarts here; Allocation has them all, and  *)
(* is shown to implement this module.  The steps by which Cluster gives    *)
(* values to claims are these ones with the claim's status written in the  *)
(* same step.                                                              *)
(***************************************************************************)
EXTENDS Naturals

CONSTANTS
    Claims,        \* names of AllocationClaims
    Leases,        \* names of AllocationLeases
    Pools,         \* names of AllocationPools
    None,          \* no pool
    LeaseNameFor,  \* the lease name of a claim
    Listed,        \* [claim -> the set of pools it lists]
    Space          \* the candidate values of a pool

VARIABLES
    life,     \* per claim: "absent", "live" or "leaving"
    given,    \* per claim, the value it reports, or 0
    reserved  \* per lease name, the <<pool, value>> it keeps, or Nothing

vars == <<life, given, reserved>>

Nothing == <<None, 0>>

Init ==
    /\ life = [c \in Claims |-> "absent"]
    /\ given = [c \in Claims |-> 0]
    /\ reserved = [k \in Leases |-> Nothing]

(* The owner of a claim makes it, and marks it for deletion.               *)
Ask(c) ==
    /\ life[c] = "absent"
    /\ life' = [life EXCEPT ![c] = "live"]
    /\ UNCHANGED <<given, reserved>>

Retire(c) ==
    /\ life[c] = "live"
    /\ life' = [life EXCEPT ![c] = "leaving"]
    /\ UNCHANGED <<given, reserved>>

(* The claim goes, and with it the value it reports.                       *)
Go(c) ==
    /\ life[c] # "absent"
    /\ life' = [life EXCEPT ![c] = "absent"]
    /\ given' = [given EXCEPT ![c] = 0]
    /\ UNCHANGED reserved

(* Nobody but the claims of this name has a say in the value: no other     *)
(* name reserves it, and no claim of another name reports it.              *)
Unclaimed(k, p, v) ==
    /\ v \in Space[p]
    /\ \A j \in Leases \ {k} : reserved[j] # <<p, v>>
    /\ \A d \in Claims : p \in Listed[d] /\ given[d] = v => LeaseNameFor[d] = k

(* A name that reserves nothing reserves a value for one of its claims.    *)
Reserve(k) ==
    /\ reserved[k] = Nothing
    /\ \E c \in Claims : LeaseNameFor[c] = k
        /\ \E p \in Listed[c] : \E v \in Space[p] :
            /\ Unclaimed(k, p, v)
            /\ reserved' = [reserved EXCEPT ![k] = <<p, v>>]
    /\ UNCHANGED <<life, given>>

(* A claim is given a value, or it is taken back.  Another claim of its    *)
(* name may still report the value while it leaves.                        *)
Give(c) ==
    /\ life[c] # "absent"
    /\ \E p \in Listed[c] : \E v \in Space[p] :
        /\ Unclaimed(LeaseNameFor[c], p, v)
        /\ \A d \in Claims \ {c} : p \in Listed[d] /\ given[d] = v => life[d] # "live"
        /\ given' = [given EXCEPT ![c] = v]
    /\ UNCHANGED <<life, reserved>>

TakeBack(c) ==
    /\ given' = [given EXCEPT ![c] = 0]
    /\ UNCHANGED <<life, reserved>>

(* A name stops reserving.                                                 *)
Expire(k) ==
    /\ reserved' = [reserved EXCEPT ![k] = Nothing]
    /\ UNCHANGED <<life, given>>

Next ==
    \/ \E c \in Claims : Ask(c) \/ Retire(c) \/ Go(c) \/ Give(c) \/ TakeBack(c)
    \/ \E k \in Leases : Reserve(k) \/ Expire(k)

Spec == Init /\ [][Next]_vars

(* No two claims that are wanted report one value of a pool they share.    *)
GivenOnce ==
    \A c, d \in Claims : \A p \in Listed[c] \cap Listed[d] :
        life[c] = "live" /\ life[d] = "live" /\ given[c] = given[d] /\ given[c] \in Space[p]
            => c = d
=============================================================================
