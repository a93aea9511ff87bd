-------------------------- MODULE AllocatorProofs --------------------------
(***************************************************************************)
(* The abstract allocator keeps its promise, for every set of claims,      *)
(* names and pools: whatever implements it does too.                       *)
(***************************************************************************)
EXTENDS Allocator, TLAPS

(* A claim that is not there reports nothing.                              *)
AbsentBare == \A c \in Claims : life[c] = "absent" => given[c] = 0

Shape ==
    /\ life \in [Claims -> {"absent", "live", "leaving"}]
    /\ given \in [Claims -> Nat]

SInv == Shape /\ AbsentBare /\ GivenOnce

(* Nothing has been given in the beginning.                                *)
LEMMA NothingGiven == Init => SInv
BY DEF Init, SInv, Shape, AbsentBare, GivenOnce

(* One pool of a claim has a value, so that the pool it was looked up in   *)
(* is the one the rivals share; 0 is nobody's value.                       *)
LEMMA GivenOnceStep ==
    ASSUME \A c \in Claims : \A p, q \in Listed[c] : Space[p] \cap Space[q] # {} => p = q,
           \A c \in Claims : \A p \in Listed[c] : Space[p] \subseteq Nat \ {0},
           SInv, [Next]_vars
    PROVE  SInv'
<1> USE DEF SInv, Shape, AbsentBare, GivenOnce
<1>1. ASSUME NEW c \in Claims, Ask(c)
      PROVE  SInv'
  <2>1. given[c] = 0
    BY Zenon, <1>1 DEF Ask
  <2>2. Shape' /\ AbsentBare'
    BY Zenon, <1>1 DEF Ask
  <2>3. GivenOnce'
    BY ZenonT(30), <1>1, <2>1 DEF Ask
  <2> QED BY Zenon, <2>2, <2>3
<1>2. ASSUME NEW c \in Claims, Retire(c)
      PROVE  SInv'
  BY Zenon, <1>2 DEF Retire
<1>3. ASSUME NEW c \in Claims, Go(c)
      PROVE  SInv'
  BY Zenon, <1>3 DEF Go
<1>4. ASSUME NEW c \in Claims, Give(c)
      PROVE  SInv'
  <2>1. PICK p \in Listed[c] : \E v \in Space[p] :
           /\ Unclaimed(LeaseNameFor[c], p, v)
           /\ \A d \in Claims \ {c} : p \in Listed[d] /\ given[d] = v => life[d] # "live"
           /\ given' = [given EXCEPT ![c] = v]
    BY Zenon, <1>4 DEF Give
  <2>2. PICK v \in Space[p] :
           /\ \A d \in Claims \ {c} : p \in Listed[d] /\ given[d] = v => life[d] # "live"
           /\ given' = [given EXCEPT ![c] = v]
    BY Zenon, <2>1
  <2>3. life' = life /\ life[c] # "absent" /\ v \in Nat
    BY Zenon, <1>4, <2>2 DEF Give
  <2>4. Shape' /\ AbsentBare'
    BY Zenon, <2>2, <2>3
  <2>5. ASSUME NEW d \in Claims \ {c}, NEW q \in Listed[c] \cap Listed[d],
               life[d] = "live", given[d] = v, v \in Space[q]
        PROVE  FALSE
    <3>1. q = p
      BY Zenon, <2>2, <2>5
    <3> QED BY Zenon, <2>2, <2>5, <3>1
  <2>6. GivenOnce'
    BY ZenonT(30), <2>2, <2>3, <2>5
  <2> QED BY Zenon, <2>4, <2>6
<1>5. ASSUME NEW c \in Claims, TakeBack(c)
      PROVE  SInv'
  BY ZenonT(30), <1>5 DEF TakeBack
<1>6. ASSUME NEW k \in Leases, Reserve(k) \/ Expire(k)
      PROVE  SInv'
  BY Zenon, <1>6 DEF Reserve, Expire
<1>7. CASE UNCHANGED vars
  BY Zenon, <1>7 DEF vars
<1> QED BY Zenon, <1>1, <1>2, <1>3, <1>4, <1>5, <1>6, <1>7 DEF Next

(* Where the pools that one claim lists have disjoint values, no value of  *)
(* a pool is ever reported by two wanted claims: what leases and statuses  *)
(* of the controller are for, and with AllocationImplements what they      *)
(* achieve.                                                                *)
THEOREM GivenOnceAlways ==
    ASSUME \A c \in Claims : \A p, q \in Listed[c] : Space[p] \cap Space[q] # {} => p = q,
           \A c \in Claims : \A p \in Listed[c] : Space[p] \subseteq Nat \ {0}
    PROVE  Spec => []GivenOnce
<1>1. SInv /\ [Next]_vars => SInv'
  BY Zenon, GivenOnceStep
<1>2. SInv => GivenOnce
  BY Zenon DEF SInv
<1> QED BY NothingGiven, <1>1, <1>2, PTL DEF Spec
=============================================================================
