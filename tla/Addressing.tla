----------------------------- MODULE Addressing -----------------------------
(***************************************************************************)
(* The address arithmetic the controllers and the webhooks share, over     *)
(* addresses of AddressBits bits.  A prefix is its masked base and its     *)
(* length; a range its two inclusive bounds.                               *)
(***************************************************************************)
EXTENDS Integers, FiniteSets

CONSTANT AddressBits        \* 32 in the code

ASSUME AddressBitsAssumption == AddressBits \in Nat /\ AddressBits >= 2
ASSUME PowersAssumption == \A n \in 0 .. AddressBits : 2 ^ n \in Nat \ {0}

Addresses == 0 .. 2 ^ AddressBits - 1
NoAddress == -1

Size(p) == 2 ^ (AddressBits - p.bits)
Cidrs == {p \in [base : Addresses, bits : 0 .. AddressBits] : p.base % Size(p) = 0}

Host(a) == [base |-> a, bits |-> AddressBits]
Everywhere == [base |-> 0, bits |-> 0]
Holds(p, a) == a >= p.base /\ a < p.base + Size(p)

(***************************************************************************)
(* internal/addressrange                                                   *)
(***************************************************************************)
LastAddr(p) == p.base + Size(p) - 1

FirstAddr(p) == IF p.bits = AddressBits THEN NoAddress ELSE p.base + 1

PrefixRange(p) == [lo |-> p.base, hi |-> LastAddr(p)]

Greater(a, b) == IF a > b THEN a ELSE b
Lesser(a, b) == IF a < b THEN a ELSE b

\* Range.Intersect; a range that starts after it ends stands for none.
Intersect(r, s) == [lo |-> Greater(r.lo, s.lo), hi |-> Lesser(r.hi, s.hi)]

(***************************************************************************)
(* subnet_controller.go                                                    *)
(***************************************************************************)
\* The last byte is incremented with carry, so the very last address wraps.
nextGateway(p) == (p.base + 1) % 2 ^ AddressBits

addressIsUsableInPrefix(a, p) ==
    p.bits >= AddressBits - 1 \/ (a # p.base /\ a # LastAddr(p))

nextDNSAddress(p) ==
    LET a == p.base + 2
    IN  IF Holds(p, a) /\ addressIsUsableInPrefix(a, p) THEN a ELSE NoAddress

computeSubnetExcluded(p, gateway, dns) ==
    {a \in {gateway, dns, p.base + 3} : Holds(p, a) /\ addressIsUsableInPrefix(a, p)}

(***************************************************************************)
(* l2network_controller.go: an unusable gateway is an error, and the pool  *)
(* is not written.                                                         *)
(***************************************************************************)
L2GatewayUsable(p, gateway) ==
    gateway = NoAddress \/ (Holds(p, gateway) /\ addressIsUsableInPrefix(gateway, p))

computeL2NetworkExcluded(gateway) == {gateway} \ {NoAddress}

(***************************************************************************)
(* allocation_ranges.go                                                    *)
(***************************************************************************)
prefixReservesEdges(p) == p.bits < AddressBits - 1

candidateRangeFromPrefix(p) ==
    [span |-> PrefixRange(p),
     allocatable |-> IF prefixReservesEdges(p)
                     THEN [lo |-> p.base + 1, hi |-> LastAddr(p) - 1] ELSE PrefixRange(p)]

covers(r, s) == r.lo <= s.lo /\ s.lo <= r.hi /\ r.lo <= s.hi /\ s.hi <= r.hi

intersectCandidates(candidates, filter) ==
    {f \in filter : \E c \in candidates : covers(c.span, f.span)}

\* The addresses first-fit may hand out of a pool.
Pickable(p, excluded) ==
    LET r == candidateRangeFromPrefix(p).allocatable IN (r.lo .. r.hi) \ excluded

(***************************************************************************)
(* vpcpeering_controller.go and the webhooks: two prefixes overlap when    *)
(* one holds the base of the other.                                        *)
(***************************************************************************)
ipNetsOverlap(p, q) == Holds(p, q.base) \/ Holds(q, p.base)
=============================================================================
