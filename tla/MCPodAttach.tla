---------------------------- MODULE MCPodAttach ----------------------------
(***************************************************************************)
(* Instances of PodAttach.                                                 *)
(***************************************************************************)
EXTENDS PodAttach

CONSTANTS ua, ub, b1, b2, eth0, net1

TheUids == <<ua, ub>>
TheBoxes == <<b1, b2>>
TheNics == <<eth0, net1>>
OldTwice == [b \in {b1, b2} |-> IF b = b1 THEN 2 ELSE 1]

World(second, asks, by, may) ==
    [uidOf |-> [b \in {b1, b2} |-> IF b = b2 THEN second ELSE ua],
     asks |-> asks, reach |-> by, edits |-> may]

TwoNicPod == World(ua, {eth0, net1}, "route", {"drop"})
ProbedPod == World(ua, {eth0}, "probe", {"finish", "delete"})
NamesakePod == World(ub, {eth0}, "probe", {"delete"})

(* A second sandbox of the same instance, with an extra NIC that the Pod   *)
(* may drop; the same with one NIC and probes, for a Pod that may finish   *)
(* or go; a second sandbox of the instance that follows under the name.    *)
AllWorlds == {TwoNicPod, ProbedPod, NamesakePod}
=============================================================================
