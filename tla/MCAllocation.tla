---------------------------- MODULE MCAllocation ----------------------------
(* Small instances of Allocation for TLC.                                  *)
EXTENDS Allocation, TLC

CONSTANTS ca, cb, w1, ka, kb, p1, p2

(* Every claim under its own name, or both under one reuse key.            *)
PrivateKeys == ca :> ka @@ cb :> kb
SharedKey == ca :> ka @@ cb :> ka

OnePool == ca :> <<p1>> @@ cb :> <<p1>>
TwoValues == p1 :> {1, 2}
OneValue == p1 :> {1}
NothingRequested == ca :> 0 @@ cb :> 0

(* Both list two pools of one value; cb pins the value of the second.      *)
BothPools == ca :> <<p1, p2>> @@ cb :> <<p1, p2>>
OneEach == p1 :> {1} @@ p2 :> {2}
TwoRequested == ca :> 0 @@ cb :> 2
=============================================================================
