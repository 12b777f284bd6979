---------------------------- MODULE MCBroadcast ----------------------------
(* Small instances of Broadcast: requests and slots are interchangeable.   *)
EXTENDS Broadcast, TLC

CONSTANTS c1, c2, r1, r2, s1, s2
ActorSymmetry == Permutations(Request) \cup Permutations(Slot)
=============================================================================
