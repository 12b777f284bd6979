-------------------------- MODULE MCCourierBooking --------------------------
(* Small instances of CourierBooking: requests, slots and couriers are      *)
(* interchangeable.                                                         *)
EXTENDS CourierBooking, TLC

CONSTANTS k1, k2, r1, r2, s1, s2
ActorSymmetry ==  Permutations(Request) \cup Permutations(Slot)
                    \cup Permutations(Courier)
=============================================================================
