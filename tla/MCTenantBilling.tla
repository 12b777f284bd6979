-------------------------- MODULE MCTenantBilling --------------------------
(* Small instances of TenantBilling: requests and readers interchangeable.  *)
EXTENDS TenantBilling, TLC

CONSTANTS r1, r2, d1
ActorSymmetry == Permutations(Request)
=============================================================================
