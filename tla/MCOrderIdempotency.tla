------------------------- MODULE MCOrderIdempotency -------------------------
(* Small instances of OrderIdempotency: callers are interchangeable.       *)
EXTENDS OrderIdempotency, TLC

CONSTANTS c1, c2, c3
CallerSymmetry == Permutations(Caller)
=============================================================================
