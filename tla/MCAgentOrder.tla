---------------------------- MODULE MCAgentOrder ----------------------------
(* Small instances of AgentOrder over OrderIdempotency: turns are           *)
(* interchangeable, and so are the other callers.                           *)
EXTENDS AgentOrder, TLC

CONSTANTS c1, c2, c3, c4
CallerSymmetry == {f \in Permutations(Caller) : \A t \in Turn : f[t] \in Turn}
=============================================================================
