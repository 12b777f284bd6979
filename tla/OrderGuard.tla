----------------------------- MODULE OrderGuard -----------------------------
(***************************************************************************)
(* What the order guard promises for one fingerprint, without rows, ids or *)
(* races: one caller at a time holds the grant to place the order; a grant *)
(* is given only while no recorded order is recent; and it comes free only *)
(* when the order's window has ended, or when nobody holds it any more.    *)
(***************************************************************************)
CONSTANT Caller

VARIABLES
    slot,    \* free, granted, recorded, or cooling after a failure
    owner,   \* the caller that holds the grant, as a set of one; {} if none
    recent   \* recorded orders whose window has not ended

vars == <<slot, owner, recent>>

Init == slot = "free" /\ owner = {} /\ recent = {}

Move(from, to) == slot \in from /\ slot' = to

Grant(c) ==
    /\ Move({"free"}, "granted") /\ owner' = {c}
    /\ recent = {} /\ UNCHANGED recent

\* The order is confirmed and put on record.
Record(c) ==
    /\ Move({"granted"}, "recorded") /\ owner = {c} /\ owner' = {}
    /\ \E o \in recent' : recent' = {o}

\* The attempt failed: identical orders stay barred for a while.
Fail(c) ==
    /\ Move({"granted"}, "cooling") /\ owner = {c} /\ owner' = {}
    /\ UNCHANGED recent

\* The owner is gone, or could not write what became of the order.
Abandon == owner # {} /\ owner' = {} /\ UNCHANGED <<slot, recent>>

Lapse ==
    /\ Move({"granted", "cooling"}, "free") /\ owner = {}
    /\ UNCHANGED <<owner, recent>>

WindowEnds ==
    /\ Move({"recorded"}, "free") /\ recent' = {}
    /\ UNCHANGED owner

Next ==
    \/ \E c \in Caller : Grant(c) \/ Record(c) \/ Fail(c)
    \/ Abandon \/ Lapse \/ WindowEnds

Spec == Init /\ [][Next]_vars
=============================================================================
