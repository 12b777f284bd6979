----------------------------- MODULE MCJobQueue -----------------------------
(* Small instances of JobQueue.                                            *)
EXTENDS JobQueue

CONSTANTS k1, d1, q1, s1, s2, i1, i2

\* Jobs 1 and 2 share a serial key, jobs 2 and 3 a dedup key.
MCSerialKey == [j \in Job |-> IF j <= 2 THEN k1 ELSE NoKey]
MCDedupKey == [j \in Job |-> IF j = 1 THEN NoKey ELSE d1]
MCQueueOf == [j \in Job |-> q1]
MCSlotQueue == [s \in Slot |-> q1]
=============================================================================
