----------------------------- MODULE TaskQueue -----------------------------
(***************************************************************************)
(* What the job queue promises its callers, without processes, leases or   *)
(* polls: a task is run at least once until it finishes or has failed      *)
(* MaxAttempts times, never twice at the same time, never beside a task of *)
(* the same serial key, and a dedup key stands for one live task.          *)
(***************************************************************************)
EXTENDS Integers

CONSTANTS Task, MaxAttempts, SerialKey, DedupKey, NoKey

VARIABLES
    state,   \* none, waiting, running, done, dead or gone
    tries    \* failed runs so far

vars == <<state, tries>>

Init == state = [t \in Task |-> "none"] /\ tries = [t \in Task |-> 0]

Same(key, t, u) == t # u /\ key[t] # NoKey /\ key[t] = key[u]

Set(t, from, to) == state[t] = from /\ state' = [state EXCEPT ![t] = to]

Submit(t) ==
    /\ Set(t, "none", "waiting") /\ UNCHANGED tries
    /\ \A u \in Task : Same(DedupKey, t, u) => state[u] \notin {"waiting", "running"}

Begin(t) ==
    /\ Set(t, "waiting", "running") /\ UNCHANGED tries
    /\ \A u \in Task : Same(SerialKey, t, u) => state[u] # "running"

Finish(t) == Set(t, "running", "done") /\ UNCHANGED tries

Err(t) ==
    /\ tries' = [tries EXCEPT ![t] = @ + 1]
    /\ Set(t, "running", IF tries[t] + 1 = MaxAttempts THEN "dead" ELSE "waiting")

\* The run was cut short: its result is unknown and the task waits again.
Interrupt(T) ==
    /\ \A t \in T : state[t] = "running"
    /\ state' = [t \in Task |-> IF t \in T THEN "waiting" ELSE state[t]]
    /\ UNCHANGED tries

\* Waiting tasks are deleted, several at once or one.
Withdraw(T) ==
    /\ \A t \in T : state[t] = "waiting"
    /\ state' = [t \in Task |-> IF t \in T THEN "gone" ELSE state[t]]
    /\ UNCHANGED tries

Forget(t)   == Set(t, "done", "gone") /\ UNCHANGED tries

Next ==
    \/ \E t \in Task : \/ Submit(t) \/ Begin(t) \/ Finish(t) \/ Err(t)
                       \/ Forget(t)
    \/ \E T \in SUBSET Task : Interrupt(T) \/ Withdraw(T)

Spec == Init /\ [][Next]_vars
=============================================================================
