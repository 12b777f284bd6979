-------------------------- MODULE Broadcast_proofs --------------------------
(***************************************************************************)
(* Proofs about Broadcast for any audience and any number of requests,     *)
(* worker slots, jobs, attempts and failures.                              *)
(***************************************************************************)
EXTENDS Broadcast, FiniteSetTheorems, TLAPS

JobState == {"none", "waiting", "running", "done", "dead", "gone"}

RowTypeOK ==
    /\ status \in {"draft", "scheduled", "sending", "completed", "cancelled"}
    /\ sent \in Nat /\ failed \in Nat /\ active \in BOOLEAN
    /\ accepted \in Nat /\ late \in Nat /\ stop \in {"none", "clean", "crossed"}
    /\ calls \in 0..MaxCalls /\ troubles \in 0..MaxTroubles

QueueTypeOK ==
    /\ state \in [JobId -> JobState] /\ tries \in [JobId -> 0..MaxAttempts]
    /\ payload \in [JobId -> Contact \cup {Dispatch}]
    /\ skipped \subseteq JobId

ActorTypeOK ==
    /\ pc \in [Actor -> Step] /\ left \in [Actor -> SUBSET Contact]
    /\ job \in [Slot -> JobId \cup {NoJob}] /\ threw \in [Slot -> BOOLEAN]

\* A handler under way has a running job of its own.
Holding ==
    \A s \in Slot : /\ pc[s] # "idle" <=> job[s] # NoJob
                    /\ pc[s] # "idle" => state[job[s]] = "running"
Alone == \A s, t \in Slot : job[s] = job[t] /\ job[s] # NoJob => s = t

\* The fan-out is the work of a dispatch job.
Kinds == \A s \in Slot : pc[s] \in {"dispatch", "mark", "fan"} => payload[job[s]] = Dispatch

\* A job that may run again has an attempt left.
Attempts == \A n \in JobId : state[n] \in {"none", "waiting", "running"} => tries[n] < MaxAttempts

JobInv == QueueTypeOK /\ ActorTypeOK /\ Holding /\ Alone /\ Kinds /\ Attempts

-----------------------------------------------------------------------------
(* Slots and jobs.                                                          *)

\* A new job takes the place of none.
LEMMA EnqueueStep ==
    ASSUME JobInv, NEW what \in Contact \cup {Dispatch}, Enqueue(what)
    PROVE  /\ state' \in [JobId -> JobState] /\ UNCHANGED tries
           /\ payload' \in [JobId -> Contact \cup {Dispatch}]
           /\ \A n \in JobId : state[n] # "none" => state'[n] = state[n] /\ payload'[n] = payload[n]
           /\ \A n \in JobId : state[n] = "none" => state'[n] \in {"none", "waiting"}
BY DEF Enqueue, Queue!Submit, Queue!Set, JobInv, QueueTypeOK, JobState

\* The end of a handler frees its slot and settles its job, and no other.
LEMMA LeaveStep ==
    ASSUME JobInv, NEW s \in Slot, pc[s] # "idle", Resolve(s) \/ Throw(s), skipped' \subseteq JobId
    PROVE  JobInv'
<1> USE BroadcastConstAssumption DEF JobInv
<1>1. /\ job[s] \in JobId /\ state[job[s]] = "running"
      /\ tries[job[s]] \in 0..MaxAttempts /\ tries[job[s]] < MaxAttempts
  BY DEF Holding, ActorTypeOK, QueueTypeOK, Attempts
<1>2. /\ pc' = [pc EXCEPT ![s] = "idle"] /\ left' = [left EXCEPT ![s] = {}]
      /\ job' = [job EXCEPT ![s] = NoJob] /\ threw' = [threw EXCEPT ![s] = FALSE]
      /\ payload' = payload
  BY DEF Resolve, Throw, Leave, Freed
<1>3. \A n \in JobId \ {job[s]} : state'[n] = state[n] /\ tries'[n] = tries[n]
  BY <1>1 DEF Resolve, Throw, Queue!Finish, Queue!Err, Queue!Set, QueueTypeOK
<1>4. /\ state' \in [JobId -> JobState] /\ tries' \in [JobId -> 0..MaxAttempts]
      /\ state'[job[s]] = "waiting" => tries'[job[s]] < MaxAttempts
      /\ state'[job[s]] \in {"waiting", "done", "dead"}
  <2>1. CASE Resolve(s)
    BY <1>1, <2>1 DEF Resolve, Queue!Finish, Queue!Set, QueueTypeOK, JobState
  <2>2. CASE Throw(s)
    <3>1. tries' = [tries EXCEPT ![job[s]] = tries[job[s]] + 1] /\ tries[job[s]] + 1 \in 0..MaxAttempts
      BY <1>1, <2>2 DEF Throw, Queue!Err
    <3>2. tries'[job[s]] = tries[job[s]] + 1 /\ tries' \in [JobId -> 0..MaxAttempts]
      BY <1>1, <3>1 DEF QueueTypeOK
    <3>3. state' = [state EXCEPT ![job[s]] = IF tries[job[s]] + 1 = MaxAttempts THEN "dead" ELSE "waiting"]
      BY <2>2 DEF Throw, Queue!Err, Queue!Set
    <3>4. state' \in [JobId -> JobState]
      BY <3>3 DEF QueueTypeOK, JobState
    <3>5. state'[job[s]] = IF tries[job[s]] + 1 = MaxAttempts THEN "dead" ELSE "waiting"
      BY <1>1, <3>3 DEF QueueTypeOK
    <3> QED
      BY <1>1, <3>2, <3>4, <3>5
  <2> QED
    BY <2>1, <2>2
<1>5. QueueTypeOK' /\ ActorTypeOK'
  BY <1>2, <1>4 DEF QueueTypeOK, ActorTypeOK, Step, Actor
<1>6. \A t \in Slot \ {s} : /\ pc'[t] = pc[t] /\ job'[t] = job[t]
                            /\ job[t] \in JobId => job[t] # job[s]
  BY <1>1, <1>2 DEF ActorTypeOK, Actor, Alone, JobId, NoJob
<1>7. pc'[s] = "idle" /\ job'[s] = NoJob
  BY <1>2 DEF ActorTypeOK, Actor
<1>8. Holding'
  BY <1>3, <1>6, <1>7 DEF Holding, ActorTypeOK, JobId, NoJob
<1>9. Alone' /\ Kinds'
  BY <1>2, <1>6, <1>7 DEF Alone, Kinds
<1>10. Attempts'
  BY <1>3, <1>4 DEF Attempts
<1> QED
  BY <1>5, <1>8, <1>9, <1>10

\* A handler or a request that goes on keeps its job, if it has one.
LEMMA GoStep ==
    ASSUME JobInv, NEW a \in Actor, NEW from, NEW to \in Step \ {"idle"}, Goto(a, from, to),
           a \in Slot => from # "idle",
           a \in Slot /\ to \in {"dispatch", "mark", "fan"} => payload[job[a]] = Dispatch,
           UNCHANGED <<queueVars, job>>, left' \in [Actor -> SUBSET Contact],
           threw' \in [Slot -> BOOLEAN], skipped' \subseteq JobId
    PROVE  JobInv'
<1> USE BroadcastConstAssumption DEF JobInv, queueVars
<1>1. QueueTypeOK' /\ ActorTypeOK' /\ Attempts'
  BY DEF QueueTypeOK, ActorTypeOK, Attempts, Goto
<1>2. \A t \in Slot : pc'[t] = IF t = a THEN to ELSE pc[t]
  BY DEF Goto, ActorTypeOK, Actor
<1>3. a \in Slot => pc[a] # "idle"
  BY DEF Goto
<1>4. Holding' /\ Alone' /\ Kinds'
  BY <1>2, <1>3 DEF Holding, Alone, Kinds
<1> QED
  BY <1>1, <1>4

\* A request that ends has no job.
LEMMA RequestEnds ==
    ASSUME JobInv, NEW r \in Request, pc' = [pc EXCEPT ![r] = "idle"],
           UNCHANGED <<queueVars, job, threw, skipped>>, left' \in [Actor -> SUBSET Contact]
    PROVE  JobInv'
<1> USE BroadcastConstAssumption DEF JobInv, queueVars
<1>1. QueueTypeOK' /\ ActorTypeOK' /\ Attempts'
  BY DEF QueueTypeOK, ActorTypeOK, Attempts, Step
<1>2. \A t \in Slot : pc'[t] = pc[t]
  BY DEF ActorTypeOK
<1> QED
  BY <1>1, <1>2 DEF Holding, Alone, Kinds

\* A job stored by a request or a fan-out.
LEMMA StoreStep ==
    ASSUME JobInv, NEW what \in Contact \cup {Dispatch}, Enqueue(what),
           \A s \in Slot : pc'[s] = pc[s], pc' \in [Actor -> Step],
           UNCHANGED <<job, threw, skipped>>, left' \in [Actor -> SUBSET Contact]
    PROVE  JobInv'
<1> USE BroadcastConstAssumption DEF JobInv
<1>1. QueueTypeOK' /\ ActorTypeOK' /\ UNCHANGED tries
  BY EnqueueStep DEF QueueTypeOK, ActorTypeOK
<1>2. Attempts'
  BY EnqueueStep DEF Attempts, QueueTypeOK, JobState
<1>3. \A n \in JobId : state[n] = "running" => state'[n] = "running" /\ payload'[n] = payload[n]
  BY EnqueueStep
<1>4. Holding' /\ Alone' /\ Kinds'
  <2>1. \A s \in Slot : pc[s] # "idle" => job[s] \in JobId /\ state[job[s]] = "running"
    BY DEF Holding, ActorTypeOK
  <2> QED
    BY <1>3, <2>1 DEF Holding, Alone, Kinds
<1> QED
  BY <1>1, <1>2, <1>4

\* The end of a dispatch, a handler's or a request's.
LEMMA ReturnStep ==
    ASSUME JobInv, NEW a \in Actor, pc[a] # "idle", Return(a), skipped' = skipped
    PROVE  JobInv'
<1>1. CASE a \in Slot
  BY <1>1, LeaveStep DEF Return, JobInv, QueueTypeOK
<1>2. CASE a \notin Slot
  <2>1. left' \in [Actor -> SUBSET Contact]
    BY <1>2 DEF Return, JobInv, ActorTypeOK
  <2> QED
    BY <1>2, <2>1, RequestEnds DEF Return, Actor
<1> QED
  BY <1>1, <1>2

\* Every request keeps the queue and the slots as they should be.
LEMMA RequestJobs ==
    ASSUME JobInv, NEW r \in Request, RequestStep(r)
    PROVE  JobInv'
<1>1. r \in Actor /\ r \notin Slot /\ skipped \subseteq JobId
  BY BroadcastConstAssumption DEF Actor, JobInv, QueueTypeOK
<1>2. left \in [Actor -> SUBSET Contact] /\ threw \in [Slot -> BOOLEAN] /\ pc \in [Actor -> Step]
  BY DEF JobInv, ActorTypeOK
<1>3. CASE SendNow(r) \/ Schedule(r) \/ Cancel(r)
  BY <1>1, <1>2, <1>3, GoStep DEF SendNow, Schedule, Cancel, Accept, metaVars, Step
<1>4. CASE ScheduleMark(r)
  BY <1>1, <1>2, <1>4, GoStep DEF ScheduleMark, metaVars, Step
<1>5. CASE SchedulePlan(r)
  <2>1. pc' = [pc EXCEPT ![r] = "idle"]
    BY <1>5 DEF SchedulePlan, Goto
  <2>2. \A s \in Slot : pc'[s] = pc[s]
    BY <1>1, <1>2, <2>1 DEF Actor
  <2>3. pc' \in [Actor -> Step]
    BY <1>1, <1>2, <2>1 DEF Step
  <2> QED
    BY <1>2, <1>5, <2>2, <2>3, StoreStep DEF SchedulePlan, metaVars
<1>6. CASE CancelPurge(r)
  <2>1. \A s \in Slot : pc'[s] = pc[s]
    BY <1>1, <1>2, <1>6 DEF CancelPurge, Goto, Actor
  <2>2. /\ state' = [n \in JobId |-> IF state[n] = "waiting" THEN "gone" ELSE state[n]]
        /\ UNCHANGED <<tries, payload, job, threw, left, skipped>> /\ pc' = [pc EXCEPT ![r] = "cancel"]
    BY <1>6 DEF CancelPurge, Queue!Withdraw, Goto, metaVars
  <2>3. QueueTypeOK' /\ ActorTypeOK' /\ Attempts'
    BY <2>2 DEF JobInv, QueueTypeOK, ActorTypeOK, Attempts, JobState, Step
  <2>4. Holding' /\ Alone' /\ Kinds'
    BY <2>1, <2>2 DEF JobInv, Holding, Alone, Kinds, ActorTypeOK
  <2> QED
    BY <2>3, <2>4 DEF JobInv
<1>7. CASE CancelMark(r) \/ RequestFails(r)
  <2>1. /\ pc' = [pc EXCEPT ![r] = "idle"] /\ UNCHANGED <<queueVars, job, threw, skipped>>
        /\ left' = left \/ left' = [left EXCEPT ![r] = {}]
    BY <1>7 DEF CancelMark, RequestFails, Goto, metaVars
  <2>2. left' \in [Actor -> SUBSET Contact]
    BY <1>2, <2>1
  <2> QED
    BY <2>1, <2>2, RequestEnds
<1> QED
  BY <1>3, <1>4, <1>5, <1>6, <1>7 DEF RequestStep

\* So does dispatch, whoever runs it.
LEMMA DispatchJobs ==
    ASSUME JobInv, NEW a \in Actor, DispatchStep(a)
    PROVE  JobInv'
<1>1. left \in [Actor -> SUBSET Contact] /\ threw \in [Slot -> BOOLEAN] /\ pc \in [Actor -> Step]
  BY DEF JobInv, ActorTypeOK
<1>2. skipped \subseteq JobId
  BY DEF JobInv, QueueTypeOK
<1>3. CASE DispatchRead(a) /\ ~Goto(a, "dispatch", "mark") /\ ~Goto(a, "dispatch", "complete")
  BY <1>3, ReturnStep DEF DispatchRead, metaVars
<1>4. ASSUME DispatchRead(a), NEW to \in {"mark", "complete"}, Goto(a, "dispatch", to),
             UNCHANGED <<queueVars, left, job, threw>>
      PROVE  JobInv'
  <2>1. a \in Slot /\ to \in {"dispatch", "mark", "fan"} => payload[job[a]] = Dispatch
    BY <1>4 DEF JobInv, Kinds, Goto
  <2> QED
    BY <1>1, <1>2, <1>4, <2>1, GoStep DEF DispatchRead, metaVars, Step
<1>5. CASE DispatchRead(a)
  BY <1>3, <1>4, <1>5, ReturnStep DEF DispatchRead, metaVars
<1>6. CASE DispatchMark(a)
  <2>1. left' \in [Actor -> SUBSET Contact]
    BY <1>1, <1>6 DEF DispatchMark
  <2>2. a \in Slot => payload[job[a]] = Dispatch
    BY <1>6 DEF DispatchMark, JobInv, Kinds, Goto
  <2> QED
    BY <1>1, <1>2, <1>6, <2>1, <2>2, GoStep DEF DispatchMark, metaVars, Step
<1>7. CASE Fan(a)
  <2>1. PICK c \in left[a] : Enqueue(c) /\ left' = [left EXCEPT ![a] = @ \ {c}]
    BY <1>7 DEF Fan
  <2>2. c \in Contact /\ left' \in [Actor -> SUBSET Contact]
    BY <1>1, <2>1
  <2> QED
    BY <1>1, <1>7, <2>1, <2>2, StoreStep DEF Fan, metaVars
<1>8. CASE FanEnds(a)
  BY <1>8, ReturnStep DEF FanEnds, metaVars
<1>9. CASE Complete(a)
  <2>1. CASE a \in Slot /\ threw[a]
    BY <1>2, <1>9, <2>1, LeaveStep DEF Complete, metaVars
  <2>2. CASE ~(a \in Slot /\ threw[a])
    BY <1>9, <2>2, ReturnStep DEF Complete, metaVars
  <2> QED
    BY <2>1, <2>2
<1> QED
  BY <1>5, <1>6, <1>7, <1>8, <1>9 DEF DispatchStep

\* So do the handlers of the send jobs.
LEMMA HandlerJobs ==
    ASSUME JobInv, NEW s \in Slot, HandlerStep(s)
    PROVE  JobInv'
<1>1. left \in [Actor -> SUBSET Contact] /\ threw \in [Slot -> BOOLEAN] /\ s \in Actor
  BY DEF JobInv, ActorTypeOK, Actor
<1>2. skipped \subseteq JobId
  BY DEF JobInv, QueueTypeOK
<1>3. ASSUME pc[s] # "idle", Skip(s) \/ UNCHANGED metaVars PROVE skipped' \subseteq JobId
  BY <1>2, <1>3 DEF Skip, metaVars, JobInv, Holding, ActorTypeOK
<1>4. CASE Handle(s)
  <2>1. CASE active
    BY <1>1, <1>2, <1>4, <2>1, GoStep DEF Handle, metaVars, Step
  <2>2. CASE ~active
    BY <1>3, <1>4, <2>2, LeaveStep DEF Handle
  <2> QED
    BY <2>1, <2>2
<1>5. CASE Load(s)
  <2>1. CASE Cancelled
    BY <1>3, <1>5, <2>1, LeaveStep DEF Load
  <2>2. CASE ~Cancelled
    BY <1>1, <1>2, <1>5, <2>2, GoStep DEF Load, metaVars, Step
  <2> QED
    BY <2>1, <2>2
<1>6. CASE Miss(s)
  BY <1>2, <1>6, LeaveStep DEF Miss, metaVars
<1>7. CASE Send(s) \/ SendUnheard(s)
  BY <1>1, <1>2, <1>7, GoStep DEF Send, SendUnheard, Step
<1>8. CASE Record(s) \/ Count(s)
  BY <1>1, <1>2, <1>8, GoStep DEF Record, Count, metaVars, Step
<1>9. CASE Check(s)
  <2>1. CASE Goto(s, "check", "complete") /\ UNCHANGED <<queueVars, left, job, threw>>
    BY <1>1, <1>2, <1>9, <2>1, GoStep DEF Check, metaVars, Step
  <2>2. CASE Throw(s) \/ Resolve(s)
    BY <1>2, <1>9, <2>2, LeaveStep DEF Check, metaVars
  <2> QED
    BY <1>9, <2>1, <2>2 DEF Check
<1>10. CASE Trip(s)
  <2>1. PICK from : from # "idle" /\ Goto(s, from, "catch")
    BY <1>10 DEF Trip, Goto
  <2> QED
    BY <1>1, <1>2, <1>10, <2>1, GoStep DEF Trip, metaVars, Step
<1>11. CASE Catch(s)
  <2>1. threw' \in [Slot -> BOOLEAN]
    BY <1>1, <1>11 DEF Catch
  <2> QED
    BY <1>1, <1>2, <1>11, <2>1, GoStep DEF Catch, metaVars, Step
<1>12. CASE HandlerFails(s)
  BY <1>3, <1>12, LeaveStep DEF HandlerFails
<1> QED
  BY <1>4, <1>5, <1>6, <1>7, <1>8, <1>9, <1>10, <1>11, <1>12 DEF HandlerStep

\* And everybody else.
LEMMA JobsStep == JobInv /\ [Next]_vars => JobInv'
<1> SUFFICES ASSUME JobInv, [Next]_vars PROVE JobInv'
  OBVIOUS
<1>1. ASSUME NEW s \in Slot, NEW n \in JobId, Claim(s, n) PROVE JobInv'
  <2>1. /\ state[n] = "waiting" /\ state' = [state EXCEPT ![n] = "running"]
        /\ job' = [job EXCEPT ![s] = n] /\ pc' = [pc EXCEPT ![s] = "handle"] /\ pc[s] = "idle"
        /\ UNCHANGED <<tries, payload, left, threw, skipped>>
    BY <1>1 DEF Claim, Queue!Begin, Queue!Set, Goto, metaVars
  <2>2. QueueTypeOK' /\ ActorTypeOK'
    BY <2>1 DEF JobInv, QueueTypeOK, ActorTypeOK, JobState, Step
  <2>3. Attempts'
    BY <2>1 DEF JobInv, QueueTypeOK, Attempts
  <2>4. \A t \in Slot : /\ pc'[t] = IF t = s THEN "handle" ELSE pc[t]
                        /\ job'[t] = IF t = s THEN n ELSE job[t]
    BY <2>1 DEF JobInv, ActorTypeOK, Actor
  <2>5. \A t \in Slot : job[t] # NoJob => job[t] \in JobId /\ state[job[t]] = "running" /\ job[t] # n
    BY <2>1 DEF JobInv, Holding, ActorTypeOK
  <2>6. Holding' /\ Alone' /\ Kinds'
    BY <2>1, <2>4, <2>5 DEF JobInv, Holding, Alone, Kinds, QueueTypeOK, JobId, NoJob
  <2> QED
    BY <2>2, <2>3, <2>6 DEF JobInv
<1>2. CASE Toggle \/ UNCHANGED vars
  BY <1>2 DEF Toggle, vars, queueVars, procVars, metaVars, JobInv, QueueTypeOK, ActorTypeOK, Holding,
              Alone, Kinds, Attempts
<1>3. CASE Crash
  <2>1. /\ state' = [n \in JobId |-> IF state[n] = "running" THEN "waiting" ELSE state[n]]
        /\ UNCHANGED <<tries, payload, skipped>>
    BY <1>3 DEF Crash, Queue!Interrupt, metaVars
  <2>2. /\ pc' = [a \in Actor |-> "idle"] /\ left' = [a \in Actor |-> {}]
        /\ job' = [s \in Slot |-> NoJob] /\ threw' = [s \in Slot |-> FALSE]
    BY <1>3 DEF Crash
  <2>3. QueueTypeOK' /\ Attempts'
    BY <2>1 DEF JobInv, QueueTypeOK, JobState, Attempts
  <2>4. ActorTypeOK' /\ Holding' /\ Alone' /\ Kinds'
    BY <2>2 DEF ActorTypeOK, Holding, Alone, Kinds, Step, Actor
  <2> QED
    BY <2>3, <2>4 DEF JobInv
<1> QED
  BY <1>1, <1>2, <1>3, RequestJobs, DispatchJobs, HandlerJobs DEF Next

-----------------------------------------------------------------------------
(* The row, and what Meta has accepted.                                     *)

\* Each step writes the row with values of its columns.
LEMMA RowStep == RowTypeOK /\ JobInv /\ [Next]_vars => RowTypeOK'
<1> SUFFICES ASSUME RowTypeOK, JobInv, [Next]_vars PROVE RowTypeOK'
  OBVIOUS
<1> USE BroadcastConstAssumption
    DEF RowTypeOK, rowVars, metaVars, envVars, Fault, CountSent, CountFailed, CountMissing, CountAttempt
<1>1. ASSUME NEW r \in Request, RequestStep(r) PROVE RowTypeOK'
  BY <1>1 DEF RequestStep, SendNow, Schedule, Cancel, Accept, ScheduleMark, SchedulePlan, CancelPurge,
              CancelMark, RequestFails
<1>2. ASSUME NEW a \in Actor, DispatchStep(a) PROVE RowTypeOK'
  BY <1>2 DEF DispatchStep, DispatchRead, DispatchMark, Fan, FanEnds, Complete
<1>3. ASSUME NEW s \in Slot, Send(s) \/ SendUnheard(s) PROVE RowTypeOK'
  BY <1>3 DEF Send, SendUnheard, Deliver
<1>4. ASSUME NEW s \in Slot, HandlerStep(s), ~Send(s), ~SendUnheard(s) PROVE RowTypeOK'
  BY <1>4 DEF HandlerStep, Handle, Load, Skip, Miss, Record, Count, Check, Trip, Catch, HandlerFails
<1>5. ASSUME NEW s \in Slot, NEW n \in JobId, Claim(s, n) PROVE RowTypeOK'
  BY <1>5 DEF Claim
<1>6. CASE Toggle
  BY <1>6 DEF Toggle
<1>7. CASE Crash
  BY <1>7 DEF Crash
<1>8. CASE UNCHANGED vars
  BY <1>8 DEF vars
<1> QED
  BY <1>1, <1>2, <1>3, <1>4, <1>5, <1>6, <1>7, <1>8 DEF Next

-----------------------------------------------------------------------------
(* Messages after a cancel.                                                 *)

Sending == {s \in Slot : pc[s] = "send"}

\* After a clean cancel nobody is about to write another status, and messages sent
\* since and those the slots are about to send make up at most one for each slot:
\* nobody starts to send once the cancel can be read.
CancelInv ==
    /\ stop = "clean" => /\ status = "cancelled" /\ Crossing = {}
                         /\ late + Cardinality(Sending) <= Cardinality(Slot)
    /\ stop # "clean" => late = 0

\* A step leaves the cancel's bound alone, unless it writes the cancel or sends.
LEMMA CancelStep == RowTypeOK /\ JobInv /\ CancelInv /\ [Next]_vars => CancelInv'
<1> SUFFICES ASSUME RowTypeOK, JobInv, CancelInv, [Next]_vars PROVE CancelInv'
  OBVIOUS
<1>1. /\ IsFiniteSet(Slot) /\ Cardinality(Slot) \in Nat
      /\ \A T \in SUBSET Slot : IsFiniteSet(T) /\ Cardinality(T) \in Nat
                                /\ Cardinality(T) <= Cardinality(Slot)
  BY FS_Subset, FS_CardinalityType, BroadcastConstAssumption
<1>2. pc \in [Actor -> Step] /\ Slot \subseteq Actor /\ Request \cap Slot = {} /\ late \in Nat
  BY BroadcastConstAssumption DEF JobInv, ActorTypeOK, Actor, RowTypeOK
<1>3. ASSUME status = "cancelled" /\ Crossing = {} => status' = "cancelled" /\ Crossing' = {},
             stop' = stop, late' = late, \A s \in Slot : pc'[s] = "send" => pc[s] = "send"
      PROVE  CancelInv'
  <2>1. Sending' \in SUBSET Sending /\ Sending \in SUBSET Slot
    BY <1>3 DEF Sending
  <2>2. Cardinality(Sending') <= Cardinality(Sending)
    BY <1>1, <2>1, FS_Subset
  <2>3. Cardinality(Sending') \in Nat /\ Cardinality(Sending) \in Nat
    BY <1>1, <2>1
  <2> QED
    BY <1>1, <1>2, <1>3, <2>2, <2>3 DEF CancelInv
\* A step that writes no status and takes one actor where none is crossing.
<1>4. ASSUME NEW a \in Actor, NEW to \in Step \ {"send"}, pc' = [pc EXCEPT ![a] = to],
             to \in {"schedule", "mark", "complete"} => status # "cancelled",
             UNCHANGED <<status, stop, late>>
      PROVE  CancelInv'
  <2>1. \A b \in Actor : pc'[b] = IF b = a THEN to ELSE pc[b]
    BY <1>2, <1>4
  <2>2. status = "cancelled" /\ Crossing = {} => Crossing' = {}
    BY <1>4, <2>1 DEF Crossing
  <2> QED
    BY <1>2, <1>3, <1>4, <2>1, <2>2
\* A step of an actor that is crossing: the cancel was not clean.
<1>5. ASSUME NEW a \in Crossing, NEW to \in Step \ {"send"}, pc' = [pc EXCEPT ![a] = to],
             UNCHANGED <<stop, late>>
      PROVE  CancelInv'
  <2>1. a \in Actor /\ Crossing # {}
    BY <1>5 DEF Crossing
  <2> QED
    BY <1>2, <1>3, <1>5, <2>1
<1>6. ASSUME NEW r \in Request, RequestStep(r) PROVE CancelInv'
  <2>1. r \in Actor
    BY DEF Actor
  <2>2. CASE SendNow(r) \/ Schedule(r) \/ Cancel(r)
    <3>1. \E to \in {"dispatch", "schedule", "purge"} :
            /\ pc' = [pc EXCEPT ![r] = to] /\ (to = "schedule" => status # "cancelled")
            /\ UNCHANGED <<status, stop, late>>
      BY <2>2 DEF SendNow, Schedule, Cancel, Accept, Goto, rowVars, metaVars
    <3> QED
      BY <1>4, <2>1, <3>1 DEF Step
  <2>3. CASE ScheduleMark(r)
    <3>1. pc[r] = "schedule" /\ pc' = [pc EXCEPT ![r] = "plan"] /\ UNCHANGED <<stop, late>>
      BY <2>3 DEF ScheduleMark, Goto, metaVars
    <3>2. r \in Crossing
      BY <2>1, <3>1 DEF Crossing
    <3> QED
      BY <1>5, <3>1, <3>2 DEF Step
  <2>4. CASE SchedulePlan(r) \/ CancelPurge(r) \/ RequestFails(r)
    <3>1. \E to \in {"idle", "cancel"} :
            pc' = [pc EXCEPT ![r] = to] /\ UNCHANGED <<status, stop, late>>
      BY <2>4 DEF SchedulePlan, CancelPurge, RequestFails, Goto, rowVars, metaVars
    <3> QED
      BY <1>4, <2>1, <3>1 DEF Step
  <2>5. CASE CancelMark(r)
    <3>1. /\ status' = "cancelled" /\ late' = late /\ pc' = [pc EXCEPT ![r] = "idle"]
          /\ stop' = IF Crossing = {} THEN "clean" ELSE "crossed"
      BY <2>5 DEF CancelMark, Goto
    <3>2. \A b \in Actor : pc'[b] = IF b = r THEN "idle" ELSE pc[b]
      BY <1>2, <2>1, <3>1
    <3>3. Sending' = Sending /\ Sending \in SUBSET Slot
      BY <1>2, <3>2 DEF Sending
    <3>4. Crossing = {} => Crossing' = {}
      BY <3>2 DEF Crossing
    <3>5. Cardinality(Sending) \in Nat /\ Cardinality(Sending) <= Cardinality(Slot)
      BY <1>1, <3>3
    <3>6. CASE Crossing = {}
      BY <1>1, <1>2, <3>1, <3>3, <3>4, <3>5, <3>6 DEF CancelInv
    <3>7. CASE Crossing # {}
      BY <3>1, <3>7 DEF CancelInv
    <3> QED
      BY <3>6, <3>7
  <2> QED
    BY <1>6, <2>2, <2>3, <2>4, <2>5 DEF RequestStep
<1>7. ASSUME NEW a \in Actor, DispatchStep(a) PROVE CancelInv'
  <2>1. CASE DispatchRead(a)
    <3>1. \E to \in {"idle", "mark", "complete"} :
            /\ pc' = [pc EXCEPT ![a] = to] /\ UNCHANGED <<status, stop, late>>
            /\ to # "idle" => status # "cancelled"
      BY <2>1 DEF DispatchRead, Return, Resolve, Leave, Goto, rowVars, metaVars
    <3> QED
      BY <1>4, <3>1 DEF Step
  <2>2. CASE DispatchMark(a) \/ Complete(a)
    <3>1. /\ pc[a] \in {"mark", "complete"} /\ UNCHANGED <<stop, late>>
          /\ \E to \in {"fan", "idle"} : pc' = [pc EXCEPT ![a] = to]
      BY <2>2 DEF DispatchMark, Complete, Return, Resolve, Throw, Leave, Goto, metaVars
    <3>2. a \in Crossing
      BY <3>1 DEF Crossing
    <3> QED
      BY <1>5, <3>1, <3>2 DEF Step
  <2>3. CASE Fan(a)
    BY <1>2, <1>3, <2>3 DEF Fan, Crossing, rowVars, metaVars
  <2>4. CASE FanEnds(a)
    <3>1. pc' = [pc EXCEPT ![a] = "idle"] /\ UNCHANGED <<status, stop, late>>
      BY <2>4 DEF FanEnds, Return, Resolve, Leave, rowVars, metaVars
    <3> QED
      BY <1>4, <3>1 DEF Step
  <2> QED
    BY <1>7, <2>1, <2>2, <2>3, <2>4 DEF DispatchStep
<1>8. ASSUME NEW s \in Slot, HandlerStep(s) PROVE CancelInv'
  <2>1. s \in Actor
    BY <1>2
  <2>2. CASE Load(s)
    <3>1. CASE Cancelled
      <4>1. pc' = [pc EXCEPT ![s] = "idle"] /\ UNCHANGED <<status, stop, late>>
        BY <2>2, <3>1 DEF Load, Resolve, Leave, Skip, rowVars
      <4> QED
        BY <1>4, <2>1, <4>1 DEF Step
    <3>2. CASE ~Cancelled
      <4>1. UNCHANGED <<status, stop, late>> /\ status # "cancelled"
        BY <2>2, <3>2 DEF Load, Cancelled, rowVars, metaVars
      <4> QED
        BY <4>1 DEF CancelInv
    <3> QED
      BY <3>1, <3>2
  <2>3. CASE Send(s) \/ SendUnheard(s)
    <3>1. /\ pc[s] = "send" /\ (pc' = [pc EXCEPT ![s] = "record"] \/ pc' = [pc EXCEPT ![s] = "catch"])
          /\ UNCHANGED <<status, stop>> /\ late' = IF stop = "clean" THEN late + 1 ELSE late
      BY <2>3 DEF Send, SendUnheard, Deliver, Goto, rowVars
    <3>2. \A b \in Actor : b # s => pc'[b] = pc[b]
      BY <1>2, <3>1
    <3>3. pc'[s] \in {"record", "catch"}
      BY <1>2, <2>1, <3>1
    <3>4. Sending' = Sending \ {s} /\ s \in Sending /\ Sending \in SUBSET Slot
      BY <1>2, <3>1, <3>2, <3>3 DEF Sending
    <3>5. Cardinality(Sending') = Cardinality(Sending) - 1 /\ Cardinality(Sending) \in Nat
      BY <1>1, <3>4, FS_RemoveElement
    <3>6. Crossing' = Crossing
      BY <3>1, <3>2, <3>3 DEF Crossing
    <3> QED
      BY <1>1, <1>2, <3>1, <3>5, <3>6 DEF CancelInv
  <2>4. CASE Check(s)
    <3>1. \E to \in {"idle", "complete"} :
            /\ pc' = [pc EXCEPT ![s] = to] /\ UNCHANGED <<status, stop, late>>
            /\ to # "idle" => status # "cancelled"
      BY <2>4 DEF Check, Resolve, Throw, Leave, Goto, rowVars, metaVars
    <3> QED
      BY <1>4, <2>1, <3>1 DEF Step
  <2>5. CASE Handle(s) \/ Miss(s) \/ Record(s) \/ Count(s) \/ Trip(s) \/ Catch(s) \/ HandlerFails(s)
    <3>1. \E to \in {"dispatch", "load", "idle", "count", "check", "catch"} :
            pc' = [pc EXCEPT ![s] = to] /\ UNCHANGED <<status, stop, late>>
      BY <2>5 DEF Handle, Miss, Record, Count, Trip, Catch, HandlerFails, Skip, Goto, Resolve,
                  Throw, Leave, rowVars, metaVars
    <3> QED
      BY <1>4, <2>1, <3>1 DEF Step
  <2> QED
    BY <1>8, <2>2, <2>3, <2>4, <2>5 DEF HandlerStep
<1>9. ASSUME NEW s \in Slot, NEW n \in JobId, Claim(s, n) PROVE CancelInv'
  <2>1. s \in Actor /\ pc' = [pc EXCEPT ![s] = "handle"] /\ UNCHANGED <<status, stop, late>>
    BY <1>2, <1>9 DEF Claim, Goto, rowVars, metaVars
  <2> QED
    BY <1>4, <2>1 DEF Step
<1>10. CASE Toggle \/ UNCHANGED vars
  BY <1>2, <1>3, <1>10 DEF Toggle, Crossing, vars, rowVars, metaVars, procVars
<1>11. CASE Crash
  <2>1. pc' = [a \in Actor |-> "idle"] /\ UNCHANGED <<status, stop, late>>
    BY <1>11 DEF Crash, rowVars, metaVars
  <2>2. Crossing' = {}
    BY <2>1 DEF Crossing
  <2> QED
    BY <1>2, <1>3, <2>1, <2>2
<1> QED
  BY <1>6, <1>7, <1>8, <1>9, <1>10, <1>11 DEF Next

-----------------------------------------------------------------------------
(* The counters.                                                            *)

\* EveryEndCounted, and the same of the jobs that are about to end.
CountInv == sent + failed >= Cardinality(Counted)

\* Sets of jobs are finite.
LEMMA JobsFinite == \A T \in SUBSET JobId : IsFiniteSet(T) /\ Cardinality(T) \in Nat
<1>1. IsFiniteSet(JobId)
  BY FS_Interval, BroadcastConstAssumption DEF JobId
<1> QED
  BY <1>1, FS_Subset, FS_CardinalityType

\* Jobs become counted only where they are seen to: those of X, or nowhere.
LEMMA CountedGrow ==
    ASSUME JobInv, JobInv', NEW X, skipped \subseteq skipped',
           \A n \in JobId :
               payload'[n] # Dispatch /\ n \notin skipped' /\ state'[n] \in {"done", "dead"} =>
                   n \in X \/ n \in Settling \/ (state[n] = state'[n] /\ payload[n] = payload'[n]),
           \A s \in Slot :
               pc'[s] \in {"check", "complete"} /\ payload'[job'[s]] # Dispatch =>
                   \/ job'[s] \in X
                   \/ pc[s] \in {"check", "complete"} /\ job'[s] = job[s]
                      /\ payload'[job[s]] = payload[job[s]]
    PROVE  Counted' \subseteq Counted \cup X
BY DEF Counted, Settling, Ended

\* A step that counts nothing lets nothing become counted.
LEMMA CountSame ==
    ASSUME RowTypeOK, JobInv, JobInv', CountInv, Counted' \subseteq Counted \cup {},
           UNCHANGED <<sent, failed>>
    PROVE  CountInv'
<1>1. Counted' \in SUBSET Counted /\ Counted \in SUBSET JobId
  BY DEF Counted, Ended, Settling, JobInv, QueueTypeOK
<1>2. Cardinality(Counted') <= Cardinality(Counted)
  BY <1>1, JobsFinite, FS_Subset
<1>3. Cardinality(Counted') \in Nat /\ Cardinality(Counted) \in Nat
  BY <1>1, JobsFinite
<1> QED
  BY <1>2, <1>3 DEF CountInv, RowTypeOK

\* A step that adds one to a counter lets one job become counted.
LEMMA CountMore ==
    ASSUME RowTypeOK, JobInv, JobInv', CountInv, NEW n \in JobId, Counted' \subseteq Counted \cup {n},
           sent' + failed' = sent + failed + 1
    PROVE  CountInv'
<1>1. Counted' \in SUBSET (Counted \cup {n}) /\ Counted \in SUBSET JobId
  BY DEF Counted, Ended, Settling, JobInv, QueueTypeOK
<1>2. Counted \cup {n} \in SUBSET JobId
  BY <1>1
<1>3. Cardinality(Counted') <= Cardinality(Counted \cup {n})
  BY <1>1, <1>2, JobsFinite, FS_Subset
<1>4. Cardinality(Counted \cup {n}) <= Cardinality(Counted) + 1
  BY <1>1, JobsFinite, FS_AddElement
<1>5. Cardinality(Counted') \in Nat /\ Cardinality(Counted) \in Nat /\ Cardinality(Counted \cup {n}) \in Nat
  BY <1>1, <1>2, JobsFinite
<1> QED
  BY <1>3, <1>4, <1>5 DEF CountInv, RowTypeOK

\* The end of a handler lets its own job become counted, at most.
LEMMA LeaveCounts ==
    ASSUME JobInv, JobInv', NEW s \in Slot, pc[s] # "idle", Resolve(s) \/ Throw(s),
           skipped \subseteq skipped'
    PROVE  /\ Counted' \subseteq Counted \cup {job[s]}
           /\ \/ payload[job[s]] = Dispatch \/ job[s] \in skipped'
              \/ pc[s] \in {"check", "complete"} \/ state'[job[s]] \notin {"done", "dead"}
              => Counted' \subseteq Counted \cup {}
<1>1. pc' = [pc EXCEPT ![s] = "idle"] /\ payload' = payload /\ job' = [job EXCEPT ![s] = NoJob]
  BY DEF Resolve, Throw, Leave, Freed
<1>2. \A t \in Slot : pc'[t] # "idle" => pc'[t] = pc[t] /\ job'[t] = job[t]
  BY <1>1 DEF JobInv, ActorTypeOK, Actor
<1>3. job[s] \in JobId /\ \A n \in JobId \ {job[s]} : state'[n] = state[n]
  BY DEF JobInv, Holding, ActorTypeOK, QueueTypeOK, Resolve, Throw, Queue!Finish, Queue!Err, Queue!Set
<1>4. Counted' \subseteq Counted \cup {job[s]}
  BY <1>1, <1>2, <1>3, CountedGrow
<1>5. ASSUME \/ payload[job[s]] = Dispatch \/ job[s] \in skipped'
             \/ pc[s] \in {"check", "complete"} \/ state'[job[s]] \notin {"done", "dead"}
      PROVE  Counted' \subseteq Counted \cup {}
  <2>1. payload[job[s]] # Dispatch /\ pc[s] \in {"check", "complete"} => job[s] \in Settling
    BY <1>3 DEF Settling
  <2> QED
    BY <1>1, <1>2, <1>3, <1>5, <2>1, CountedGrow
<1> QED
  BY <1>4, <1>5

\* A step of one actor that settles no job, and comes to check or complete only
\* with a job of X, or from there, or with a dispatch job.
LEMMA GoCounts ==
    ASSUME JobInv, JobInv', NEW X, NEW a \in Actor, NEW to, pc' = [pc EXCEPT ![a] = to],
           UNCHANGED <<job, skipped>>,
           \A n \in JobId : state'[n] \in {"done", "dead"} => state[n] = state'[n],
           \A n \in JobId : state[n] # "none" => payload'[n] = payload[n],
           a \in Slot /\ to \in {"check", "complete"} =>
               \/ job[a] \in X \/ payload[job[a]] = Dispatch \/ pc[a] \in {"check", "complete"}
    PROVE  Counted' \subseteq Counted \cup X
<1>1. \A s \in Slot : pc'[s] = IF s = a THEN to ELSE pc[s]
  BY DEF JobInv, ActorTypeOK, Actor
<1>2. \A s \in Slot : pc[s] # "idle" => job[s] \in JobId /\ payload'[job[s]] = payload[job[s]]
  BY DEF JobInv, Holding, ActorTypeOK
<1>3. \A s \in Slot : pc'[s] # "idle" => job[s] \in JobId /\ payload'[job[s]] = payload[job[s]]
  BY <1>2 DEF JobInv, Holding, ActorTypeOK
<1>4. \A n \in JobId : state'[n] \in {"done", "dead"} => payload'[n] = payload[n]
  BY DEF JobInv, QueueTypeOK
<1> QED
  BY <1>1, <1>2, <1>3, <1>4, CountedGrow

\* An operator's request neither counts nor settles a job.
LEMMA RequestCounts ==
    ASSUME RowTypeOK, JobInv, JobInv', CountInv, NEW r \in Request, RequestStep(r)
    PROVE  CountInv'
<1> SUFFICES Counted' \subseteq Counted \cup {} /\ UNCHANGED <<sent, failed>>
  BY CountSame
<1>1. UNCHANGED <<sent, failed, job, skipped>>
  BY DEF RequestStep, SendNow, Schedule, Cancel, Accept, ScheduleMark, SchedulePlan, CancelPurge,
         CancelMark, RequestFails, rowVars, metaVars
<1>2. \E to : pc' = [pc EXCEPT ![r] = to]
  BY DEF RequestStep, SendNow, Schedule, Cancel, Accept, ScheduleMark, SchedulePlan, CancelPurge,
         CancelMark, RequestFails, Goto
<1>3. /\ \A n \in JobId : state'[n] \in {"done", "dead"} => state[n] = state'[n]
      /\ \A n \in JobId : state[n] # "none" => payload'[n] = payload[n]
  <2>1. CASE SchedulePlan(r)
    BY <2>1, EnqueueStep DEF SchedulePlan
  <2>2. CASE CancelPurge(r)
    BY <2>2 DEF CancelPurge, Queue!Withdraw
  <2>3. CASE ~SchedulePlan(r) /\ ~CancelPurge(r)
    BY <2>3 DEF RequestStep, SendNow, Schedule, Cancel, Accept, ScheduleMark, CancelMark, RequestFails,
                queueVars
  <2> QED
    BY <2>1, <2>2, <2>3
<1>4. r \in Actor /\ r \notin Slot
  BY BroadcastConstAssumption DEF Actor
<1> QED
  BY <1>1, <1>2, <1>3, <1>4, GoCounts

\* Nor does dispatch.
LEMMA DispatchCounts ==
    ASSUME RowTypeOK, JobInv, JobInv', CountInv, NEW a \in Actor, DispatchStep(a)
    PROVE  CountInv'
<1> SUFFICES Counted' \subseteq Counted \cup {}
  BY CountSame DEF DispatchStep, DispatchRead, DispatchMark, Fan, FanEnds, Complete, rowVars
<1>1. skipped' = skipped
  BY DEF DispatchStep, DispatchRead, DispatchMark, Fan, FanEnds, Complete, metaVars
<1>2. a \in Slot /\ pc[a] \in {"dispatch", "mark", "fan"} => payload[job[a]] = Dispatch
  BY DEF JobInv, Kinds
<1>3. ASSUME Return(a), pc[a] \in {"dispatch", "fan", "complete"} PROVE Counted' \subseteq Counted \cup {}
  <2>1. CASE a \in Slot
    BY <1>1, <1>2, <1>3, <2>1, LeaveCounts DEF Return
  <2>2. CASE a \notin Slot
    BY <1>1, <1>3, <2>2, GoCounts DEF Return, queueVars
  <2> QED
    BY <2>1, <2>2
<1>4. CASE DispatchRead(a) /\ ~Return(a)
  BY <1>1, <1>2, <1>4, GoCounts DEF DispatchRead, Goto, queueVars
<1>5. CASE DispatchRead(a) /\ Return(a)
  BY <1>3, <1>5 DEF DispatchRead
<1>6. CASE DispatchMark(a)
  BY <1>1, <1>6, GoCounts DEF DispatchMark, Goto, queueVars
<1>7. CASE Fan(a)
  <2>1. PICK c \in left[a] : Enqueue(c)
    BY <1>7 DEF Fan
  <2>2. c \in Contact \cup {Dispatch}
    BY DEF JobInv, ActorTypeOK
  <2>3. pc' = [pc EXCEPT ![a] = "fan"] /\ UNCHANGED <<job, skipped>>
    BY <1>1, <1>7 DEF Fan, JobInv, ActorTypeOK
  <2> QED
    BY <2>1, <2>2, <2>3, EnqueueStep, GoCounts
<1>8. CASE FanEnds(a)
  BY <1>3, <1>8 DEF FanEnds
<1>9. CASE Complete(a)
  BY <1>1, <1>3, <1>9, LeaveCounts DEF Complete
<1> QED
  BY <1>4, <1>5, <1>6, <1>7, <1>8, <1>9 DEF DispatchStep

\* A handler counts its job before it goes on to settle it, or gives it up.
LEMMA HandlerCounts ==
    ASSUME RowTypeOK, JobInv, JobInv', CountInv, NEW s \in Slot, HandlerStep(s)
    PROVE  CountInv'
<1>1. s \in Actor /\ (pc[s] # "idle" => job[s] \in JobId)
  BY DEF JobInv, Holding, ActorTypeOK, Actor
<1>2. sent \in Nat /\ failed \in Nat
  BY DEF RowTypeOK
<1>3. CASE Miss(s)
  <2>1. Counted' \subseteq Counted \cup {job[s]}
    BY <1>3, LeaveCounts DEF Miss, metaVars
  <2> QED
    BY <1>1, <1>2, <1>3, <2>1, CountMore DEF Miss, CountMissing, CountFailed
<1>4. CASE Count(s) \/ Catch(s)
  <2>1. pc' = [pc EXCEPT ![s] = "check"] /\ UNCHANGED <<job, skipped, state, payload>> /\ pc[s] # "idle"
    BY <1>4 DEF Count, Catch, Goto, queueVars, metaVars
  <2>2. Counted' \subseteq Counted \cup {job[s]}
    BY <1>1, <2>1, GoCounts
  <2> QED
    BY <1>1, <1>2, <1>4, <2>1, <2>2, CountMore DEF Count, Catch, CountSent, CountAttempt, CountFailed
<1>5. CASE Handle(s)
  <2>1. CASE active
    BY <1>1, <1>5, <2>1, CountSame, GoCounts DEF Handle, Goto, rowVars, queueVars, metaVars
  <2>2. CASE ~active
    BY <1>5, <2>2, CountSame, LeaveCounts DEF Handle, Skip, rowVars
  <2> QED
    BY <2>1, <2>2
<1>6. CASE Load(s)
  <2>1. CASE Cancelled
    BY <1>6, <2>1, CountSame, LeaveCounts DEF Load, Skip, rowVars
  <2>2. CASE ~Cancelled
    BY <1>1, <1>6, <2>2, CountSame, GoCounts DEF Load, Goto, rowVars, queueVars, metaVars
  <2> QED
    BY <2>1, <2>2
<1>7. CASE Send(s) \/ SendUnheard(s) \/ Record(s) \/ Trip(s)
  <2>1. \E to \in {"record", "catch", "count"} : pc' = [pc EXCEPT ![s] = to]
    BY <1>7 DEF Send, SendUnheard, Record, Trip, Goto
  <2>2. UNCHANGED <<sent, failed, job, skipped, state, payload>>
    BY <1>7 DEF Send, SendUnheard, Record, Trip, rowVars, queueVars, metaVars
  <2> QED
    BY <1>1, <2>1, <2>2, CountSame, GoCounts
<1>8. CASE Check(s)
  <2>1. CASE Goto(s, "check", "complete") /\ UNCHANGED <<queueVars, left, job, threw>>
    BY <1>1, <1>8, <2>1, CountSame, GoCounts DEF Check, Goto, rowVars, queueVars, metaVars
  <2>2. CASE Throw(s) \/ Resolve(s)
    BY <1>8, <2>2, CountSame, LeaveCounts DEF Check, rowVars, metaVars
  <2> QED
    BY <1>8, <2>1, <2>2 DEF Check
<1>9. CASE HandlerFails(s)
  <2>1. Throw(s) /\ pc[s] # "idle" /\ skipped \subseteq skipped' /\ UNCHANGED <<sent, failed>>
    BY <1>9 DEF HandlerFails, Skip, rowVars, metaVars
  <2>2. \/ job[s] \in skipped' \/ pc[s] \in {"check", "complete"}
        \/ state'[job[s]] \notin {"done", "dead"}
    <3>1. CASE ~Uncounted(s)
      BY <3>1 DEF Uncounted
    <3>2. CASE Uncounted(s) /\ tries[job[s]] + 1 = MaxAttempts
      BY <1>9, <3>2 DEF HandlerFails, Skip
    <3>3. CASE tries[job[s]] + 1 # MaxAttempts
      BY <1>1, <2>1, <3>3 DEF Throw, Queue!Err, Queue!Set, JobInv, QueueTypeOK
    <3> QED
      BY <3>1, <3>2, <3>3
  <2> QED
    BY <2>1, <2>2, CountSame, LeaveCounts
<1> QED
  BY <1>3, <1>4, <1>5, <1>6, <1>7, <1>8, <1>9 DEF HandlerStep

\* No step loses a count.
LEMMA CountStep == RowTypeOK /\ JobInv /\ CountInv /\ [Next]_vars => CountInv'
<1> SUFFICES ASSUME RowTypeOK, JobInv, CountInv, [Next]_vars PROVE CountInv'
  OBVIOUS
<1>1. JobInv'
  BY JobsStep
<1>2. ASSUME NEW s \in Slot, NEW n \in JobId, Claim(s, n) PROVE CountInv'
  <2>1. /\ pc' = [pc EXCEPT ![s] = "handle"] /\ UNCHANGED <<sent, failed, payload, skipped>>
        /\ job' = [job EXCEPT ![s] = n] /\ state' = [state EXCEPT ![n] = "running"]
    BY <1>2 DEF Claim, Goto, Queue!Begin, Queue!Set, rowVars, metaVars
  <2>2. \A t \in Slot : pc'[t] \in {"check", "complete"} => pc[t] = pc'[t] /\ job'[t] = job[t]
    BY <2>1 DEF JobInv, ActorTypeOK, Actor
  <2>3. \A m \in JobId : state'[m] \in {"done", "dead"} => state'[m] = state[m]
    BY <2>1 DEF JobInv, QueueTypeOK
  <2>4. Counted' \subseteq Counted \cup {}
    BY <1>1, <2>1, <2>2, <2>3, CountedGrow
  <2> QED
    BY <1>1, <2>1, <2>4, CountSame
<1>3. CASE Toggle \/ UNCHANGED vars
  BY <1>3 DEF Toggle, vars, rowVars, queueVars, procVars, metaVars, CountInv, Counted, Ended, Settling
<1>4. CASE Crash
  <2>1. /\ state' = [n \in JobId |-> IF state[n] = "running" THEN "waiting" ELSE state[n]]
        /\ UNCHANGED <<payload, skipped, sent, failed>> /\ pc' = [a \in Actor |-> "idle"]
    BY <1>4 DEF Crash, Queue!Interrupt, rowVars, metaVars
  <2>2. Counted' \subseteq Counted \cup {}
    BY <1>1, <2>1, CountedGrow DEF Actor
  <2> QED
    BY <1>1, <2>1, <2>2, CountSame
<1> QED
  BY <1>1, <1>2, <1>3, <1>4, RequestCounts, DispatchCounts, HandlerCounts DEF Next

-----------------------------------------------------------------------------
(* The report.                                                              *)

\* Messages counted as sent, and those the slots are about to count, are backed
\* by messages Meta has accepted.
ReportInv == sent + Cardinality(Reporting) <= accepted

\* Each count is made by a slot that has sent, once.
LEMMA ReportStep == RowTypeOK /\ JobInv /\ ReportInv /\ [Next]_vars => ReportInv'
<1> SUFFICES ASSUME RowTypeOK, JobInv, ReportInv, [Next]_vars PROVE ReportInv'
  OBVIOUS
<1>1. \A T \in SUBSET Slot : IsFiniteSet(T) /\ Cardinality(T) \in Nat
  BY FS_Subset, FS_CardinalityType, BroadcastConstAssumption
<1>2. /\ pc \in [Actor -> Step] /\ Slot \subseteq Actor /\ Request \cap Slot = {}
      /\ sent \in Nat /\ accepted \in Nat /\ Reporting \in SUBSET Slot
  BY BroadcastConstAssumption DEF JobInv, ActorTypeOK, Actor, RowTypeOK, Reporting
<1>3. ASSUME sent' = sent, accepted' = accepted,
             \A s \in Slot : pc'[s] \in {"record", "count"} => pc[s] \in {"record", "count"}
      PROVE  ReportInv'
  <2>1. Reporting' \in SUBSET Reporting
    BY <1>3 DEF Reporting
  <2>2. Cardinality(Reporting') <= Cardinality(Reporting)
    BY <1>1, <1>2, <2>1, FS_Subset
  <2>3. Cardinality(Reporting') \in Nat /\ Cardinality(Reporting) \in Nat
    BY <1>1, <1>2, <2>1
  <2> QED
    BY <1>2, <1>3, <2>2, <2>3 DEF ReportInv
<1>4. ASSUME NEW r \in Request, RequestStep(r) PROVE ReportInv'
  <2>1. \A s \in Slot : pc'[s] = pc[s]
    BY <1>2, <1>4 DEF RequestStep, SendNow, Schedule, Cancel, Accept, Goto, ScheduleMark, SchedulePlan,
                      CancelPurge, CancelMark, RequestFails
  <2>2. sent' = sent /\ accepted' = accepted
    BY <1>4 DEF RequestStep, SendNow, Schedule, Cancel, Accept, ScheduleMark, SchedulePlan, CancelPurge,
                CancelMark, RequestFails, rowVars, metaVars
  <2> QED
    BY <1>3, <2>1, <2>2
<1>5. ASSUME NEW a \in Actor, DispatchStep(a) PROVE ReportInv'
  <2>1. sent' = sent /\ accepted' = accepted
    BY <1>5 DEF DispatchStep, DispatchRead, DispatchMark, Fan, FanEnds, Complete, rowVars, metaVars
  <2>2. \E to \in Step \ {"record", "count"} : pc' = [pc EXCEPT ![a] = to] \/ pc' = pc
    BY <1>5 DEF DispatchStep, DispatchRead, DispatchMark, Fan, FanEnds, Complete, Goto, Return, Resolve,
                Throw, Leave, Step
  <2> QED
    BY <1>2, <1>3, <2>1, <2>2
<1>6. ASSUME NEW s \in Slot, Send(s) PROVE ReportInv'
  <2>1. /\ pc[s] = "send" /\ pc' = [pc EXCEPT ![s] = "record"]
        /\ sent' = sent /\ accepted' = accepted + 1
    BY <1>6 DEF Send, Deliver, Goto, rowVars
  <2>2. Reporting' = Reporting \cup {s} /\ s \notin Reporting
    BY <1>2, <2>1 DEF Reporting
  <2>3. Cardinality(Reporting') = Cardinality(Reporting) + 1 /\ Cardinality(Reporting) \in Nat
    BY <1>1, <1>2, <2>2, FS_AddElement
  <2> QED
    BY <1>2, <2>1, <2>3 DEF ReportInv
<1>7. ASSUME NEW s \in Slot, SendUnheard(s) PROVE ReportInv'
  <2>1. /\ pc[s] = "send" /\ pc' = [pc EXCEPT ![s] = "catch"]
        /\ sent' = sent /\ accepted' = accepted + 1
    BY <1>7 DEF SendUnheard, Deliver, Goto, rowVars
  <2>2. Reporting' = Reporting /\ Cardinality(Reporting) \in Nat
    BY <1>1, <1>2, <2>1 DEF Reporting
  <2> QED
    BY <1>2, <2>1, <2>2 DEF ReportInv
<1>8. ASSUME NEW s \in Slot, Count(s) PROVE ReportInv'
  <2>1. /\ pc[s] = "count" /\ pc' = [pc EXCEPT ![s] = "check"]
        /\ sent' = sent + 1 /\ accepted' = accepted
    BY <1>8 DEF Count, CountSent, Goto, metaVars
  <2>2. Reporting' = Reporting \ {s} /\ s \in Reporting
    BY <1>2, <2>1 DEF Reporting
  <2>3. Cardinality(Reporting') = Cardinality(Reporting) - 1 /\ Cardinality(Reporting) \in Nat
    BY <1>1, <1>2, <2>2, FS_RemoveElement
  <2> QED
    BY <1>2, <2>1, <2>3 DEF ReportInv
<1>9. ASSUME NEW s \in Slot, HandlerStep(s), ~Send(s), ~SendUnheard(s), ~Count(s) PROVE ReportInv'
  <2>1. sent' = sent /\ accepted' = accepted
    BY <1>9 DEF HandlerStep, Handle, Load, Skip, Miss, CountMissing, CountFailed, Record, Check, Trip,
                Catch, CountAttempt, HandlerFails, rowVars, metaVars
  <2>2. CASE Record(s)
    BY <1>2, <1>3, <2>1, <2>2 DEF Record, Goto
  <2>3. CASE ~Record(s)
    <3>1. \E to \in Step \ {"record", "count"} : pc' = [pc EXCEPT ![s] = to]
      BY <1>9, <2>3 DEF HandlerStep, Handle, Load, Miss, Check, Trip, Catch, HandlerFails, Goto,
                  Resolve, Throw, Leave, Step
    <3> QED
      BY <1>2, <1>3, <2>1, <3>1
  <2> QED
    BY <2>2, <2>3
<1>10. ASSUME NEW s \in Slot, NEW n \in JobId, Claim(s, n) PROVE ReportInv'
  BY <1>2, <1>3, <1>10 DEF Claim, Goto, rowVars, metaVars
<1>11. CASE Toggle \/ Crash \/ UNCHANGED vars
  BY <1>2, <1>3, <1>11 DEF Toggle, Crash, vars, rowVars, metaVars, procVars
<1> QED
  BY <1>4, <1>5, <1>6, <1>7, <1>8, <1>9, <1>10, <1>11 DEF Next

-----------------------------------------------------------------------------
(* Until something fails the counters are exact: each count is of one job   *)
(* that ends with it, and each message is counted by the slot that sent it. *)

\* What was given up is over.
SkippedOver == \A n \in skipped : state[n] \in {"done", "dead"}

CalmInv ==
    troubles = 0 => /\ \A s \in Slot : ~threw[s] /\ pc[s] # "catch"
                    /\ accepted <= sent + Cardinality(Reporting)
                    /\ sent + failed <= Cardinality(Counted)

\* Past the first look at its payload a handler that sends has a send job.
SendKind ==
    \A s \in Slot : pc[s] \in {"load", "miss", "send", "record", "count"} => payload[job[s]] # Dispatch

\* The payload of a job is written once.
LEMMA PayloadStays ==
    ASSUME JobInv, [Next]_vars, NEW n \in JobId, state[n] # "none"
    PROVE  payload'[n] = payload[n]
<1>1. ASSUME NEW what \in Contact \cup {Dispatch}, Enqueue(what) PROVE payload'[n] = payload[n]
  BY <1>1, EnqueueStep
<1>2. ASSUME NEW r \in Request, RequestStep(r) PROVE payload'[n] = payload[n]
  BY <1>1, <1>2 DEF RequestStep, SendNow, Schedule, Cancel, Accept, ScheduleMark, SchedulePlan,
                    CancelPurge, CancelMark, RequestFails, queueVars
<1>3. ASSUME NEW a \in Actor, DispatchStep(a) PROVE payload'[n] = payload[n]
  <2>1. CASE Fan(a)
    <3>1. PICK c \in left[a] : Enqueue(c)
      BY <2>1 DEF Fan
    <3>2. c \in Contact
      BY DEF JobInv, ActorTypeOK
    <3> QED
      BY <1>1, <3>1, <3>2
  <2>2. CASE DispatchRead(a) \/ DispatchMark(a) \/ FanEnds(a) \/ Complete(a)
    BY <2>2 DEF DispatchRead, DispatchMark, FanEnds, Complete, Return, Resolve, Throw, Leave, queueVars
  <2> QED
    BY <1>3, <2>1, <2>2 DEF DispatchStep
<1>4. ASSUME NEW s \in Slot, HandlerStep(s) PROVE payload' = payload
  BY <1>4 DEF HandlerStep, Handle, Load, Miss, Send, Record, Count, Check, Trip, SendUnheard, Catch,
              HandlerFails, Resolve, Throw, Leave, queueVars
<1> QED
  BY <1>2, <1>3, <1>4 DEF Next, Claim, Toggle, Crash, vars, queueVars

\* A job that has ended stays as it is.
LEMMA EndedStay ==
    ASSUME JobInv, [Next]_vars, NEW n \in JobId, state[n] \in {"done", "dead"}
    PROVE  state'[n] = state[n] /\ payload'[n] = payload[n]
<1>1. \A s \in Slot : pc[s] # "idle" => job[s] \in JobId /\ job[s] # n
  BY DEF JobInv, Holding, ActorTypeOK
<1>2. ASSUME NEW s \in Slot, pc[s] # "idle", Resolve(s) \/ Throw(s)
      PROVE  state'[n] = state[n] /\ payload'[n] = payload[n]
  BY <1>1, <1>2 DEF Resolve, Throw, Leave, Queue!Finish, Queue!Err, Queue!Set, JobInv, QueueTypeOK
<1>3. ASSUME NEW what \in Contact \cup {Dispatch}, Enqueue(what)
      PROVE  state'[n] = state[n] /\ payload'[n] = payload[n]
  BY <1>3, EnqueueStep
<1>4. ASSUME NEW r \in Request, RequestStep(r) PROVE state'[n] = state[n] /\ payload'[n] = payload[n]
  <2>1. CASE SchedulePlan(r)
    BY <1>3, <2>1 DEF SchedulePlan
  <2>2. CASE CancelPurge(r)
    BY <2>2 DEF CancelPurge, Queue!Withdraw, JobInv, QueueTypeOK
  <2>3. CASE ~SchedulePlan(r) /\ ~CancelPurge(r)
    BY <1>4, <2>3 DEF RequestStep, SendNow, Schedule, Cancel, Accept, ScheduleMark, CancelMark,
                      RequestFails, queueVars
  <2> QED
    BY <2>1, <2>2, <2>3
<1>5. ASSUME NEW a \in Actor, DispatchStep(a) PROVE state'[n] = state[n] /\ payload'[n] = payload[n]
  <2>1. ASSUME Return(a), pc[a] # "idle" PROVE state'[n] = state[n] /\ payload'[n] = payload[n]
    BY <1>2, <2>1 DEF Return, queueVars
  <2>2. CASE Fan(a)
    <3>1. PICK c \in left[a] : Enqueue(c)
      BY <2>2 DEF Fan
    <3>2. c \in Contact
      BY DEF JobInv, ActorTypeOK
    <3> QED
      BY <1>3, <3>1, <3>2
  <2>3. CASE Complete(a)
    BY <1>2, <2>1, <2>3 DEF Complete
  <2>4. CASE DispatchRead(a) \/ DispatchMark(a) \/ FanEnds(a)
    BY <2>1, <2>4 DEF DispatchRead, DispatchMark, FanEnds, Goto, queueVars
  <2> QED
    BY <1>5, <2>2, <2>3, <2>4 DEF DispatchStep
<1>6. ASSUME NEW s \in Slot, HandlerStep(s) PROVE state'[n] = state[n] /\ payload'[n] = payload[n]
  BY <1>2, <1>6 DEF HandlerStep, Handle, Load, Miss, Send, Record, Count, Check, Trip, SendUnheard, Catch,
                    HandlerFails, Goto, queueVars
<1>7. ASSUME NEW s \in Slot, NEW m \in JobId, Claim(s, m)
      PROVE  state'[n] = state[n] /\ payload'[n] = payload[n]
  BY <1>7 DEF Claim, Queue!Begin, Queue!Set, JobInv, QueueTypeOK
<1>8. CASE Toggle \/ Crash \/ UNCHANGED vars
  BY <1>8 DEF Toggle, Crash, Queue!Interrupt, vars, queueVars, JobInv, QueueTypeOK
<1> QED
  BY <1>4, <1>5, <1>6, <1>7, <1>8 DEF Next

\* Only a handler gives a job up, and it ends with that.
LEMMA SkipNew ==
    ASSUME JobInv, [Next]_vars
    PROVE  skipped' \subseteq skipped \cup {n \in JobId : /\ state[n] = "running"
                                                          /\ state'[n] \in {"done", "dead"}}
<1>1. \A s \in Slot : pc[s] # "idle" => job[s] \in JobId /\ state[job[s]] = "running"
  BY DEF JobInv, Holding, ActorTypeOK
<1>2. ASSUME NEW s \in Slot, pc[s] # "idle", Resolve(s) PROVE state'[job[s]] = "done"
  BY <1>1, <1>2 DEF Resolve, Queue!Finish, Queue!Set, JobInv, QueueTypeOK
<1>3. ASSUME NEW s \in Slot, pc[s] # "idle", Throw(s), tries[job[s]] + 1 = MaxAttempts
      PROVE  state'[job[s]] = "dead"
  BY <1>1, <1>3 DEF Throw, Queue!Err, Queue!Set, JobInv, QueueTypeOK
<1>4. ASSUME NEW s \in Slot, HandlerStep(s), skipped' # skipped
      PROVE  /\ pc[s] # "idle" /\ skipped' = skipped \cup {job[s]}
             /\ Resolve(s) \/ (Throw(s) /\ tries[job[s]] + 1 = MaxAttempts)
  <2>1. CASE HandlerFails(s)
    <3>1. pc[s] # "idle" /\ Throw(s) /\ (Skip(s) \/ UNCHANGED metaVars)
      BY <2>1 DEF HandlerFails
    <3>2. skipped' # skipped => tries[job[s]] + 1 = MaxAttempts
      BY <2>1 DEF HandlerFails, metaVars
    <3>3. skipped' = skipped \cup {job[s]}
      BY <1>4, <3>1 DEF Skip, metaVars
    <3> QED
      BY <1>4, <3>1, <3>2, <3>3
  <2>2. CASE Handle(s) \/ Load(s)
    BY <1>4, <2>2 DEF Handle, Load, Skip, metaVars
  <2>3. CASE ~HandlerFails(s) /\ ~Handle(s) /\ ~Load(s)
    BY <1>4, <2>3 DEF HandlerStep, Miss, Send, Record, Count, Check, Trip, SendUnheard, Catch, metaVars
  <2> QED
    BY <2>1, <2>2, <2>3
<1>5. CASE \E s \in Slot : HandlerStep(s)
  BY <1>1, <1>2, <1>3, <1>4, <1>5
<1>6. CASE ~\E s \in Slot : HandlerStep(s)
  BY <1>6 DEF Next, RequestStep, SendNow, Schedule, Cancel, Accept, ScheduleMark, SchedulePlan,
              CancelPurge, CancelMark, RequestFails, DispatchStep, DispatchRead, DispatchMark, Fan,
              FanEnds, Complete, Claim, Toggle, Crash, vars, metaVars
<1> QED
  BY <1>5, <1>6

\* What is given up is over for good.
LEMMA SkippedStep == JobInv /\ SkippedOver /\ [Next]_vars => SkippedOver'
<1> SUFFICES ASSUME JobInv, SkippedOver, [Next]_vars, NEW n \in skipped'
             PROVE  state'[n] \in {"done", "dead"}
  BY DEF SkippedOver
<1>1. n \in skipped => n \in JobId
  BY DEF JobInv, QueueTypeOK
<1> QED
  BY <1>1, SkipNew, EndedStay DEF SkippedOver

\* What is counted stays counted, if slots leave the completion test only with
\* their job done.
LEMMA CountedKept ==
    ASSUME JobInv, JobInv', SkippedOver, [Next]_vars,
           \A s \in Slot :
               pc[s] \in {"check", "complete"} /\ payload[job[s]] # Dispatch =>
                   /\ payload'[job[s]] = payload[job[s]]
                   /\ \/ pc'[s] \in {"check", "complete"} /\ job'[s] = job[s]
                      \/ state'[job[s]] \in {"done", "dead"} /\ job[s] \notin skipped'
    PROVE  Counted \subseteq Counted'
<1>1. ASSUME NEW n \in Ended \ skipped PROVE n \in Counted'
  <2>1. n \in JobId /\ payload[n] # Dispatch /\ state[n] \in {"done", "dead"} /\ n \notin skipped
    BY DEF Ended
  <2>2. state'[n] = state[n] /\ payload'[n] = payload[n] /\ n \notin skipped'
    BY <2>1, EndedStay, SkipNew
  <2> QED
    BY <2>1, <2>2 DEF Counted, Ended
<1>2. ASSUME NEW n \in Settling PROVE n \in Counted'
  <2>1. PICK s \in Slot : job[s] = n /\ pc[s] \in {"check", "complete"} /\ payload[n] # Dispatch
    BY DEF Settling
  <2>2. n \in JobId
    BY DEF Settling
  <2> QED
    BY <2>1, <2>2 DEF Counted, Ended, Settling
<1> QED
  BY <1>1, <1>2 DEF Counted

\* A step that leaves what is counted and the counters alone.
LEMMA CalmCounts ==
    ASSUME JobInv', sent + failed <= Cardinality(Counted), Counted \subseteq Counted',
           RowTypeOK, UNCHANGED <<sent, failed>>
    PROVE  sent' + failed' <= Cardinality(Counted)'
<1>1. Counted' \in SUBSET JobId /\ Counted \in SUBSET Counted' /\ Counted \in SUBSET JobId
  BY DEF Counted, Ended, Settling, JobInv, QueueTypeOK
<1>2. Cardinality(Counted) <= Cardinality(Counted')
  BY <1>1, JobsFinite, FS_Subset
<1>3. Cardinality(Counted) \in Nat /\ Cardinality(Counted') \in Nat
  BY <1>1, JobsFinite
<1> QED
  BY <1>2, <1>3 DEF RowTypeOK

\* A step that counts one job more adds one to the counters.
LEMMA CalmCountsMore ==
    ASSUME JobInv', sent + failed <= Cardinality(Counted), Counted \subseteq Counted',
           NEW n \in Counted' \ Counted, RowTypeOK, sent' + failed' = sent + failed + 1
    PROVE  sent' + failed' <= Cardinality(Counted)'
<1>1. Counted' \in SUBSET JobId /\ Counted \cup {n} \in SUBSET Counted'
      /\ Counted \in SUBSET JobId /\ Counted \cup {n} \in SUBSET JobId /\ n \notin Counted
  BY DEF Counted, Ended, Settling, JobInv, QueueTypeOK
<1>2. Cardinality(Counted \cup {n}) <= Cardinality(Counted')
  BY <1>1, JobsFinite, FS_Subset
<1>3. Cardinality(Counted \cup {n}) = Cardinality(Counted) + 1
  BY <1>1, JobsFinite, FS_AddElement
<1>4. /\ Cardinality(Counted) \in Nat /\ Cardinality(Counted') \in Nat
      /\ Cardinality(Counted \cup {n}) \in Nat
  BY <1>1, JobsFinite
<1> QED
  BY <1>2, <1>3, <1>4 DEF RowTypeOK

\* A step that sends and counts nothing, and leaves the sending slots alone.
LEMMA CalmReport ==
    ASSUME accepted <= sent + Cardinality(Reporting), UNCHANGED <<sent, accepted>>,
           \A s \in Slot : pc[s] \in {"record", "count"} <=> pc'[s] \in {"record", "count"}
    PROVE  accepted' <= sent' + Cardinality(Reporting)'
<1>1. Reporting' = Reporting
  BY DEF Reporting
<1> QED
  BY <1>1

\* A handler comes to load from that look, and the payload stays.
LEMMA SendKindStep == JobInv /\ SendKind /\ [Next]_vars => SendKind'
<1> SUFFICES ASSUME JobInv, SendKind, [Next]_vars, NEW t \in Slot,
                    pc'[t] \in {"load", "miss", "send", "record", "count"}
             PROVE  payload'[job'[t]] # Dispatch
  BY DEF SendKind
<1>1. pc \in [Actor -> Step] /\ Slot \subseteq Actor /\ Request \cap Slot = {} /\ job \in [Slot -> JobId \cup {NoJob}]
  BY BroadcastConstAssumption DEF JobInv, ActorTypeOK, Actor
<1>2. /\ pc[t] # "idle" /\ payload[job[t]] # Dispatch /\ job'[t] = job[t]
  <2>1. ASSUME NEW r \in Request, RequestStep(r) PROVE pc'[t] = pc[t] /\ job'[t] = job[t]
    BY <1>1, <2>1 DEF RequestStep, SendNow, Schedule, Cancel, Accept, Goto, ScheduleMark, SchedulePlan,
                      CancelPurge, CancelMark, RequestFails
  <2>2. ASSUME NEW a \in Actor, DispatchStep(a) PROVE pc'[t] = pc[t] /\ job'[t] = job[t]
    BY <1>1, <2>2 DEF DispatchStep, DispatchRead, DispatchMark, Fan, FanEnds, Complete, Goto, Return,
                      Resolve, Throw, Leave, Freed
  <2>3. ASSUME NEW s \in Slot, HandlerStep(s)
        PROVE  /\ job'[t] = job[t]
               /\ \/ pc[t] \in {"load", "miss", "send", "record", "count"}
                  \/ pc[t] = "handle" /\ payload[job[t]] # Dispatch
    <3>1. CASE Handle(s)
      BY <1>1, <2>3, <3>1 DEF Handle, Goto, Resolve, Leave
    <3>2. CASE ~Handle(s)
      BY <1>1, <2>3, <3>2 DEF HandlerStep, Load, Miss, Send, Record, Count, Check, Trip, SendUnheard,
                              Catch, HandlerFails, Goto, Resolve, Throw, Leave
    <3> QED
      BY <3>1, <3>2
  <2>4. ASSUME NEW s \in Slot, NEW n \in JobId, Claim(s, n) PROVE pc'[t] = pc[t] /\ job'[t] = job[t]
    BY <1>1, <2>4 DEF Claim, Goto
  <2>5. CASE Toggle \/ Crash \/ UNCHANGED vars
    BY <1>1, <2>5 DEF Toggle, Crash, vars, procVars, SendKind
  <2> QED
    BY <2>1, <2>2, <2>3, <2>4, <2>5 DEF Next, SendKind
<1>3. job[t] \in JobId /\ state[job[t]] = "running"
  BY <1>2 DEF JobInv, Holding, ActorTypeOK
<1> QED
  BY <1>2, <1>3, PayloadStays

\* A request, and a dispatch on its behalf, leave slots and counters alone.
LEMMA CalmAside ==
    ASSUME RowTypeOK, JobInv, JobInv', SkippedOver, CalmInv, [Next]_vars, troubles = 0,
           UNCHANGED <<sent, failed, accepted, job, threw>>,
           \A s \in Slot : pc'[s] = pc[s]
    PROVE  CalmInv'
<1>1. Counted \subseteq Counted'
  <2>1. \A s \in Slot : pc[s] # "idle" => job[s] \in JobId /\ state[job[s]] = "running"
    BY DEF JobInv, Holding, ActorTypeOK
  <2>2. \A s \in Slot : pc[s] # "idle" => payload'[job[s]] = payload[job[s]]
    BY <2>1, PayloadStays
  <2> QED
    BY <2>2, CountedKept
<1> QED
  BY <1>1, CalmCounts, CalmReport DEF CalmInv

\* A handler that goes on from one statement to the next, and comes to the
\* completion test only with a dispatch job.
LEMMA CalmGo ==
    ASSUME RowTypeOK, JobInv, JobInv', SkippedOver, CalmInv, [Next]_vars, troubles = 0,
           NEW s \in Slot, NEW from, NEW to, Goto(s, from, to), to # "catch",
           UNCHANGED <<sent, failed, accepted, job, threw, payload>>,
           from \in {"record", "count"} <=> to \in {"record", "count"},
           from \in {"check", "complete"} => to \in {"check", "complete"}
    PROVE  CalmInv'
<1>1. \A t \in Slot : pc'[t] = IF t = s THEN to ELSE pc[t]
  BY DEF Goto, JobInv, ActorTypeOK, Actor
<1>2. pc[s] = from
  BY DEF Goto
<1>3. Counted \subseteq Counted'
  BY <1>1, <1>2, CountedKept
<1>4. /\ \A t \in Slot : ~threw'[t] /\ pc'[t] # "catch"
      /\ accepted' <= sent' + Cardinality(Reporting)'
  BY <1>1, <1>2, CalmReport DEF CalmInv
<1> QED
  BY <1>3, <1>4, CalmCounts DEF CalmInv

\* A handler that ends well.
LEMMA CalmResolve ==
    ASSUME JobInv, JobInv', SkippedOver, CalmInv, [Next]_vars, troubles = 0,
           NEW s \in Slot, pc[s] \notin {"idle", "record", "count"}, Resolve(s),
           UNCHANGED <<sent, accepted>>,
           pc[s] \in {"check", "complete"} => skipped' = skipped
    PROVE  /\ \A t \in Slot : ~threw'[t] /\ pc'[t] # "catch"
           /\ accepted' <= sent' + Cardinality(Reporting)'
           /\ Counted \subseteq Counted'
<1>1. /\ pc' = [pc EXCEPT ![s] = "idle"] /\ payload' = payload
      /\ job' = [job EXCEPT ![s] = NoJob] /\ threw' = [threw EXCEPT ![s] = FALSE]
  BY DEF Resolve, Leave, Freed
<1>2. \A t \in Slot : /\ pc'[t] = IF t = s THEN "idle" ELSE pc[t]
                      /\ job'[t] = IF t = s THEN NoJob ELSE job[t]
                      /\ threw'[t] = IF t = s THEN FALSE ELSE threw[t]
  BY <1>1 DEF JobInv, ActorTypeOK, Actor
<1>3. job[s] \in JobId /\ state[job[s]] = "running" /\ state'[job[s]] = "done"
  BY DEF JobInv, Holding, ActorTypeOK, QueueTypeOK, Resolve, Queue!Finish, Queue!Set
<1>4. job[s] \notin skipped
  BY <1>3 DEF SkippedOver
<1>5. Counted \subseteq Counted'
  BY <1>1, <1>2, <1>3, <1>4, CountedKept
<1>6. accepted' <= sent' + Cardinality(Reporting)'
  BY <1>2, CalmReport DEF CalmInv
<1> QED
  BY <1>2, <1>5, <1>6 DEF CalmInv

\* The end of a handler that counts nothing.
LEMMA CalmEnd ==
    ASSUME RowTypeOK, JobInv, JobInv', SkippedOver, CalmInv, [Next]_vars, troubles = 0,
           NEW s \in Slot, pc[s] \notin {"idle", "record", "count"}, Resolve(s),
           UNCHANGED <<sent, failed, accepted>>,
           pc[s] \in {"check", "complete"} => skipped' = skipped
    PROVE  CalmInv'
BY CalmResolve, CalmCounts DEF CalmInv

\* Dispatch, for a request or a job.
LEMMA CalmDispatch ==
    ASSUME RowTypeOK, JobInv, JobInv', SkippedOver, CalmInv, [Next]_vars, troubles = 0,
           NEW a \in Actor, DispatchStep(a)
    PROVE  CalmInv'
<1>1. UNCHANGED <<sent, failed, accepted, skipped>>
  BY DEF DispatchStep, DispatchRead, DispatchMark, Fan, FanEnds, Complete, rowVars, metaVars
<1>2. CASE a \notin Slot
  <2>1. UNCHANGED <<job, threw>> /\ (pc' = [pc EXCEPT ![a] = pc'[a]] \/ pc' = pc)
    BY <1>2 DEF DispatchStep, DispatchRead, DispatchMark, Fan, FanEnds, Complete, Return, Goto, JobInv, ActorTypeOK
  <2>2. \A s \in Slot : pc'[s] = pc[s]
    BY <1>2, <2>1 DEF JobInv, ActorTypeOK, Actor
  <2> QED
    BY <1>1, <2>1, <2>2, CalmAside
<1>3. CASE a \in Slot
  <2>1. ASSUME Return(a), pc[a] \in {"dispatch", "fan", "complete"} PROVE CalmInv'
    BY <1>1, <1>3, <2>1, CalmEnd DEF Return
  <2>2. CASE DispatchRead(a)
    BY <1>1, <1>3, <2>1, <2>2, CalmGo DEF DispatchRead, queueVars
  <2>3. CASE DispatchMark(a)
    BY <1>1, <1>3, <2>3, CalmGo DEF DispatchMark, queueVars
  <2>4. CASE Fan(a)
    BY <1>1, <2>4, CalmAside DEF Fan
  <2>5. CASE FanEnds(a)
    BY <2>1, <2>5 DEF FanEnds
  <2>6. CASE Complete(a)
    BY <1>3, <2>1, <2>6 DEF Complete, CalmInv
  <2> QED
    BY <2>2, <2>3, <2>4, <2>5, <2>6 DEF DispatchStep
<1> QED
  BY <1>2, <1>3

\* The worker: every count is of the job at hand, which was not counted before.
LEMMA CalmHandler ==
    ASSUME RowTypeOK, JobInv, JobInv', SkippedOver, SendKind, CalmInv, [Next]_vars, troubles' = 0, troubles = 0,
           NEW s \in Slot, HandlerStep(s)
    PROVE  CalmInv'
<1>1. ~Trip(s) /\ ~SendUnheard(s) /\ ~HandlerFails(s) /\ ~Catch(s) /\ ~threw[s]
  BY DEF Trip, SendUnheard, HandlerFails, Catch, Goto, Fault, CalmInv
<1>2. /\ pc[s] # "idle" => job[s] \in JobId /\ state[job[s]] = "running" /\ job[s] \notin skipped
      /\ \A t \in Slot : pc[s] # "idle" /\ job[t] = job[s] => t = s
  BY DEF JobInv, Holding, ActorTypeOK, Alone, SkippedOver
<1>3. CASE Handle(s)
  BY <1>3, CalmGo, CalmEnd DEF Handle, Goto, rowVars, queueVars, metaVars, Skip
<1>4. CASE Load(s)
  BY <1>4, CalmGo, CalmEnd DEF Load, Goto, rowVars, queueVars, metaVars, Skip
<1>5. CASE Miss(s)
  <2>1. /\ pc[s] = "miss" /\ Resolve(s) /\ UNCHANGED <<sent, accepted, skipped>> /\ failed' = failed + 1
    BY <1>5 DEF Miss, CountMissing, CountFailed, metaVars
  <2>2. /\ \A t \in Slot : ~threw'[t] /\ pc'[t] # "catch"
        /\ accepted' <= sent' + Cardinality(Reporting)'
        /\ Counted \subseteq Counted'
    BY <2>1, CalmResolve
  <2>3. job[s] \in Counted' \ Counted
    <3>1. state'[job[s]] = "done" /\ payload'[job[s]] = payload[job[s]] /\ job[s] \notin skipped'
      BY <1>2, <2>1 DEF Resolve, Leave, Queue!Finish, Queue!Set, JobInv, QueueTypeOK
    <3>2. payload[job[s]] # Dispatch
      BY <2>1 DEF SendKind
    <3> QED
      BY <1>2, <2>1, <3>1, <3>2 DEF Counted, Ended, Settling
  <2> QED
    BY <2>1, <2>2, <2>3, CalmCountsMore DEF RowTypeOK, CalmInv
<1>6. CASE Send(s)
  <2>1. /\ pc[s] = "send" /\ pc' = [pc EXCEPT ![s] = "record"] /\ accepted' = accepted + 1
        /\ UNCHANGED <<sent, failed, job, threw, payload>>
    BY <1>6 DEF Send, Deliver, Goto, rowVars, queueVars
  <2>2. \A t \in Slot : pc'[t] = IF t = s THEN "record" ELSE pc[t]
    BY <2>1 DEF JobInv, ActorTypeOK, Actor
  <2>3. Reporting' = Reporting \cup {s} /\ s \notin Reporting /\ Reporting \in SUBSET Slot
    BY <2>1, <2>2 DEF Reporting
  <2>4. Cardinality(Reporting)' = Cardinality(Reporting) + 1 /\ Cardinality(Reporting) \in Nat
    BY <2>3, FS_Subset, FS_CardinalityType, FS_AddElement, BroadcastConstAssumption
  <2>5. accepted' <= sent' + Cardinality(Reporting)'
    BY <2>1, <2>4 DEF CalmInv, RowTypeOK
  <2>6. Counted \subseteq Counted'
    BY <2>1, <2>2, CountedKept
  <2> QED
    BY <2>1, <2>2, <2>5, <2>6, CalmCounts DEF CalmInv
<1>7. CASE Record(s)
  BY <1>7, CalmGo DEF Record, rowVars, queueVars, metaVars
<1>8. CASE Count(s)
  <2>1. /\ pc[s] = "count" /\ pc' = [pc EXCEPT ![s] = "check"] /\ sent' = sent + 1
        /\ UNCHANGED <<failed, accepted, skipped, job, threw, payload>>
    BY <1>8 DEF Count, CountSent, Goto, queueVars, metaVars
  <2>2. \A t \in Slot : pc'[t] = IF t = s THEN "check" ELSE pc[t]
    BY <2>1 DEF JobInv, ActorTypeOK, Actor
  <2>3. Reporting' = Reporting \ {s} /\ s \in Reporting /\ Reporting \in SUBSET Slot
    BY <2>1, <2>2 DEF Reporting
  <2>4. Cardinality(Reporting)' = Cardinality(Reporting) - 1 /\ Cardinality(Reporting) \in Nat
    BY <2>3, FS_Subset, FS_CardinalityType, FS_RemoveElement, BroadcastConstAssumption
  <2>5. accepted' <= sent' + Cardinality(Reporting)'
    BY <2>1, <2>4 DEF CalmInv, RowTypeOK
  <2>6. Counted \subseteq Counted'
    BY <2>1, <2>2, CountedKept
  <2>7. job[s] \in Counted' \ Counted
    BY <1>2, <2>1, <2>2 DEF Counted, Ended, Settling, SendKind
  <2> QED
    BY <2>1, <2>2, <2>5, <2>6, <2>7, CalmCountsMore DEF RowTypeOK, CalmInv
<1>9. CASE Check(s)
  BY <1>1, <1>9, CalmGo, CalmEnd DEF Check, rowVars, queueVars, metaVars
<1> QED
  BY <1>1, <1>3, <1>4, <1>5, <1>6, <1>7, <1>8, <1>9 DEF HandlerStep

\* And everybody else: a trouble, once counted, stays so.
LEMMA CalmStep ==
    RowTypeOK /\ JobInv /\ SkippedOver /\ SendKind /\ CalmInv /\ [Next]_vars => CalmInv'
<1> SUFFICES ASSUME RowTypeOK, JobInv, SkippedOver, SendKind, CalmInv, [Next]_vars, troubles' = 0
             PROVE  CalmInv'
  BY DEF CalmInv
<1>1. JobInv'
  BY JobsStep
<1>2. troubles = 0
  <2>1. troubles \in Nat
    BY BroadcastConstAssumption DEF RowTypeOK
  <2>2. troubles' = troubles \/ troubles' = troubles + 1
    BY DEF Next, RequestStep, SendNow, Schedule, Cancel, Accept, ScheduleMark, SchedulePlan, CancelPurge,
           CancelMark, RequestFails, DispatchStep, DispatchRead, DispatchMark, Fan, FanEnds, Complete,
           HandlerStep, Handle, Load, Miss, Send, Record, Count, Check, Trip, SendUnheard, Catch,
           HandlerFails, Claim, Toggle, Crash, Fault, vars, envVars
  <2> QED
    BY <2>1, <2>2
<1>3. ASSUME NEW r \in Request, RequestStep(r) PROVE CalmInv'
  <2>1. UNCHANGED <<sent, failed, accepted, job, threw>> /\ pc' = [pc EXCEPT ![r] = pc'[r]]
    BY <1>3 DEF RequestStep, SendNow, Schedule, Cancel, Accept, ScheduleMark, SchedulePlan, CancelPurge,
                CancelMark, RequestFails, Goto, rowVars, metaVars, JobInv, ActorTypeOK, Actor
  <2>2. \A s \in Slot : pc'[s] = pc[s]
    BY <2>1, BroadcastConstAssumption DEF JobInv, ActorTypeOK, Actor
  <2> QED
    BY <1>1, <1>2, <2>1, <2>2, CalmAside
<1>4. ASSUME NEW s \in Slot, NEW n \in JobId, Claim(s, n) PROVE CalmInv'
  <2>1. /\ pc[s] = "idle" /\ pc' = [pc EXCEPT ![s] = "handle"] /\ job' = [job EXCEPT ![s] = n]
        /\ UNCHANGED <<sent, failed, accepted, threw, payload>>
    BY <1>4 DEF Claim, Goto, rowVars, metaVars
  <2>2. \A t \in Slot : /\ pc'[t] = IF t = s THEN "handle" ELSE pc[t]
                        /\ t # s => job'[t] = job[t]
    BY <2>1 DEF JobInv, ActorTypeOK, Actor
  <2>3. Counted \subseteq Counted'
    BY <1>1, <2>1, <2>2, CountedKept
  <2>4. /\ \A t \in Slot : ~threw'[t] /\ pc'[t] # "catch"
        /\ accepted' <= sent' + Cardinality(Reporting)'
    BY <1>2, <2>1, <2>2, CalmReport DEF CalmInv
  <2> QED
    BY <1>1, <1>2, <2>1, <2>3, <2>4, CalmCounts DEF CalmInv
<1>5. CASE Toggle \/ UNCHANGED vars
  BY <1>1, <1>2, <1>5, CalmAside DEF Toggle, vars, rowVars, metaVars, procVars
<1>6. ~Crash
  BY <1>2 DEF Crash, Fault
<1> QED
  BY <1>1, <1>2, <1>3, <1>4, <1>5, <1>6, CalmDispatch, CalmHandler DEF Next

-----------------------------------------------------------------------------
(* The theorems.                                                            *)

BroadcastInv ==
    /\ RowTypeOK /\ JobInv /\ CancelInv /\ CountInv /\ ReportInv
    /\ SkippedOver /\ SendKind /\ CalmInv

\* Nothing is sent, queued or counted at first.
LEMMA BroadcastInit == Init => BroadcastInv
<1> SUFFICES ASSUME Init PROVE BroadcastInv
  OBVIOUS
<1> USE BroadcastConstAssumption DEF Init
<1>1. RowTypeOK
  BY DEF RowTypeOK
<1>2. JobInv
  BY DEF JobInv, QueueTypeOK, ActorTypeOK, Holding, Alone, Kinds, Attempts, Queue!Init, JobState, Step, Actor
<1>3. CancelInv
  BY DEF CancelInv
<1>4. CountInv
  <2>1. Counted = {}
    BY DEF Counted, Ended, Settling, Queue!Init, Actor
  <2> QED
    BY <2>1, FS_EmptySet DEF CountInv
<1>5. ReportInv
  <2>1. Reporting = {}
    BY DEF Reporting, Actor
  <2> QED
    BY <2>1, FS_EmptySet DEF ReportInv
<1>6. SkippedOver /\ SendKind
  BY DEF SkippedOver, SendKind, Actor
<1>7. CalmInv
  <2>1. Counted = {} /\ Reporting = {}
    BY DEF Counted, Ended, Settling, Reporting, Queue!Init, Actor
  <2>2. Cardinality(Counted) = 0 /\ Cardinality(Reporting) = 0
    BY <2>1, FS_EmptySet
  <2> QED
    BY <2>2 DEF CalmInv, Actor
<1> QED
  BY <1>1, <1>2, <1>3, <1>4, <1>5, <1>6, <1>7 DEF BroadcastInv

\* The invariant holds in every reachable state.
THEOREM BroadcastInvariant == Spec => []BroadcastInv
<1>1. BroadcastInv /\ [Next]_vars => BroadcastInv'
  BY RowStep, JobsStep, CancelStep, CountStep, ReportStep, SkippedStep, SendKindStep, CalmStep
     DEF BroadcastInv
<1> QED
  BY <1>1, BroadcastInit, PTL DEF Spec

\* Every variable keeps its type, and a slot has a job exactly while it runs one.
THEOREM BroadcastTypes == Spec => []TypeOK
<1>1. BroadcastInv => TypeOK
  BY DEF BroadcastInv, RowTypeOK, JobInv, QueueTypeOK, ActorTypeOK, Holding, JobState, TypeOK
<1> QED
  BY <1>1, BroadcastInvariant, PTL

\* A cancel that crosses no other write of the status lasts, and after it each
\* worker slot sends at most one message more, however many jobs are queued,
\* retried or restarted.
THEOREM CancelIsObeyed == Spec => []CancelStops
<1>1. BroadcastInv => CancelStops
  <2> SUFFICES ASSUME BroadcastInv PROVE CancelStops
    OBVIOUS
  <2>1. Sending \in SUBSET Slot /\ IsFiniteSet(Slot)
    BY BroadcastConstAssumption DEF Sending
  <2>2. Cardinality(Sending) \in Nat /\ Cardinality(Slot) \in Nat
    BY <2>1, FS_Subset, FS_CardinalityType
  <2> QED
    BY <2>2 DEF BroadcastInv, CancelInv, CancelStops, RowTypeOK
<1> QED
  BY <1>1, BroadcastInvariant, PTL

\* No send job ends uncounted but those consumed unsent or given up before they
\* could count, so the counters can reach the total; and nothing is counted
\* twice before something fails.
THEOREM EndsAreCounted == Spec => []EveryEndCounted
<1>1. BroadcastInv => EveryEndCounted
  <2> SUFFICES ASSUME BroadcastInv PROVE EveryEndCounted
    OBVIOUS
  <2>1. Ended \ skipped \in SUBSET Counted /\ Counted \in SUBSET JobId
    BY DEF BroadcastInv, JobInv, ActorTypeOK, Counted, Ended, Settling
  <2>2. Cardinality(Ended \ skipped) <= Cardinality(Counted)
    BY <2>1, JobsFinite, FS_Subset
  <2>3. Cardinality(Ended \ skipped) \in Nat /\ Cardinality(Counted) \in Nat
    BY <2>1, JobsFinite
  <2> QED
    BY <2>2, <2>3 DEF BroadcastInv, CountInv, CalmInv, EveryEndCounted, RowTypeOK
<1> QED
  BY <1>1, BroadcastInvariant, PTL

\* The report never claims more messages than Meta has accepted, whatever is
\* retried, lost or repeated, and misses none before something fails.
THEOREM ReportIsBacked == Spec => []SentIsBacked
<1>1. BroadcastInv => SentIsBacked
  <2> SUFFICES ASSUME BroadcastInv PROVE SentIsBacked
    OBVIOUS
  <2>1. Reporting \in SUBSET Slot /\ IsFiniteSet(Slot)
    BY BroadcastConstAssumption DEF Reporting
  <2>2. Cardinality(Reporting) \in Nat
    BY <2>1, FS_Subset, FS_CardinalityType
  <2> QED
    BY <2>2 DEF BroadcastInv, ReportInv, CalmInv, SentIsBacked, RowTypeOK
<1> QED
  BY <1>1, BroadcastInvariant, PTL
=============================================================================
