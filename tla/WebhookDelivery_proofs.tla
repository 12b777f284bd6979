----------------------- MODULE WebhookDelivery_proofs -----------------------
(***************************************************************************)
(* Proofs about WebhookDelivery for any number of requests, readers,       *)
(* worker slots, jobs, attempts and failures.  What TenantBilling_proofs   *)
(* shows of the account alone holds of it here: to the account, every step *)
(* of the deliveries is one of those it allows beside its own.             *)
(***************************************************************************)
EXTENDS WebhookDelivery, TenantBilling_proofs

-----------------------------------------------------------------------------
(* The account.                                                             *)

SendTypeOK ==
    /\ endpoint \in {"active", "inactive", "gone"}
    /\ listed \in {"none", "with", "without"} /\ oldList \in BOOLEAN
    /\ dpc \in [Reader -> {"idle", "load", "keep", "push"}]
    /\ dval \in [Reader -> BOOLEAN] /\ dlate \in [Reader -> BOOLEAN]
    /\ opc \in {"idle", "flip", "drop"} /\ oval \in {"active", "inactive"}

\* A dispatch under way belongs to a caller of isActive that was told yes.
Asked == \A d \in Reader : dpc[d] # "idle" => rpc[d] = "yes"

\* A dispatch, to the account: its caller is done or goes on.
LEMMA DispatchBeside == ASSUME NEW d \in Reader, Dispatch(d) PROVE Beside
<1>1. UNCHANGED <<accountVars, cacheVars, requestVars, rval, late>>
  <2>1. DispatchOnly
    BY DEF Dispatch, UseList, LoadList, KeepList, Push, DispatchFails
  <2> QED
    BY <2>1 DEF DispatchOnly
<1>2. rpc' = rpc \/ (rpc[d] = "yes" /\ rpc' = [rpc EXCEPT ![d] = "idle"])
  <2>1. \E from, to \in {"idle", "load", "keep", "push"} : DGoto(d, from, to)
    BY DEF Dispatch, UseList, LoadList, KeepList, Push, DispatchFails
  <2> QED
    BY <2>1 DEF DGoto
<1>3. Trouble \/ UNCHANGED envVars
  BY DEF Dispatch, UseList, LoadList, KeepList, Push, DispatchFails
<1> QED
  BY <1>1, <1>2, <1>3 DEF Beside

\* The owner and the worker, to the account: at most a call or a failure.
LEMMA OthersBeside ==
    ASSUME \/ OwnerStarts \/ OwnerWrites \/ OwnerInvalidates \/ OwnerFails \/ ListExpires
           \/ \E s \in Slot : Work(s)
    PROVE  Beside
<1>1. UNCHANGED <<accountVars, cacheVars, requestVars, readerVars>>
  BY DEF OwnerStarts, OwnerWrites, OwnerInvalidates, OwnerFails, ListExpires, Elsewhere,
         Work, Claim, Drain, Ready, Post, Log, Unlogged, Finish, WorkerFails, WorkerOnly
<1>2. Call \/ Trouble \/ UNCHANGED envVars
  BY DEF OwnerStarts, OwnerWrites, OwnerInvalidates, OwnerFails, ListExpires,
         Work, Claim, Drain, Ready, Post, Log, Unlogged, Finish, WorkerFails
<1> QED
  BY <1>1, <1>2 DEF Beside, readerVars

\* Every step is one of the account, or beside it.
LEMMA AccountMove == [Next]_vars => [AccountStep]_billVars
<1> SUFFICES ASSUME [Next]_vars PROVE [AccountStep]_billVars
  OBVIOUS
<1>1. ASSUME NEW d \in Reader, Dispatch(d) PROVE AccountStep
  BY <1>1, DispatchBeside DEF AccountStep
<1>2. CASE \/ OwnerStarts \/ OwnerWrites \/ OwnerInvalidates \/ OwnerFails \/ ListExpires
           \/ \E s \in Slot : Work(s)
  BY <1>2, OthersBeside DEF AccountStep
<1>3. CASE \/ \E r \in Request : RequestStep(r)
           \/ \E d \in Reader : ReaderStep(d)
           \/ CacheExpires \/ Time
  BY <1>3 DEF AccountStep, BillNext
<1>4. CASE Crash
  BY <1>4 DEF Crash, AccountStep, BillNext
<1>5. CASE UNCHANGED vars
  BY <1>5 DEF vars
<1> QED
  BY <1>1, <1>2, <1>3, <1>4, <1>5 DEF Next

\* The invariant of the account holds of the whole.
LEMMA BillInvHolds == Spec => []BillInv
<1>1. Init => BillInv
  BY BillInvInit DEF Init
<1>2. BillInv /\ [Next]_vars => BillInv'
  BY AccountMove, BillInvStep
<1> QED
  BY <1>1, <1>2, PTL DEF Spec

-----------------------------------------------------------------------------
(* The endpoint and the cache of its list.                                  *)

\* A dispatch about to keep a list has the right one, or knows it is late.
Loads == \A d \in Reader : dpc[d] = "keep" => (dval[d] <=> endpoint = "active") \/ dlate[d]

\* The owner's write finds the endpoint it read.
Present == opc = "flip" => endpoint # "gone"

ListInv == SendTypeOK /\ Asked /\ Loads /\ ListAgrees /\ Present

\* A dispatch goes on only after a yes, and fills the list with what it loaded.
LEMMA DispatchList ==
    ASSUME BillTypeOK, ListInv, NEW d \in Reader, Dispatch(d)
    PROVE  ListInv'
<1> USE DEF ListInv
<1>1. rpc \in [Reader -> {"idle", "read", "put", "yes"}]
  BY DEF BillTypeOK
<1>2. SendTypeOK'
  BY DEF Dispatch, UseList, LoadList, KeepList, Push, DispatchFails, DGoto, ownerVars, SendTypeOK
<1>3. Asked'
  BY <1>1 DEF Dispatch, UseList, LoadList, KeepList, Push, DispatchFails, DGoto, Asked, SendTypeOK
<1>4. Loads'
  <2>1. CASE LoadList(d)
    BY <2>1 DEF LoadList, DGoto, ownerVars, Loads, SendTypeOK
  <2>2. CASE UseList(d) \/ KeepList(d) \/ Push(d) \/ DispatchFails(d)
    BY <2>2 DEF UseList, KeepList, Push, DispatchFails, DGoto, ownerVars, Loads, SendTypeOK
  <2> QED
    BY <2>1, <2>2 DEF Dispatch
<1>5. ListAgrees'
  <2>1. CASE KeepList(d)
    BY <2>1 DEF KeepList, DGoto, ListAgrees, Loads, SendTypeOK
  <2>2. CASE UseList(d) \/ LoadList(d) \/ Push(d) \/ DispatchFails(d)
    BY <2>2 DEF UseList, LoadList, Push, DispatchFails, ownerVars, ListAgrees
  <2> QED
    BY <2>1, <2>2 DEF Dispatch
<1>6. Present'
  BY DEF Dispatch, UseList, LoadList, KeepList, Push, DispatchFails, ownerVars, Present
<1> QED
  BY <1>2, <1>3, <1>4, <1>5, <1>6

\* The owner's write overtakes the dispatches that have loaded the list, and is
\* followed by the invalidation.
LEMMA OwnerList ==
    ASSUME BillTypeOK, ListInv,
           OwnerStarts \/ OwnerWrites \/ OwnerInvalidates \/ OwnerFails \/ ListExpires
    PROVE  ListInv'
BY DEF ListInv, SendTypeOK, Asked, Loads, ListAgrees, Present, OwnerStarts, OwnerWrites,
       OwnerInvalidates, OwnerFails, ListExpires, DropList, Elsewhere, sendVars, readerVars

\* The rest leaves the endpoint alone; a reader that moves is not dispatching.
LEMMA ListStep == BillTypeOK /\ ListInv /\ [Next]_vars => ListInv'
<1> SUFFICES ASSUME BillTypeOK, ListInv, [Next]_vars PROVE ListInv'
  OBVIOUS
<1> USE DEF ListInv
<1>1. ASSUME UNCHANGED <<ownerVars, sendVars>>, \A d \in Reader : rpc[d] = "yes" => rpc'[d] = "yes"
      PROVE  ListInv'
  BY <1>1 DEF SendTypeOK, Asked, Loads, ListAgrees, Present, ownerVars, sendVars
<1>2. ASSUME UNCHANGED hookVars, \/ \E r \in Request : RequestStep(r)
                                 \/ CacheExpires \/ Time
      PROVE  ListInv'
  <2>1. UNCHANGED rpc
    BY <1>2 DEF RequestStep, CacheExpires, Time, Generate, FindInvoice, Raise, Enforce, ListDelinquent,
       CheckCompany, Suspend, MarkPaid, Pay, FindSuspension, CountOwed, Reactivate, SuspendClient,
       ActivateClient, GrantGrace, Extend, Invalidate, RequestFails, Write, Reads, readerVars
  <2> QED
    BY <1>1, <1>2, <2>1 DEF hookVars
<1>3. ASSUME UNCHANGED hookVars, NEW d \in Reader, ReaderStep(d) PROVE ListInv'
  BY <1>1, <1>3 DEF hookVars, BillTypeOK, ReaderStep, IsActive, ReadStatus, Fill, ReaderFails, Answer
<1>4. ASSUME NEW s \in Slot, Work(s) PROVE ListInv'
  BY <1>1, <1>4 DEF Work, Claim, Drain, Ready, Post, Log, Unlogged, Finish, WorkerFails, WorkerOnly, readerVars
<1>5. CASE Crash
  BY <1>5 DEF Crash, DropList, SendTypeOK, Asked, Loads, ListAgrees, Present
<1>6. CASE UNCHANGED vars
  BY <1>1, <1>6 DEF vars, hookVars, billVars, readerVars
<1> QED
  BY <1>2, <1>3, <1>4, <1>5, <1>6, DispatchList, OwnerList DEF Next

-----------------------------------------------------------------------------
(* Jobs and the worker.                                                     *)

JobState == {"none", "waiting", "running", "done", "dead", "gone"}
Stage    == {"idle", "read", "post", "log", "end"}

JobTypeOK ==
    /\ state \in [JobId -> JobState] /\ tries \in [JobId -> 0..MaxAttempts]
    /\ wpc \in [Slot -> Stage] /\ job \in [Slot -> JobId \cup {NoJob}]
    /\ result \in [Slot -> Result]
    /\ logged \in [JobId -> SUBSET Result] /\ heard \in [JobId -> Nat]

\* A handler under way has a running job of its own.
Holding ==
    \A s \in Slot : /\ wpc[s] # "idle" <=> job[s] # NoJob
                    /\ wpc[s] # "idle" => state[job[s]] = "running"
Alone == \A s, t \in Slot : job[s] = job[t] /\ job[s] # NoJob => s = t

\* A job is given up exactly when its attempts are used up.
Attempts == \A n \in JobId : /\ state[n] \in {"none", "waiting", "running"} => tries[n] < MaxAttempts
                             /\ state[n] = "dead" => tries[n] = MaxAttempts

JobInv == JobTypeOK /\ Holding /\ Alone /\ Attempts

\* An attempt that ended without a final result was logged, or was a failure; an
\* endpoint that is gone has no log, so no handler of its has got past the log.
Ledger ==
    /\ \A n \in JobId : /\ "retry" \in logged[n] \/ tries[n] <= troubles \/ endpoint = "gone"
                        /\ state[n] = "done" => logged[n] \cap Final # {}
    /\ endpoint = "gone" => \A n \in JobId : logged[n] = {}
    /\ \A s \in Slot : wpc[s] = "end" => logged[job[s]] \cap Final # {}

\* The slot that has heard success goes on to log it and to settle the job; what
\* was heard before that has cost a trouble each time.  Nothing more is heard once
\* the endpoint is gone.
Silent(n) == endpoint = "gone" /\ \A s \in Slot : job[s] = n => wpc[s] # "post"
Settling(s) == wpc[s] = "end" \/ (wpc[s] = "log" /\ result[s] = "success")
HeardOnce(n) ==
    \/ heard[n] <= troubles
    \/ /\ heard[n] <= troubles + 1
       /\ Silent(n) \/ state[n] = "done" \/ \E s \in Slot : job[s] = n /\ Settling(s)
LoggedEnds(n) ==
    "success" \in logged[n] => state[n] = "done" \/ \E s \in Slot : wpc[s] = "end" /\ job[s] = n
Successes == \A n \in JobId : HeardOnce(n) /\ (troubles = 0 => LoggedEnds(n))

WorkInv == JobInv /\ Ledger /\ Successes

\* The invariants imply the properties.
LEMMA WorkImplies == BillTypeOK /\ WorkInv => EndedIsLogged /\ SuccessEnds
<1> SUFFICES ASSUME BillTypeOK, WorkInv PROVE EndedIsLogged /\ SuccessEnds
  OBVIOUS
<1>1. troubles \in Nat
  BY DEF BillTypeOK
<1>2. EndedIsLogged
  BY <1>1, DeliveryConstAssumption
     DEF WorkInv, Ledger, JobInv, Attempts, JobTypeOK, EndedIsLogged
<1>3. SuccessEnds
  BY <1>1 DEF WorkInv, JobInv, JobTypeOK, Successes, HeardOnce, LoggedEnds, SuccessEnds
<1> QED
  BY <1>2, <1>3

\* The steps of one handler, and how they leave the invariants of its job.
LEMMA JobStep ==
    ASSUME BillTypeOK, JobInv, NEW s \in Slot, Work(s)
    PROVE  JobInv'
<1> USE DeliveryConstAssumption DEF JobInv, NoJob, JobId
<1>1. ASSUME NEW n \in JobId, Queue!Begin(n), wpc[s] = "idle", wpc' = [wpc EXCEPT ![s] = "read"],
             job' = [job EXCEPT ![s] = n], UNCHANGED <<result, outVars>>
      PROVE  JobInv'
  <2>1. JobTypeOK'
    BY <1>1 DEF JobTypeOK, Queue!Begin, Queue!Set, outVars, Stage, JobState
  <2>2. Attempts'
    BY <1>1 DEF JobTypeOK, Queue!Begin, Queue!Set, Attempts
  <2>3. Holding' /\ Alone'
    BY <1>1 DEF JobTypeOK, Queue!Begin, Queue!Set, Holding, Alone
  <2> QED
    BY <2>1, <2>2, <2>3
<1>2. ASSUME wpc[s] # "idle", Free(s), Queue!Finish(job[s]) \/ Queue!Err(job[s]),
             UNCHANGED heard, logged' \in [JobId -> SUBSET Result]
      PROVE  JobInv'
  <2>1. job[s] \in JobId /\ state[job[s]] = "running"
    BY <1>2 DEF Holding, JobTypeOK
  <2>2. JobTypeOK'
    <3>1. tries' \in [JobId -> 0..MaxAttempts]
      <4>1. tries[job[s]] \in 0..MaxAttempts /\ tries[job[s]] < MaxAttempts
        BY <2>1 DEF JobTypeOK, Attempts
      <4>2. tries[job[s]] + 1 \in 0..MaxAttempts
        BY <4>1
      <4> QED
        BY <1>2, <4>2 DEF JobTypeOK, Queue!Finish, Queue!Err
    <3>2. state' \in [JobId -> JobState]
      BY <1>2 DEF JobTypeOK, JobState, Queue!Finish, Queue!Err, Queue!Set
    <3>3. /\ wpc' \in [Slot -> Stage] /\ job' \in [Slot -> JobId \cup {NoJob}]
          /\ result' \in [Slot -> Result]
      BY <1>2 DEF JobTypeOK, Free, Stage, Result
    <3> QED
      BY <1>2, <3>1, <3>2, <3>3 DEF JobTypeOK
  <2>3. Attempts'
    <3>1. tries[job[s]] \in 0..MaxAttempts /\ tries[job[s]] < MaxAttempts
      BY <2>1 DEF JobTypeOK, Attempts
    <3>2. CASE Queue!Finish(job[s])
      BY <2>1, <3>1, <3>2 DEF JobTypeOK, Attempts, Queue!Finish, Queue!Set
    <3>3. CASE Queue!Err(job[s])
      <4>1. tries'[job[s]] = tries[job[s]] + 1
        BY <2>1, <3>3 DEF JobTypeOK, Queue!Err
      <4>2. state'[job[s]] = IF tries[job[s]] + 1 = MaxAttempts THEN "dead" ELSE "waiting"
        BY <2>1, <3>3 DEF JobTypeOK, Queue!Err, Queue!Set
      <4>3. \A n \in JobId \ {job[s]} : tries'[n] = tries[n] /\ state'[n] = state[n]
        BY <2>1, <3>3 DEF JobTypeOK, Queue!Err, Queue!Set
      <4> QED
        BY <3>1, <4>1, <4>2, <4>3 DEF Attempts
    <3> QED
      BY <1>2, <3>2, <3>3
  <2>4. Alone'
    BY <1>2 DEF JobTypeOK, Free, Alone
  <2>5. Holding'
    <3> SUFFICES ASSUME NEW t \in Slot
                 PROVE  /\ wpc'[t] # "idle" <=> job'[t] # NoJob
                        /\ wpc'[t] # "idle" => state'[job'[t]] = "running"
      BY DEF Holding
    <3>1. CASE t = s
      BY <1>2, <3>1 DEF JobTypeOK, Free
    <3>2. CASE t # s
      <4>1. wpc'[t] = wpc[t] /\ job'[t] = job[t] /\ (job[t] # NoJob => job[t] # job[s])
        BY <1>2, <2>1, <3>2 DEF JobTypeOK, Free, Alone
      <4>2. job[t] # NoJob => state'[job[t]] = state[job[t]]
        BY <1>2, <2>1, <4>1 DEF JobTypeOK, Queue!Finish, Queue!Err, Queue!Set
      <4> QED
        BY <4>1, <4>2 DEF Holding
    <3> QED
      BY <3>1, <3>2
  <2> QED
    BY <2>2, <2>3, <2>4, <2>5
<1>3. ASSUME wpc[s] # "idle", NEW step \in Stage \ {"idle"}, wpc' = [wpc EXCEPT ![s] = step],
             UNCHANGED <<queueVars, job>>, result' \in [Slot -> Result],
             logged' \in [JobId -> SUBSET Result], heard' \in [JobId -> Nat]
      PROVE  JobInv'
  BY <1>3 DEF JobTypeOK, Holding, Alone, Attempts, queueVars
<1>4. CASE Claim(s)
  BY <1>1, <1>4 DEF Claim, WGoto
<1>5. CASE Drain(s) \/ Ready(s) \/ Post(s)
  <2>1. result' \in [Slot -> Result]
    BY <1>5 DEF Drain, Ready, Post, JobTypeOK, Result, Final
  <2>2. logged' \in [JobId -> SUBSET Result] /\ heard' \in [JobId -> Nat]
    <3>1. heard' = heard \/ heard' = [heard EXCEPT ![job[s]] = @ + 1]
      BY <1>5 DEF Drain, Ready, Post, outVars
    <3>2. job[s] \in JobId
      BY <1>5 DEF Drain, Ready, Post, WGoto, Holding, JobTypeOK
    <3>3. heard' \in [JobId -> Nat]
      <4>1. heard \in [JobId -> Nat]
        BY DEF JobTypeOK
      <4>2. heard[job[s]] + 1 \in Nat
        BY <3>2, <4>1
      <4> QED
        BY <3>1, <4>1, <4>2
    <3>4. logged' = logged
      BY <1>5 DEF Drain, Ready, Post, outVars
    <3> QED
      BY <3>3, <3>4 DEF JobTypeOK
  <2>3. \E step \in {"log", "post"} : wpc' = [wpc EXCEPT ![s] = step]
    BY <1>5 DEF Drain, Ready, Post, WGoto
  <2> QED
    BY <1>3, <1>5, <2>1, <2>2, <2>3 DEF Drain, Ready, Post, WGoto, Stage
<1>6. CASE Log(s)
  <2>1. logged' \in [JobId -> SUBSET Result] /\ UNCHANGED heard
    BY <1>6 DEF Log, JobTypeOK
  <2> QED
    BY <1>2, <1>3, <1>6, <2>1 DEF Log, WGoto, Stage, JobTypeOK
<1>7. CASE Unlogged(s) \/ Finish(s) \/ WorkerFails(s)
  BY <1>2, <1>7 DEF Unlogged, Finish, Settle, WorkerFails, outVars, JobTypeOK
<1> QED
  BY <1>4, <1>5, <1>6, <1>7 DEF Work

\* Attempts, log and jobs stay in step; a failure outside the try counts as trouble.
LEMMA LedgerStep ==
    ASSUME BillTypeOK, JobInv, Ledger, NEW s \in Slot, Work(s)
    PROVE  Ledger'
<1>1. /\ JobTypeOK /\ troubles \in Nat
      /\ wpc[s] # "idle" => job[s] \in JobId /\ state[job[s]] = "running"
  BY DEF JobInv, JobTypeOK, Holding, BillTypeOK
<1>2. \A t \in Slot \ {s} : job[s] # NoJob => job[t] # job[s]
  BY DEF JobInv, Alone
<1>0. UNCHANGED endpoint
  BY DEF Work, Claim, Drain, Ready, Post, Log, Unlogged, Finish, WorkerFails, WorkerOnly, ownerVars
<1> USE <1>0
<1>3. CASE Claim(s) \/ Drain(s) \/ Ready(s) \/ Post(s)
  <2>1. UNCHANGED <<tries, logged, troubles>>
    BY <1>3 DEF Claim, Drain, Ready, Post, Queue!Begin, queueVars, outVars, envVars
  <2>2. \A n \in JobId : state'[n] = "done" => state[n] = "done"
    BY <1>1, <1>3 DEF Claim, Drain, Ready, Post, Queue!Begin, Queue!Set, queueVars, JobTypeOK
  <2>3. \A t \in Slot : wpc'[t] = "end" => wpc[t] = "end" /\ job'[t] = job[t]
    BY <1>1, <1>3 DEF Claim, Drain, Ready, Post, WGoto, JobTypeOK
  <2> QED
    BY <2>1, <2>2, <2>3 DEF Ledger
<1>4. CASE Log(s) /\ Settled(s)
  <2>1. UNCHANGED <<tries, state, job, troubles>>
    BY <1>4 DEF Log, queueVars, envVars
  <2>2. logged' = [logged EXCEPT ![job[s]] = @ \cup {result[s]}]
    BY <1>4 DEF Log
  <2>3. \A n \in JobId : logged[n] \subseteq logged'[n]
    BY <1>1, <2>2 DEF JobTypeOK
  <2>4. job[s] \in JobId /\ wpc' = [wpc EXCEPT ![s] = "end"]
    BY <1>1, <1>4 DEF Log, WGoto
  <2>5. logged'[job[s]] \cap Final # {}
    BY <1>1, <1>4, <2>2, <2>4 DEF JobTypeOK, Settled
  <2>6. \A t \in Slot : wpc'[t] = "end" => t = s \/ (wpc[t] = "end" /\ job[t] \in JobId)
    BY <1>1, <2>4 DEF JobTypeOK, JobInv, Holding
  <2> QED
    BY <1>4, <2>1, <2>3, <2>5, <2>6 DEF Ledger, Log
<1>5. CASE Log(s) /\ ~Settled(s)
  <2>1. Queue!Err(job[s]) /\ Free(s) /\ UNCHANGED troubles /\ wpc[s] = "log"
    BY <1>5 DEF Log, envVars
  <2>2. logged' = [logged EXCEPT ![job[s]] = @ \cup {"retry"}] /\ job[s] \in JobId
    BY <1>1, <1>5, <2>1 DEF Log, Settled, JobTypeOK, Result
  <2>3. \A n \in JobId : logged[n] \subseteq logged'[n]
    BY <1>1, <2>2 DEF JobTypeOK
  <2>4. \A n \in JobId \ {job[s]} : tries'[n] = tries[n] /\ state'[n] = state[n]
    BY <1>1, <2>1 DEF JobTypeOK, Queue!Err, Queue!Set
  <2>5. "retry" \in logged'[job[s]] /\ state'[job[s]] # "done"
    BY <1>1, <2>1, <2>2 DEF JobTypeOK, Queue!Err, Queue!Set
  <2>6. \A t \in Slot : wpc'[t] = "end" => wpc[t] = "end" /\ job'[t] = job[t] /\ job[t] \in JobId
    BY <1>1, <2>1 DEF Free, JobTypeOK, JobInv, Holding
  <2> QED
    BY <1>5, <2>1, <2>3, <2>4, <2>5, <2>6 DEF Ledger, Log
<1>8. CASE Unlogged(s)
  <2>1. /\ Queue!Err(job[s]) /\ Free(s) /\ UNCHANGED <<logged, troubles>>
        /\ wpc[s] = "log" /\ endpoint = "gone"
    BY <1>8 DEF Unlogged, outVars, envVars
  <2>2. \A n \in JobId : state'[n] = "done" => state[n] = "done"
    BY <1>1, <2>1 DEF JobTypeOK, Queue!Err, Queue!Set
  <2>3. \A t \in Slot : wpc'[t] = "end" => wpc[t] = "end" /\ job'[t] = job[t]
    BY <1>1, <2>1 DEF Free, JobTypeOK
  <2> QED
    BY <2>1, <2>2, <2>3 DEF Ledger
<1>6. CASE Finish(s)
  <2>1. Queue!Finish(job[s]) /\ Free(s) /\ UNCHANGED <<logged, troubles>> /\ wpc[s] = "end"
    BY <1>6 DEF Finish, Settle, envVars, outVars
  <2>2. \A n \in JobId : tries'[n] = tries[n] /\ (state'[n] = state[n] \/ n = job[s])
    BY <1>1, <2>1 DEF JobTypeOK, Queue!Finish, Queue!Set
  <2>3. \A t \in Slot : wpc'[t] = "end" => wpc[t] = "end" /\ job'[t] = job[t]
    BY <1>1, <2>1 DEF Free, JobTypeOK
  <2> QED
    BY <2>1, <2>2, <2>3 DEF Ledger
<1>7. CASE WorkerFails(s)
  <2>1. /\ Queue!Err(job[s]) /\ Free(s) /\ UNCHANGED logged /\ troubles' = troubles + 1
        /\ wpc[s] # "idle"
    BY <1>7 DEF WorkerFails, Trouble, outVars
  <2>2. \A n \in JobId : tries'[n] = tries[n] \/ tries'[n] = tries[n] + 1
    BY <1>1, <2>1 DEF JobTypeOK, Queue!Err
  <2>3. \A n \in JobId : tries[n] \in Nat
    BY <1>1, DeliveryConstAssumption DEF JobTypeOK
  <2>4. \A n \in JobId : state'[n] = "done" => state[n] = "done"
    BY <1>1, <2>1 DEF JobTypeOK, Queue!Err, Queue!Set
  <2>5. \A t \in Slot : wpc'[t] = "end" => wpc[t] = "end" /\ job'[t] = job[t]
    BY <1>1, <2>1 DEF Free, JobTypeOK
  <2> QED
    BY <1>1, <2>1, <2>2, <2>3, <2>4, <2>5 DEF Ledger
<1> QED
  BY <1>3, <1>4, <1>5, <1>6, <1>7, <1>8 DEF Work

\* A success is heard once but for troubles, and without them it is logged and
\* ends the job.
LEMMA SuccessStep ==
    ASSUME BillTypeOK, JobInv, Ledger, Successes, NEW s \in Slot, Work(s)
    PROVE  Successes'
<1>1. JobTypeOK /\ JobTypeOK' /\ JobInv'
  BY JobStep DEF JobInv
<1>2. SUFFICES ASSUME NEW n \in JobId PROVE HeardOnce(n)' /\ (troubles' = 0 => LoggedEnds(n)')
  BY DEF Successes
<1>3. troubles \in Nat /\ heard[n] \in Nat
  BY <1>1 DEF BillTypeOK, JobTypeOK
<1>4. HeardOnce(n) /\ (troubles = 0 => LoggedEnds(n))
  BY DEF Successes
<1>5. \A t \in Slot : t # s => wpc'[t] = wpc[t] /\ job'[t] = job[t] /\ result'[t] = result[t]
  BY <1>1 DEF Work, Claim, Drain, Ready, Post, Log, Unlogged, Finish, WorkerFails, WGoto, Free, JobTypeOK
<1>6. wpc[s] # "idle" => job[s] \in JobId /\ state[job[s]] = "running"
  BY DEF JobInv, JobTypeOK, Holding
<1>7. wpc[s] # "idle" => \A t \in Slot \ {s} : job[t] # job[s]
  BY DEF JobInv, Alone, Holding
<1>0. UNCHANGED endpoint
  BY DEF Work, Claim, Drain, Ready, Post, Log, Unlogged, Finish, WorkerFails, WorkerOnly, ownerVars
<1> USE <1>0
<1>8. CASE WorkerFails(s)
  <2>1. troubles' = troubles + 1 /\ heard' = heard
    BY <1>8 DEF WorkerFails, Trouble, outVars
  <2>2. heard[n] <= troubles + 1
    BY <1>3, <1>4 DEF HeardOnce
  <2>3. heard'[n] <= troubles' /\ troubles' # 0
    BY <1>3, <2>1, <2>2
  <2> QED
    BY <2>3 DEF HeardOnce
<1> DEFINE Quiet == ~WorkerFails(s) /\ troubles' = troubles
<1>9. Quiet \/ WorkerFails(s)
  BY DEF Work, Claim, Drain, Ready, Post, Log, Unlogged, Finish, envVars
<1>10. CASE Quiet /\ n # job[s] /\ ~Claim(s)
  <2>1. state'[n] = state[n] /\ heard'[n] = heard[n] /\ logged'[n] = logged[n]
    BY <1>1, <1>10 DEF Work, Drain, Ready, Post, Log, Unlogged, Finish, Settle, Queue!Finish, Queue!Err,
       Queue!Set, queueVars, outVars, JobTypeOK
  <2>2. \A t \in Slot : job[t] = n => job'[t] = n /\ wpc'[t] = wpc[t] /\ result'[t] = result[t]
    BY <1>5, <1>10
  <2>3. \A t \in Slot : job'[t] = n => job[t] = n
    BY <1>1, <1>10 DEF Work, Drain, Ready, Post, Log, Unlogged, Finish, Free, JobTypeOK, JobId, NoJob
  <2> QED
    BY <1>4, <1>10, <2>1, <2>2, <2>3 DEF HeardOnce, LoggedEnds, Silent, Settling
<1>11. CASE Quiet /\ Claim(s)
  <2>1. \E m \in JobId : Queue!Begin(m) /\ UNCHANGED outVars
    BY <1>11 DEF Claim
  <2>2. state[n] = "done" => state'[n] = "done"
    BY <1>1, <2>1 DEF JobTypeOK, Queue!Begin, Queue!Set
  <2>3. wpc[s] = "idle" /\ wpc'[s] = "read"
    BY <1>1, <1>11 DEF Claim, WGoto, JobTypeOK
  <2>4. \A t \in Slot : job[t] = n => t # s /\ job'[t] = n
    BY <1>1, <1>5, <2>3 DEF JobInv, Holding, JobId, NoJob
  <2> QED
    BY <1>4, <1>5, <1>11, <2>1, <2>2, <2>3, <2>4 DEF HeardOnce, LoggedEnds, Silent, Settling, outVars
<1>12. CASE Quiet /\ n = job[s] /\ (Drain(s) \/ Ready(s) \/ Post(s))
  <2>1. wpc[s] \in {"read", "post"} /\ UNCHANGED <<state, job, logged>>
    BY <1>12 DEF Drain, Ready, Post, WGoto, queueVars, outVars
  <2>2. /\ heard[n] <= troubles \/ (heard[n] <= troubles + 1 /\ Silent(n))
        /\ troubles = 0 => "success" \notin logged[n]
    BY <1>4, <1>6, <1>7, <1>12, <2>1 DEF HeardOnce, LoggedEnds, Silent, Settling
  <2>3. \/ heard'[n] = heard[n]
        \/ heard'[n] = heard[n] + 1 /\ wpc'[s] = "log" /\ result'[s] = "success"
    <3>1. CASE Post(s)
      BY <1>1, <1>12, <3>1 DEF Post, WGoto, JobTypeOK
    <3>2. CASE Drain(s) \/ Ready(s)
      BY <3>2 DEF Drain, Ready, outVars
    <3> QED
      BY <1>12, <3>1, <3>2
  <2>4. Silent(n) => Silent(n)' /\ heard'[n] = heard[n]
    <3>1. Silent(n) => Drain(s)
      BY <1>12 DEF Silent, Ready, Post, WGoto
    <3>2. Drain(s) => heard' = heard /\ job' = job /\ wpc' = [wpc EXCEPT ![s] = "log"]
      BY DEF Drain, WGoto, outVars
    <3> QED
      BY <1>1, <3>1, <3>2 DEF Silent, JobTypeOK
  <2>5. \/ heard'[n] <= troubles'
        \/ heard'[n] <= troubles' + 1 /\ (Silent(n)' \/ Settling(s)')
    BY <1>3, <1>12, <2>2, <2>3, <2>4 DEF Settling
  <2> QED
    BY <1>12, <2>1, <2>2, <2>5 DEF HeardOnce, LoggedEnds
<1>13. CASE Quiet /\ n = job[s] /\ Log(s)
  <2>1. wpc[s] = "log" /\ heard' = heard
    BY <1>13 DEF Log
  <2>2. heard[n] <= troubles \/ (heard[n] <= troubles + 1 /\ result[s] = "success")
    BY <1>4, <1>6, <1>7, <1>13, <2>1 DEF HeardOnce, Silent, Settling, Log
  <2>3. troubles = 0 => "success" \notin logged[n]
    BY <1>4, <1>6, <1>7, <1>13, <2>1 DEF LoggedEnds
  <2>4. CASE Settled(s)
    <3>1. wpc'[s] = "end" /\ job'[s] = n
      BY <1>1, <1>13, <2>4 DEF Log, WGoto, JobTypeOK
    <3>2. heard'[n] <= troubles' \/ heard'[n] <= troubles' + 1
      BY <1>13, <2>1, <2>2
    <3> QED
      BY <3>1, <3>2 DEF HeardOnce, LoggedEnds, Silent, Settling
  <2>5. CASE ~Settled(s)
    <3>1. result[s] = "retry"
      BY <1>1, <2>5 DEF Settled, JobTypeOK, Result
    <3>2. troubles = 0 => "success" \notin logged'[n]
      BY <1>1, <1>13, <2>3, <3>1 DEF Log, JobTypeOK
    <3> QED
      BY <1>13, <2>1, <2>2, <3>1, <3>2 DEF HeardOnce, LoggedEnds
  <2> QED
    BY <2>4, <2>5
<1>15. CASE Quiet /\ n = job[s] /\ Unlogged(s)
  <2>1. wpc[s] = "log" /\ heard' = heard /\ logged' = logged /\ endpoint = "gone"
    BY <1>15 DEF Unlogged, outVars
  <2>2. logged[n] = {}
    BY <2>1 DEF Ledger
  <2>3. UNCHANGED endpoint /\ \A t \in Slot : job'[t] # n
    BY <1>1, <1>7, <1>15, <2>1 DEF Unlogged, Free, WorkerOnly, ownerVars, JobTypeOK, JobId, NoJob
  <2> QED
    BY <1>3, <1>4, <1>7, <1>15, <2>1, <2>2, <2>3 DEF HeardOnce, LoggedEnds, Silent
<1>14. CASE Quiet /\ n = job[s] /\ Finish(s)
  <2>1. state'[n] = "done" /\ UNCHANGED outVars
    BY <1>1, <1>6, <1>14 DEF Finish, Settle, Queue!Finish, Queue!Set, JobTypeOK
  <2> QED
    BY <1>4, <1>14, <2>1 DEF HeardOnce, LoggedEnds, outVars
<1> QED
  BY <1>8, <1>9, <1>10, <1>11, <1>12, <1>13, <1>14, <1>15 DEF Work

\* Everybody else: a dispatch stores a job, a crash sends the running ones back
\* to wait, and the rest does not touch them.
LEMMA WorkStep == BillTypeOK /\ ListInv /\ WorkInv /\ [Next]_vars => WorkInv'
<1> SUFFICES ASSUME BillTypeOK, ListInv, WorkInv, [Next]_vars PROVE WorkInv'
  OBVIOUS
<1>1. JobTypeOK /\ troubles \in Nat
  BY DEF WorkInv, JobInv, BillTypeOK
<1>2. troubles' >= troubles /\ troubles' \in Nat
  BY AccountMove, TroublesGrow
<1>3. ASSUME UNCHANGED <<queueVars, slotVars, outVars>>,
             endpoint' = endpoint \/ (endpoint # "gone" /\ (endpoint' = "gone" => ~Referenced))
      PROVE  WorkInv'
  <2>1. JobInv'
    BY <1>3 DEF WorkInv, JobInv, JobTypeOK, Holding, Alone, Attempts, queueVars, slotVars, outVars
  <2>2. Ledger'
    BY <1>1, <1>2, <1>3, DeliveryConstAssumption
       DEF WorkInv, Ledger, JobTypeOK, Referenced, queueVars, slotVars, outVars
  <2>3. \A n \in JobId : HeardOnce(n)'
    BY <1>1, <1>2, <1>3
       DEF WorkInv, Successes, JobTypeOK, HeardOnce, Silent, Settling, queueVars, slotVars, outVars
  <2>4. troubles' = 0 => \A n \in JobId : LoggedEnds(n)'
    BY <1>1, <1>2, <1>3 DEF WorkInv, Successes, LoggedEnds, queueVars, slotVars, outVars
  <2> QED
    BY <2>1, <2>2, <2>3, <2>4 DEF WorkInv, Successes
<1>4. ASSUME NEW d \in Reader, Push(d) PROVE WorkInv'
  <2>1. PICK n \in JobId : Queue!Submit(n)
    BY <1>4 DEF Push
  <2>2. UNCHANGED <<slotVars, outVars, troubles, tries, endpoint>>
    BY <1>4, <2>1 DEF Push, DispatchOnly, envVars, ownerVars, Queue!Submit
  <2>3. state[n] = "none" /\ state' = [state EXCEPT ![n] = "waiting"]
    BY <2>1 DEF Queue!Submit, Queue!Set
  <2>4. JobInv'
    BY <1>1, <2>2, <2>3
       DEF WorkInv, JobInv, JobTypeOK, JobState, Holding, Alone, Attempts, slotVars, outVars
  <2>5. Ledger'
    BY <1>1, <2>2, <2>3 DEF WorkInv, Ledger, JobTypeOK, slotVars, outVars
  <2>6. \A m \in JobId : state[m] = "done" => state'[m] = "done"
    BY <1>1, <2>3 DEF JobTypeOK
  <2>7. Successes'
    BY <2>2, <2>6 DEF WorkInv, Successes, HeardOnce, LoggedEnds, Silent, Settling, slotVars, outVars
  <2> QED
    BY <2>4, <2>5, <2>7 DEF WorkInv
<1>5. ASSUME NEW s \in Slot, Work(s) PROVE WorkInv'
  BY <1>5, JobStep, LedgerStep, SuccessStep DEF WorkInv
<1>6. CASE Crash
  <2> DEFINE R == {n \in JobId : state[n] = "running"}
  <2>1. /\ state' = [n \in JobId |-> IF n \in R THEN "waiting" ELSE state[n]]
        /\ UNCHANGED <<tries, outVars, endpoint>>
    BY <1>6 DEF Crash, Queue!Interrupt
  <2>2. /\ wpc' = [s \in Slot |-> "idle"] /\ job' = [s \in Slot |-> NoJob]
        /\ result' = [s \in Slot |-> "retry"]
    BY <1>6 DEF Crash
  <2>3. troubles' = troubles + 1
    BY <1>6 DEF Crash, Restart, Trouble
  <2>4. JobTypeOK'
    BY <1>1, <2>1, <2>2 DEF JobTypeOK, JobState, Stage, Result, outVars
  <2>5. Holding' /\ Alone'
    BY <2>2 DEF Holding, Alone
  <2>6. Attempts'
    BY <2>1 DEF WorkInv, JobInv, Attempts
  <2>7. Ledger'
    BY <1>1, <1>2, <2>1, <2>2, DeliveryConstAssumption DEF WorkInv, Ledger, JobTypeOK, outVars
  <2>8. \A n \in JobId : heard'[n] <= troubles'
    BY <1>1, <2>1, <2>3 DEF WorkInv, Successes, HeardOnce, JobTypeOK, outVars
  <2>9. Successes'
    BY <1>1, <2>3, <2>8 DEF Successes, HeardOnce
  <2> QED
    BY <2>4, <2>5, <2>6, <2>7, <2>9 DEF WorkInv, JobInv
<1>7. ASSUME NEW d \in Reader, UseList(d) \/ LoadList(d) \/ KeepList(d) \/ DispatchFails(d)
      PROVE  WorkInv'
  BY <1>3, <1>7 DEF UseList, LoadList, KeepList, DispatchFails, DispatchOnly, ownerVars
<1>8. CASE OwnerStarts \/ OwnerWrites \/ OwnerInvalidates \/ OwnerFails \/ ListExpires
  BY <1>3, <1>8 DEF OwnerStarts, OwnerWrites, OwnerInvalidates, OwnerFails, ListExpires, Elsewhere,
                    ListInv, Present
<1>9. CASE UNCHANGED hookVars \/ UNCHANGED vars
  BY <1>3, <1>9 DEF hookVars, ownerVars, vars
<1> QED
  BY <1>4, <1>5, <1>6, <1>7, <1>8, <1>9 DEF Next, Dispatch

-----------------------------------------------------------------------------
(* Theorems.                                                                *)

DeliveryInv == BillInv /\ ListInv /\ WorkInv

\* The invariant of the whole holds in every behaviour.
LEMMA DeliveryCorrect == Spec => []DeliveryInv
<1>1. Init => DeliveryInv
  <2> SUFFICES ASSUME Init PROVE DeliveryInv
    OBVIOUS
  <2>1. BillInv
    BY BillInvInit DEF Init
  <2>2. ListInv
    BY DEF Init, ListInv, SendTypeOK, Asked, Loads, ListAgrees, Present
  <2>3. JobInv
    BY DeliveryConstAssumption
       DEF Init, Queue!Init, JobInv, JobTypeOK, JobState, Stage, Result, Holding, Alone, Attempts, NoJob
  <2>4. Ledger /\ Successes
    BY DEF Init, BillInit, Queue!Init, Ledger, Successes, HeardOnce, LoggedEnds
  <2> QED
    BY <2>1, <2>2, <2>3, <2>4 DEF DeliveryInv, WorkInv
<1>2. DeliveryInv /\ [Next]_vars => DeliveryInv'
  BY AccountMove, BillInvStep, ListStep, WorkStep DEF DeliveryInv, BillInv
<1> QED
  BY <1>1, <1>2, PTL DEF Spec

\* Every variable has its type in every behaviour.
THEOREM DeliveryTypes == Spec => []TypeOK
<1>1. DeliveryInv => TypeOK
  BY DEF DeliveryInv, BillInv, ListInv, SendTypeOK, Asked, WorkInv, JobInv, JobTypeOK, JobState,
         Stage, Holding, TypeOK
<1> QED
  BY <1>1, DeliveryCorrect, PTL

\* A suspension the cron imposed is backed by a debt and no grace, or some request
\* is still following up, unless a write rested on an overtaken reading.
THEOREM Suspensions == Spec => []SuspensionIsBacked
<1>1. BillInv => SuspensionIsBacked
  BY DEF BillInv, SuspensionInv
<1> QED
  BY <1>1, BillInvHolds, PTL

\* The cached status is the tenant's, or its invalidation is on the way, or the
\* reader that filled it was late.
THEOREM StatusCache == Spec => []CacheAgrees
<1>1. BillInv => CacheAgrees
  BY DEF BillInv, CacheInv
<1> QED
  BY <1>1, BillInvHolds, PTL

\* The same of the cached list of endpoints.
THEOREM EndpointCache == Spec => []ListAgrees
<1>1. DeliveryInv => ListAgrees
  BY DEF DeliveryInv, ListInv
<1> QED
  BY <1>1, DeliveryCorrect, PTL

\* A delivery that ended well has a final result in the log and an endpoint; one
\* that was given up was logged as a retry, or each of its attempts failed outside
\* the try, or its endpoint is gone and there is no entry.
THEOREM EndsAreLogged == Spec => []EndedIsLogged
<1>1. DeliveryInv => EndedIsLogged
  BY WorkImplies DEF DeliveryInv, BillInv
<1> QED
  BY <1>1, DeliveryCorrect, PTL

\* Without failures and restarts an endpoint hears of an event once.
THEOREM HeardOnlyOnce == Spec => []SuccessEnds
<1>1. DeliveryInv => SuccessEnds
  BY WorkImplies DEF DeliveryInv, BillInv
<1> QED
  BY <1>1, DeliveryCorrect, PTL
=============================================================================
