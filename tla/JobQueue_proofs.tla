-------------------------- MODULE JobQueue_proofs --------------------------
(***************************************************************************)
(* Proofs about JobQueue.  Type correctness needs no assumption.  The rest *)
(* is proved for one live process at a time (~Overlap, which poll states   *)
(* in a comment).  Exclusion by serial key needs leases that cover their   *)
(* handlers as well (LeaseCovers, which registerWorker asks for); all else *)
(* does without, as long as the cleanup endpoint is not called: Protected. *)
(* The run job_queue_cleanup shows what happens when it is.                *)
(***************************************************************************)
EXTENDS JobQueue, FiniteSetTheorems, TLAPS

-----------------------------------------------------------------------------
(* Type correctness.                                                       *)

\* Freeing a slot keeps the types of the slots.
LEMMA ReleaseType ==
    ASSUME TypeOK, NEW w \in Worker, Release(w)
    PROVE  /\ work' \in [Worker -> Job \cup {NoJob}]
           /\ stage' \in [Worker -> {"idle", "claimed", "handler"}]
           /\ tries' \in [Worker -> Nat]
  BY DEF TypeOK, Release

\* Putting rows back keeps the types of the rows.
LEMMA RequeueType ==
    ASSUME TypeOK, NEW J, Requeue(J)
    PROVE  /\ status' \in [Job -> Row]
           /\ owner' \in [Job -> Instance \cup {NoOne}]
           /\ leased' \in [Job -> BOOLEAN]
           /\ UNCHANGED <<attempts, age, visible, dedup>>
  BY DEF TypeOK, Requeue, Row

\* The count of failed statements stays within its bound.
LEMMA FaultType ==
    ASSUME TypeOK, NEW m \in Mishap, Fault(m) PROVE faults' \in [Mishap -> 0..MaxFaults]
  BY ConstAssumption DEF TypeOK, Fault, Mishap

\* A worker that is not idle runs a job.
WorkIffBusy == \A w \in Worker : stage[w] = "idle" <=> work[w] = NoJob

\* The initial states are well typed and every slot is idle.
THEOREM TypeInit == Init => TypeOK /\ WorkIffBusy
  BY ConstAssumption DEF Init, TypeOK, Row, WorkIffBusy, Worker, NoJob

\* The steps on one row keep the types.
LEMMA RowStepType ==
    ASSUME TypeOK, WorkIffBusy, NEW j \in Job, RowStep(j)
    PROVE  TypeOK' /\ WorkIffBusy'
  <1>. USE DEF TypeOK, Row, WorkIffBusy, rowVars, pollVars, slotVars
  <1>1. CASE FallDue(j) BY <1>1 DEF FallDue
  <1>2. CASE LeaseLapses(j) BY <1>2 DEF LeaseLapses
  <1>3. CASE Stamp(j) BY <1>3 DEF Stamp
  <1>4. CASE Enqueue(j) BY <1>4 DEF Enqueue
  <1>5. CASE DeletePending(j) BY <1>5 DEF DeletePending, Cancellable, OffTheClock
  <1>6. CASE PurgeOld(j) BY <1>6 DEF PurgeOld
  <1>7. QED BY <1>1, <1>2, <1>3, <1>4, <1>5, <1>6 DEF RowStep

\* The steps of runJob keep the types; what is running is always a job.
LEMMA RunStepType ==
    ASSUME TypeOK, WorkIffBusy, NEW w \in Worker, RunStep(w)
    PROVE  TypeOK' /\ WorkIffBusy'
  <1>. USE DEF rowVars, pollVars, slotVars
  <1>1. CASE Load(w)
    <2>1. work[w] \in Job BY <1>1 DEF Load, RowGone, TypeOK, WorkIffBusy
    <2>2. CASE status[work[w]] = "deleted"
      BY <1>1, <2>1, <2>2, ReleaseType DEF Load, RowGone, TypeOK, WorkIffBusy, Release
    <2>3. CASE status[work[w]] # "deleted"
      BY <1>1, <2>1, <2>3 DEF Load, RowGone, TypeOK, WorkIffBusy, NoJob
    <2>4. QED BY <2>2, <2>3
  <1>2. CASE Complete(w)
    <2>1. work[w] \in Job BY <1>2 DEF Complete, TypeOK, WorkIffBusy
    <2>2. QED BY <1>2, <2>1 DEF Complete, TypeOK, Row, WorkIffBusy, Release, OffTheClock
  <1>3. CASE Fail(w)
    <2>1. work[w] \in Job BY <1>3 DEF Fail, Attempt, Exhausted, FreesKey, TypeOK, WorkIffBusy
    <2>2. QED
      BY <1>3, <2>1
         DEF Fail, Attempt, Exhausted, FreesKey, TypeOK, Row, WorkIffBusy, Release, OffTheClock
  <1>4. CASE Vanish(w)
    BY <1>4 DEF Vanish, TypeOK, WorkIffBusy, Release
  <1>5. CASE Strand(w)
    BY <1>5, FaultType DEF Strand, TypeOK, WorkIffBusy, Release, Mishap
  <1>6. QED BY <1>1, <1>2, <1>3, <1>4, <1>5 DEF RunStep

\* A poll chooses among the rows it is given, and is given eligible ones.
LEMMA ChosenEligible ==
    ASSUME NEW i \in Instance, NEW q \in Queue, NEW f, NEW R \in SUBSET Eligible(q)
    PROVE  Chosen(i, q, R, f) \subseteq R /\ R \subseteq Job
  BY DEF Chosen, Leaders, Eligible

\* What the SELECT of a poll does to the batch.
LEMMA ScanChooses ==
    ASSUME NEW i \in Instance, NEW q \in Queue, Scan(i, q), TypeOK
    PROVE  \/ batch' = batch /\ Fault("failed")
           \/ \E R \in SUBSET Eligible(q) : \E f \in Orders(R) :
                /\ batch' = [batch EXCEPT ![i] = Chosen(i, q, R, f)]
                /\ (R = Eligible(q) /\ UNCHANGED faults) \/ Fault("skipped")
  BY DEF Scan

\* The steps of a poll keep the types.
LEMMA PollStepType ==
    ASSUME TypeOK, WorkIffBusy, NEW i \in Instance, PollStep(i)
    PROVE  TypeOK' /\ WorkIffBusy'
  <1>. USE DEF rowVars, pollVars, slotVars, WorkIffBusy
  <1>1. CASE ReapingPoll(i)
    BY <1>1, RequeueType DEF ReapingPoll, Orphan, WakeUp, TypeOK, Requeue
  <1>2. CASE PlainPoll(i) BY <1>2 DEF PlainPoll, WakeUp, TypeOK
  <1>3. ASSUME NEW q \in Queue, Scan(i, q) PROVE TypeOK' /\ WorkIffBusy'
    <2>1. batch' = batch \/ \E C \in SUBSET Job : batch' = [batch EXCEPT ![i] = C]
      BY <1>3, ScanChooses, ChosenEligible
    <2>2. batch' \in [Instance -> SUBSET Job] BY <2>1 DEF TypeOK
    <2>3. todo' \in [Instance -> SUBSET Queue] BY <1>3 DEF Scan, TypeOK
    <2>4. faults' \in [Mishap -> 0..MaxFaults] BY <1>3, FaultType DEF Scan, TypeOK, Mishap
    <2>5. QED BY <1>3, <2>2, <2>3, <2>4 DEF Scan, TypeOK
  <1>4. CASE Claim(i)
    <2>1. PICK g \in [Slot -> batch[i] \cup {NoJob}] :
             /\ work' = [w \in Worker |-> IF w[1] = i /\ g[w[2]] # NoJob
                                          THEN g[w[2]] ELSE work[w]]
             /\ stage' = [w \in Worker |-> IF w[1] = i /\ g[w[2]] # NoJob
                                           THEN "claimed" ELSE stage[w]]
      BY <1>4 DEF Claim
    <2>2. batch[i] \subseteq Job BY DEF TypeOK
    <2>3. work' \in [Worker -> Job \cup {NoJob}]
      BY <2>1, <2>2 DEF TypeOK, Worker
    <2>4. stage' \in [Worker -> {"idle", "claimed", "handler"}]
      BY <2>1 DEF TypeOK
    <2>5. WorkIffBusy'
      BY <2>1 DEF TypeOK
    <2>6. /\ status' \in [Job -> Row] /\ leased' \in [Job -> BOOLEAN]
          /\ owner' \in [Job -> Instance \cup {NoOne}]
      BY <1>4 DEF Claim, TypeOK, Row
    <2>7. batch' \in [Instance -> SUBSET Job] BY <1>4 DEF Claim, TypeOK
    <2>8. QED BY <1>4, <2>3, <2>4, <2>5, <2>6, <2>7 DEF Claim, TypeOK
  <1>5. CASE ClaimFails(i)
    BY <1>5, FaultType DEF ClaimFails, TypeOK, Mishap
  <1>6. CASE EndPoll(i) BY <1>6 DEF EndPoll, TypeOK
  <1>7. QED BY <1>1, <1>2, <1>3, <1>4, <1>5, <1>6 DEF PollStep

\* The types of the state and the one fact about slots they need are inductive.
THEOREM Typed == Spec => [](TypeOK /\ WorkIffBusy)
  <1>1. TypeOK /\ WorkIffBusy /\ [Next]_vars => TypeOK' /\ WorkIffBusy'
    <2>1. SUFFICES ASSUME TypeOK, WorkIffBusy, [Next]_vars
                   PROVE  TypeOK' /\ WorkIffBusy'
      OBVIOUS
    <2>2. ASSUME NEW i \in Instance, Start(i) PROVE TypeOK' /\ WorkIffBusy'
      BY <2>1, <2>2 DEF Start, TypeOK, WorkIffBusy, rowVars, slotVars
    <2>3. ASSUME NEW i \in Instance, Crash(i) PROVE TypeOK' /\ WorkIffBusy'
      BY <2>1, <2>3 DEF Crash, TypeOK, WorkIffBusy, rowVars
    <2>4. CASE CleanupOrphans
      BY <2>1, <2>4, RequeueType
         DEF CleanupOrphans, TypeOK, WorkIffBusy, Requeue, pollVars, slotVars
    <2>5. CASE UNCHANGED vars
      BY <2>1, <2>5 DEF TypeOK, WorkIffBusy, vars, rowVars, pollVars, slotVars
    <2>7. CASE Tick
      BY <2>1, <2>7 DEF Tick, TypeOK, WorkIffBusy, pollVars, slotVars
    <2>6. QED
      BY <2>1, <2>2, <2>3, <2>4, <2>5, <2>7, RowStepType, RunStepType, PollStepType DEF Next
  <1>2. QED BY <1>1, TypeInit, PTL DEF Spec

\* Every variable keeps its type in every behaviour, whatever the constants.
THEOREM TypeCorrect == Spec => []TypeOK
  BY Typed, PTL

-----------------------------------------------------------------------------
(* Exclusion.  A handler runs only while its row carries the name of its   *)
(* process, and a lease if leases cover handlers; so it is enough that     *)
(* leased rows exclude each other.  Since the UPDATE of a claim does not   *)
(* look at the rows again, what the SELECT saw has to stay true of the     *)
(* batch until then.                                                       *)

\* A running handler is safe from every requeue: the reaper passes over the
\* rows of its own incarnation, and the cleanup endpoint over leased ones.
Protected == LeaseCovers \/ ~Cleanup

SameSerial(j, k) == SerialKey[j] # NoKey /\ SerialKey[j] = SerialKey[k]
Leased(j) == status[j] = "processing" /\ leased[j]

OneProcess == \A i, o \in Instance : Up(i) /\ Up(o) => i = o

MemoryNeedsProcess ==
    /\ \A w \in Worker : Busy(w) => Up(w[1])
    /\ \A i \in Instance : todo[i] # {} \/ batch[i] # {} => Up(i)

HeldRow ==
    \A w \in Worker : Busy(w) =>
        \/ stage[w] = "claimed" /\ status[work[w]] = "deleted"
        \/ /\ status[work[w]] = "processing" /\ owner[work[w]] = w[1]
           /\ LeaseCovers => leased[work[w]]

BatchUnclaimed ==
    \A i \in Instance : \A j \in batch[i] :
        /\ status[j] \in {"pending", "deleted"}
        /\ \A w \in Worker : work[w] # j

BatchSerial ==
    \A i \in Instance : \A j \in batch[i] :
        /\ \A k \in batch[i] : SameSerial(j, k) => j = k
        /\ \A p \in Job : SameSerial(j, p) => ~Leased(p)

OneSlotPerJob ==
    \A v, w \in Worker : Busy(v) /\ work[v] = work[w] => v = w

LeaseExclusion ==
    \A j, k \in Job : Leased(j) /\ Leased(k) /\ SameSerial(j, k) => j = k

ExclusionInv ==
    /\ TypeOK /\ WorkIffBusy
    /\ OneProcess /\ MemoryNeedsProcess
    /\ HeldRow /\ BatchUnclaimed /\ BatchSerial
    /\ OneSlotPerJob /\ LeaseExclusion

\* The conjuncts of ExclusionInv that are not about types.
Exclusion ==
    /\ OneProcess /\ MemoryNeedsProcess
    /\ HeldRow /\ BatchUnclaimed /\ BatchSerial
    /\ OneSlotPerJob /\ LeaseExclusion

\* NoJob is not the id of a row.
LEMMA NoJobFresh == NoJob \notin Job
  BY ConstAssumption DEF NoJob

\* Only a row that was never there is enqueued.
LEMMA EnqueueAbsent ==
    ASSUME NEW j \in Job, Enqueue(j)
    PROVE  status[j] = "absent"
  BY ConstAssumption DEF Enqueue

\* Exclusion does not depend on the clock.
LEMMA ClockExclusion ==
    ASSUME ExclusionInv,
           UNCHANGED <<status, leased, owner, pollVars, work, stage>>
    PROVE  Exclusion'
  BY DEF ExclusionInv, Exclusion, OneProcess, MemoryNeedsProcess, HeldRow,
         BatchUnclaimed, BatchSerial, OneSlotPerJob, LeaseExclusion, Leased,
         SameSerial, Busy, Up, pollVars

\* The steps on one row keep the exclusion invariant.
LEMMA RowStepExclusion ==
    ASSUME ExclusionInv, NEW j \in Job, RowStep(j)
    PROVE  Exclusion'
  <1>. USE DEF ExclusionInv, TypeOK, WorkIffBusy, rowVars, pollVars, slotVars
  <1>1. CASE FallDue(j) \/ Stamp(j) BY <1>1, ClockExclusion DEF FallDue, Stamp
  <1>2. CASE LeaseLapses(j)
    <2>1. OneProcess' BY <1>2 DEF LeaseLapses, OneProcess, Up
    <2>2. MemoryNeedsProcess' BY <1>2 DEF LeaseLapses, MemoryNeedsProcess,
       Busy, Up
    <2>3. HeldRow' BY <1>2 DEF LeaseLapses, HeldRow, OneSlotPerJob, Leased,
       Busy
    <2>4. BatchUnclaimed' BY <1>2 DEF LeaseLapses, BatchUnclaimed, HeldRow,
       Leased, Busy
    <2>5. BatchSerial' BY <1>2 DEF LeaseLapses, BatchSerial, BatchUnclaimed,
       HeldRow, Leased, SameSerial, Busy
    <2>6. OneSlotPerJob' BY <1>2 DEF LeaseLapses, OneSlotPerJob, Busy
    <2>7. LeaseExclusion' BY <1>2 DEF LeaseLapses, LeaseExclusion, Leased,
       SameSerial
    <2>9. QED BY <2>1, <2>2, <2>3, <2>4, <2>5, <2>6, <2>7 DEF Exclusion
  <1>3. CASE Enqueue(j)
    <2>1. OneProcess' BY <1>3 DEF Enqueue, OneProcess, Up
    <2>2. MemoryNeedsProcess' BY <1>3 DEF Enqueue, MemoryNeedsProcess, Busy, Up
    <2>3. HeldRow' BY <1>3, EnqueueAbsent DEF Enqueue, HeldRow, OneSlotPerJob,
       Leased, Busy
    <2>4. BatchUnclaimed' BY <1>3 DEF Enqueue, BatchUnclaimed, HeldRow, Leased,
       Busy
    <2>5. BatchSerial' BY <1>3 DEF Enqueue, BatchSerial, BatchUnclaimed,
       HeldRow, Leased, SameSerial, Busy
    <2>6. OneSlotPerJob' BY <1>3 DEF Enqueue, OneSlotPerJob, Busy
    <2>7. LeaseExclusion' BY <1>3 DEF Enqueue, LeaseExclusion, Leased,
       SameSerial
    <2>9. QED BY <2>1, <2>2, <2>3, <2>4, <2>5, <2>6, <2>7 DEF Exclusion
  <1>4. CASE DeletePending(j)
    <2>1. OneProcess' BY <1>4 DEF DeletePending, Cancellable, OneProcess, Up
    <2>2. MemoryNeedsProcess' BY <1>4 DEF DeletePending, Cancellable, MemoryNeedsProcess,
       Busy, Up
    <2>3. HeldRow' BY <1>4 DEF DeletePending, Cancellable, HeldRow, OneSlotPerJob, Leased,
       Busy
    <2>4. BatchUnclaimed' BY <1>4 DEF DeletePending, Cancellable, BatchUnclaimed, HeldRow,
       Leased, Busy
    <2>5. BatchSerial' BY <1>4 DEF DeletePending, Cancellable, BatchSerial, BatchUnclaimed,
       HeldRow, Leased, SameSerial, Busy
    <2>6. OneSlotPerJob' BY <1>4 DEF DeletePending, Cancellable, OneSlotPerJob, Busy
    <2>7. LeaseExclusion' BY <1>4 DEF DeletePending, Cancellable, LeaseExclusion, Leased,
       SameSerial
    <2>9. QED BY <2>1, <2>2, <2>3, <2>4, <2>5, <2>6, <2>7 DEF Exclusion
  <1>5. CASE PurgeOld(j)
    <2>1. OneProcess' BY <1>5 DEF PurgeOld, OneProcess, Up
    <2>2. MemoryNeedsProcess' BY <1>5 DEF PurgeOld, MemoryNeedsProcess, Busy,
       Up
    <2>3. HeldRow' BY <1>5 DEF PurgeOld, HeldRow, OneSlotPerJob, Leased, Busy
    <2>4. BatchUnclaimed' BY <1>5 DEF PurgeOld, BatchUnclaimed, HeldRow,
       Leased, Busy
    <2>5. BatchSerial' BY <1>5 DEF PurgeOld, BatchSerial, BatchUnclaimed,
       HeldRow, Leased, SameSerial, Busy
    <2>6. OneSlotPerJob' BY <1>5 DEF PurgeOld, OneSlotPerJob, Busy
    <2>7. LeaseExclusion' BY <1>5 DEF PurgeOld, LeaseExclusion, Leased,
       SameSerial
    <2>9. QED BY <2>1, <2>2, <2>3, <2>4, <2>5, <2>6, <2>7 DEF Exclusion
  <1>6. QED BY <1>1, <1>2, <1>3, <1>4, <1>5 DEF RowStep

\* The steps of runJob keep the exclusion invariant.
LEMMA RunStepExclusion ==
    ASSUME ExclusionInv, NEW w \in Worker, RunStep(w)
    PROVE  Exclusion'
  <1>. USE DEF ExclusionInv, TypeOK, WorkIffBusy, rowVars, pollVars, slotVars
  <1>1. CASE Load(w)
    <2>1. OneProcess' BY <1>1 DEF Load, RowGone, OneProcess, Up
    <2>2. MemoryNeedsProcess' BY <1>1 DEF Load, RowGone, Release, MemoryNeedsProcess,
       Busy, Up
    <2>3. HeldRow' BY <1>1 DEF Load, RowGone, Release, HeldRow, OneSlotPerJob, Leased,
       Busy
    <2>4. BatchUnclaimed' BY <1>1, NoJobFresh DEF Load, RowGone, Release,
       BatchUnclaimed, HeldRow, Leased, Busy
    <2>5. BatchSerial' BY <1>1 DEF Load, RowGone, Release, BatchSerial, BatchUnclaimed,
       HeldRow, Leased, SameSerial, Busy
    <2>6. OneSlotPerJob' BY <1>1 DEF Load, RowGone, Release, OneSlotPerJob, Busy
    <2>7. LeaseExclusion' BY <1>1 DEF Load, RowGone, LeaseExclusion, Leased, SameSerial
    <2>9. QED BY <2>1, <2>2, <2>3, <2>4, <2>5, <2>6, <2>7 DEF Exclusion
  <1>2. CASE Complete(w)
    <2>1. OneProcess' BY <1>2 DEF Complete, OneProcess, Up
    <2>2. MemoryNeedsProcess' BY <1>2 DEF Complete, Release,
       MemoryNeedsProcess, Busy, Up
    <2>3. HeldRow' BY <1>2 DEF Complete, Release, HeldRow, OneSlotPerJob,
       Leased, Busy
    <2>4. BatchUnclaimed' BY <1>2, NoJobFresh DEF Complete, Release,
       BatchUnclaimed, HeldRow, Leased, Busy
    <2>5. BatchSerial' BY <1>2 DEF Complete, Release, BatchSerial,
       BatchUnclaimed, HeldRow, Leased, SameSerial, Busy
    <2>6. OneSlotPerJob' BY <1>2 DEF Complete, Release, OneSlotPerJob, Busy
    <2>7. LeaseExclusion' BY <1>2 DEF Complete, LeaseExclusion, Leased,
       SameSerial
    <2>9. QED BY <2>1, <2>2, <2>3, <2>4, <2>5, <2>6, <2>7 DEF Exclusion
  <1>3. CASE Fail(w)
    <2>1. OneProcess' BY <1>3 DEF Fail, Attempt, Exhausted, FreesKey, OneProcess, Up
    <2>2. MemoryNeedsProcess' BY <1>3 DEF Fail, Attempt, Exhausted, FreesKey, Release, MemoryNeedsProcess,
       Busy, Up
    <2>3. HeldRow' BY <1>3 DEF Fail, Attempt, Exhausted, FreesKey, Release, HeldRow, OneSlotPerJob, Leased,
       Busy
    <2>4. BatchUnclaimed' BY <1>3, NoJobFresh DEF Fail, Attempt, Exhausted, FreesKey, Release,
       BatchUnclaimed, HeldRow, Leased, Busy
    <2>5. BatchSerial' BY <1>3 DEF Fail, Attempt, Exhausted, FreesKey, Release, BatchSerial, BatchUnclaimed,
       HeldRow, Leased, SameSerial, Busy
    <2>6. OneSlotPerJob' BY <1>3 DEF Fail, Attempt, Exhausted, FreesKey, Release, OneSlotPerJob, Busy
    <2>7. LeaseExclusion' BY <1>3 DEF Fail, Attempt, Exhausted, FreesKey, LeaseExclusion, Leased, SameSerial
    <2>9. QED BY <2>1, <2>2, <2>3, <2>4, <2>5, <2>6, <2>7 DEF Exclusion
  <1>4. CASE Vanish(w)
    <2>1. OneProcess' BY <1>4 DEF Vanish, OneProcess, Up
    <2>2. MemoryNeedsProcess' BY <1>4 DEF Vanish, Release, MemoryNeedsProcess,
       Busy, Up
    <2>3. HeldRow' BY <1>4 DEF Vanish, Release, HeldRow, OneSlotPerJob, Leased,
       Busy
    <2>4. BatchUnclaimed' BY <1>4, NoJobFresh DEF Vanish, Release,
       BatchUnclaimed, HeldRow, Leased, Busy
    <2>5. BatchSerial' BY <1>4 DEF Vanish, Release, BatchSerial,
       BatchUnclaimed, HeldRow, Leased, SameSerial, Busy
    <2>6. OneSlotPerJob' BY <1>4 DEF Vanish, Release, OneSlotPerJob, Busy
    <2>7. LeaseExclusion' BY <1>4 DEF Vanish, LeaseExclusion, Leased,
       SameSerial
    <2>9. QED BY <2>1, <2>2, <2>3, <2>4, <2>5, <2>6, <2>7 DEF Exclusion
  <1>5. CASE Strand(w)
    <2>1. OneProcess' BY <1>5 DEF Strand, OneProcess, Up
    <2>2. MemoryNeedsProcess' BY <1>5 DEF Strand, Release, MemoryNeedsProcess,
       Busy, Up
    <2>3. HeldRow' BY <1>5 DEF Strand, Release, HeldRow, OneSlotPerJob, Leased,
       Busy
    <2>4. BatchUnclaimed' BY <1>5, NoJobFresh DEF Strand, Release,
       BatchUnclaimed, HeldRow, Leased, Busy
    <2>5. BatchSerial' BY <1>5 DEF Strand, Release, BatchSerial,
       BatchUnclaimed, HeldRow, Leased, SameSerial, Busy
    <2>6. OneSlotPerJob' BY <1>5 DEF Strand, Release, OneSlotPerJob, Busy
    <2>7. LeaseExclusion' BY <1>5 DEF Strand, LeaseExclusion, Leased,
       SameSerial
    <2>9. QED BY <2>1, <2>2, <2>3, <2>4, <2>5, <2>6, <2>7 DEF Exclusion
  <1>6. QED BY <1>1, <1>2, <1>3, <1>4, <1>5 DEF RunStep

\* Rows that no handler holds may be put back.
LEMMA RequeueExclusion ==
    ASSUME ExclusionInv, NEW J, J \subseteq {j \in Job : Stuck(j)}, Requeue(J),
           \A w \in Worker : Busy(w) => work[w] \notin J,
           UNCHANGED <<work, stage, batch>>
    PROVE  /\ HeldRow' /\ BatchUnclaimed' /\ BatchSerial'
           /\ OneSlotPerJob' /\ LeaseExclusion'
  BY DEF ExclusionInv, HeldRow, BatchUnclaimed, BatchSerial, OneSlotPerJob,
         LeaseExclusion, Leased, SameSerial, Stuck, Busy, Requeue,
         TypeOK, WorkIffBusy

\* What the SELECT and the within-batch rule return, whatever is skipped and
\* however ties fall.
LEMMA ChosenExclusive ==
    ASSUME ExclusionInv, NEW i \in Instance, NEW q \in Queue,
           NEW R \in SUBSET Eligible(q), NEW f \in Orders(R)
    PROVE  \A j \in Chosen(i, q, R, f) :
              /\ j \in Job /\ status[j] = "pending"
              /\ \A k \in Chosen(i, q, R, f) : SameSerial(j, k) => j = k
              /\ \A p \in Job : SameSerial(j, p) => ~Leased(p)
  <1>. DEFINE C == Chosen(i, q, R, f)
  <1>1. SUFFICES ASSUME NEW j \in C
                 PROVE  /\ j \in Job /\ status[j] = "pending"
                        /\ \A k \in C : SameSerial(j, k) => j = k
                        /\ \A p \in Job : SameSerial(j, p) => ~Leased(p)
    OBVIOUS
  <1>2. \A k \in C : k \in R /\ k \in Eligible(q) /\ k \in Job
    BY ChosenEligible
  <1>3. \A p \in Job : SameSerial(j, p) => ~Leased(p)
    BY <1>1, <1>2 DEF Eligible, SiblingLeased, SameSerial, Leased
  <1>4. ASSUME NEW k \in C, SameSerial(j, k) PROVE j = k
    <2>1. ~(f[k] < f[j]) /\ ~(f[j] < f[k])
      BY <1>1, <1>4 DEF Chosen, Leaders, Ahead, SameSerial
    <2>2. f[j] \in Int /\ f[k] \in Int BY <1>1, <1>2, <1>4 DEF Orders
    <2>3. f[j] = f[k] BY <2>1, <2>2
    <2>4. QED BY <1>1, <1>2, <1>4, <2>3 DEF Orders
  <1>5. QED BY <1>1, <1>2, <1>3, <1>4 DEF Eligible, Ready

\* The UPDATE of a claim keeps the exclusion invariant, because nothing the
\* SELECT saw can have changed for the worse since.
LEMMA ClaimExclusion ==
    ASSUME ExclusionInv, NEW i \in Instance, Claim(i)
    PROVE  Exclusion'
  <1>. USE DEF ExclusionInv, TypeOK
  <1>1. PICK g \in [Slot -> batch[i] \cup {NoJob}] :
           /\ \A j \in batch[i] : \E s \in IdleSlots(i, QueueOf[j]) : g[s] = j
           /\ \A s, t \in Slot : g[s] = g[t] /\ g[s] # NoJob => s = t
           /\ work' = [w \in Worker |-> IF w[1] = i /\ g[w[2]] # NoJob
                                        THEN g[w[2]] ELSE work[w]]
           /\ stage' = [w \in Worker |-> IF w[1] = i /\ g[w[2]] # NoJob
                                         THEN "claimed" ELSE stage[w]]
    BY DEF Claim
  <1>2. \A w \in Worker : w[1] \in Instance /\ w[2] \in Slot /\ w = <<w[1], w[2]>>
    BY DEF Worker
  <1>3. Up(i) BY DEF Claim, MemoryNeedsProcess
  <1>4. batch[i] \subseteq Job /\ NoJob \notin batch[i] BY NoJobFresh
  <1>5. ASSUME NEW w \in Worker, w[1] = i, g[w[2]] # NoJob
        PROVE  stage[w] = "idle" /\ work'[w] \in batch[i] /\ stage'[w] = "claimed"
    <2>1. g[w[2]] \in batch[i] BY <1>1, <1>2, <1>5
    <2>2. PICK s \in IdleSlots(i, QueueOf[g[w[2]]]) : g[s] = g[w[2]]
      BY <1>1, <2>1
    <2>3. s = w[2] BY <1>1, <1>2, <1>5, <2>2 DEF IdleSlots
    <2>4. QED BY <1>1, <1>2, <1>5, <2>1, <2>2, <2>3 DEF IdleSlots, Busy
  <1>6. ASSUME NEW w \in Worker, ~(w[1] = i /\ g[w[2]] # NoJob)
        PROVE  work'[w] = work[w] /\ stage'[w] = stage[w]
    BY <1>1, <1>6
  <1>7. \A j \in Job : j \notin batch[i] =>
           status'[j] = status[j] /\ leased'[j] = leased[j] /\ owner'[j] = owner[j]
    BY DEF Claim
  <1>8. \A j \in batch[i] :
           \/ status[j] = "deleted" /\ status'[j] = "deleted"
           \/ status[j] = "pending" /\ Leased(j)' /\ owner'[j] = i
    BY <1>4 DEF Claim, Leased, BatchUnclaimed
  <1>9. OneProcess' BY DEF OneProcess, Up, Claim
  <1>10. MemoryNeedsProcess'
    <2>1. \A w \in Worker : Busy(w)' => Up(w[1])
      BY <1>2, <1>3, <1>5, <1>6 DEF MemoryNeedsProcess, Busy
    <2>2. QED BY <2>1 DEF MemoryNeedsProcess, Up, Claim
  <1>11. HeldRow'
    <2>1. SUFFICES ASSUME NEW w \in Worker, Busy(w)'
                   PROVE  \/ stage'[w] = "claimed" /\ status'[work'[w]] = "deleted"
                          \/ /\ status'[work'[w]] = "processing"
                             /\ owner'[work'[w]] = w[1]
                             /\ LeaseCovers => leased'[work'[w]]
      BY DEF HeldRow
    <2>2. CASE w[1] = i /\ g[w[2]] # NoJob
      BY <1>5, <1>8, <2>2 DEF Leased
    <2>3. CASE ~(w[1] = i /\ g[w[2]] # NoJob)
      <3>1. work'[w] = work[w] /\ stage'[w] = stage[w] BY <1>6, <2>3
      <3>2. work[w] \in Job BY <2>1, <3>1 DEF Busy, WorkIffBusy
      <3>3. work[w] \notin batch[i] BY DEF BatchUnclaimed
      <3>4. QED BY <1>7, <2>1, <3>1, <3>2, <3>3 DEF HeldRow, Leased, Busy
    <2>4. QED BY <2>2, <2>3
  <1>12. \A o \in Instance : o # i => batch[o] = {}
    BY <1>3 DEF OneProcess, MemoryNeedsProcess
  <1>13. \A o \in Instance : batch'[o] = {} BY <1>12 DEF Claim
  <1>14. BatchUnclaimed' BY <1>13 DEF BatchUnclaimed
  <1>15. BatchSerial' BY <1>13 DEF BatchSerial
  <1>16. OneSlotPerJob'
    <2>1. SUFFICES ASSUME NEW v \in Worker, NEW w \in Worker,
                          Busy(v)', work'[v] = work'[w]
                   PROVE  v = w
      BY DEF OneSlotPerJob
    <2>2. CASE v[1] = i /\ g[v[2]] # NoJob
      <3>1. work'[v] \in batch[i] /\ work'[v] = g[v[2]] BY <1>1, <1>5, <2>2
      <3>2. w[1] = i /\ g[w[2]] # NoJob
        BY <1>6, <2>1, <3>1 DEF BatchUnclaimed
      <3>3. work'[w] = g[w[2]] BY <1>1, <3>2
      <3>4. v[2] = w[2] BY <1>1, <1>2, <2>1, <2>2, <3>1, <3>3
      <3>5. QED BY <1>2, <2>2, <3>2, <3>4
    <2>3. CASE ~(v[1] = i /\ g[v[2]] # NoJob)
      <3>1. work'[v] = work[v] /\ stage'[v] = stage[v] BY <1>6, <2>3
      <3>2. work'[v] \notin batch[i] BY <3>1 DEF BatchUnclaimed
      <3>3. ~(w[1] = i /\ g[w[2]] # NoJob) BY <1>5, <2>1, <3>2
      <3>4. work'[w] = work[w] BY <1>6, <3>3
      <3>5. QED BY <2>1, <3>1, <3>4 DEF OneSlotPerJob, Busy
    <2>4. QED BY <2>2, <2>3
  <1>17. LeaseExclusion'
    <2>1. SUFFICES ASSUME NEW j \in Job, NEW k \in Job,
                          Leased(j)', Leased(k)', SameSerial(j, k)
                   PROVE  j = k
      BY DEF LeaseExclusion, SameSerial
    <2>2. \A p \in Job : Leased(p)' => p \in batch[i] \/ Leased(p)
      BY <1>7 DEF Leased
    <2>3. SameSerial(k, j) BY <2>1 DEF SameSerial
    <2>4. QED BY <2>1, <2>2, <2>3 DEF BatchSerial, LeaseExclusion
  <1>19. QED
    BY <1>9, <1>10, <1>11, <1>14, <1>15, <1>16, <1>17 DEF Exclusion

\* The steps of a poll keep the exclusion invariant.
LEMMA PollStepExclusion ==
    ASSUME ExclusionInv, NEW i \in Instance, PollStep(i)
    PROVE  Exclusion'
  <1>. USE DEF ExclusionInv, TypeOK, rowVars, pollVars, slotVars
  <1>1. CASE ReapingPoll(i)
    <2>1. OneProcess' BY <1>1 DEF ReapingPoll, Orphan, WakeUp, OneProcess, Up
    <2>2. MemoryNeedsProcess'
      BY <1>1 DEF ReapingPoll, Orphan, WakeUp, MemoryNeedsProcess, Up, Busy
    <2>3. \A w \in Worker : Busy(w) => work[w] \notin {j \in Job : Orphan(i, j)}
      <3>1. SUFFICES ASSUME NEW w \in Worker, Busy(w), Orphan(i, work[w]) PROVE FALSE
        OBVIOUS
      <3>2. Up(i) /\ Up(w[1]) /\ w[1] \in Instance
        BY <1>1, <3>1 DEF ReapingPoll, WakeUp, MemoryNeedsProcess, Worker
      <3>3. w[1] = i BY <3>2 DEF OneProcess
      <3>4. QED BY <3>1, <3>3 DEF Orphan, Stuck, HeldRow
    <2>4. QED
      BY <1>1, <2>1, <2>2, <2>3, RequeueExclusion DEF ReapingPoll, Orphan, WakeUp, Exclusion
  <1>2. CASE PlainPoll(i)
    <2>1. MemoryNeedsProcess'
      BY <1>2 DEF PlainPoll, WakeUp, MemoryNeedsProcess, Up, Busy
    <2>2. QED
      BY <1>2, <2>1 DEF PlainPoll, WakeUp, Exclusion, OneProcess, Up, Busy, Leased,
         HeldRow, BatchUnclaimed, BatchSerial, OneSlotPerJob, LeaseExclusion, SameSerial
  <1>3. ASSUME NEW q \in Queue, Scan(i, q) PROVE Exclusion'
    <2>1. Up(i) BY <1>3 DEF Scan, MemoryNeedsProcess
    <2>2. MemoryNeedsProcess' BY <1>3, <2>1 DEF Scan, MemoryNeedsProcess, Up, Busy
    <2>3. UNCHANGED <<rowVars, life, slotVars>> BY <1>3 DEF Scan
    <2>4. OneProcess' /\ HeldRow' /\ OneSlotPerJob' /\ LeaseExclusion'
      BY <2>3 DEF OneProcess, HeldRow, OneSlotPerJob, LeaseExclusion,
         Up, Busy, Leased, SameSerial
    <2>5. PICK C \in SUBSET Job :
             /\ batch' = batch \/ batch' = [batch EXCEPT ![i] = C]
             /\ \A j \in C :
                   /\ status[j] = "pending"
                   /\ \A k \in C : SameSerial(j, k) => j = k
                   /\ \A p \in Job : SameSerial(j, p) => ~Leased(p)
      <3>1. CASE batch' = batch
        <4>1. {} \in SUBSET Job /\ \A j \in {} : FALSE OBVIOUS
        <4>2. QED BY <3>1, <4>1
      <3>2. CASE batch' # batch
        <4>1. PICK R \in SUBSET Eligible(q) :
                 \E f \in Orders(R) : batch' = [batch EXCEPT ![i] = Chosen(i, q, R, f)]
          BY <1>3, <3>2, ScanChooses
        <4>2. PICK f \in Orders(R) : batch' = [batch EXCEPT ![i] = Chosen(i, q, R, f)]
          BY <4>1
        <4>3. Chosen(i, q, R, f) \in SUBSET Job BY ChosenEligible
        <4>4. \A j \in Chosen(i, q, R, f) :
                 /\ status[j] = "pending"
                 /\ \A k \in Chosen(i, q, R, f) : SameSerial(j, k) => j = k
                 /\ \A p \in Job : SameSerial(j, p) => ~Leased(p)
          BY ChosenExclusive
        <4>5. QED BY <4>2, <4>3, <4>4
      <3>3. QED BY <3>1, <3>2
    <2>6. \A j \in C : \A w \in Worker : work[w] # j
      <3>1. SUFFICES ASSUME NEW j \in C, NEW w \in Worker, work[w] = j
                     PROVE  FALSE
        OBVIOUS
      <3>2. Busy(w) BY <2>5, <3>1, NoJobFresh DEF WorkIffBusy, Busy
      <3>3. QED BY <2>5, <3>1, <3>2 DEF HeldRow, Leased
    <2>7. \A o \in Instance : batch'[o] = batch[o] \/ (o = i /\ batch'[o] = C)
      BY <2>5
    <2>8. BatchUnclaimed' BY <2>3, <2>5, <2>6, <2>7 DEF BatchUnclaimed
    <2>9. BatchSerial' BY <2>3, <2>5, <2>7 DEF BatchSerial, SameSerial, Leased
    <2>10. QED BY <2>2, <2>4, <2>8, <2>9 DEF Exclusion
  <1>4. CASE Claim(i) BY <1>4, ClaimExclusion
  <1>5. CASE ClaimFails(i)
    <2>1. MemoryNeedsProcess'
      BY <1>5 DEF ClaimFails, MemoryNeedsProcess, Up, Busy
    <2>2. \A o \in Instance : batch'[o] \subseteq batch[o] BY <1>5 DEF ClaimFails
    <2>3. QED
      BY <1>5, <2>1, <2>2 DEF ClaimFails, Exclusion, OneProcess, Up, Busy, Leased,
         HeldRow, BatchUnclaimed, BatchSerial, OneSlotPerJob, LeaseExclusion, SameSerial
  <1>6. CASE EndPoll(i)
    <2>1. MemoryNeedsProcess' BY <1>6 DEF EndPoll, MemoryNeedsProcess, Up, Busy
    <2>2. QED
      BY <1>6, <2>1 DEF EndPoll, Exclusion, OneProcess, Up, Busy, Leased,
         HeldRow, BatchUnclaimed, BatchSerial, OneSlotPerJob, LeaseExclusion, SameSerial
  <1>7. QED BY <1>1, <1>2, <1>3, <1>4, <1>5, <1>6 DEF PollStep

\* Starting and killing a process keeps the exclusion invariant.
LEMMA ProcessExclusion ==
    ASSUME ExclusionInv, ~Overlap, NEW i \in Instance, Start(i) \/ Crash(i)
    PROVE  Exclusion'
  <1>. USE DEF ExclusionInv, TypeOK, rowVars, slotVars
  <1>1. CASE Start(i)
    <2>1. OneProcess' BY <1>1 DEF Start, OneProcess, Up
    <2>2. MemoryNeedsProcess' BY <1>1 DEF Start, MemoryNeedsProcess, Up, Busy
    <2>3. QED
      BY <1>1, <2>1, <2>2 DEF Start, Exclusion, Busy, Leased, HeldRow,
         BatchUnclaimed, BatchSerial, OneSlotPerJob, LeaseExclusion, SameSerial
  <1>2. CASE Crash(i)
    <2>1. OneProcess' BY <1>2 DEF Crash, OneProcess, Up
    <2>2. \A w \in Worker : Busy(w)' =>
             Busy(w) /\ w[1] # i /\ work'[w] = work[w] /\ stage'[w] = stage[w]
      BY <1>2 DEF Crash, Busy
    <2>3. \A o \in Instance : batch'[o] \subseteq batch[o] /\ todo'[o] \subseteq todo[o]
      BY <1>2 DEF Crash
    <2>4. batch'[i] = {} /\ todo'[i] = {} BY <1>2 DEF Crash
    <2>5. MemoryNeedsProcess'
      BY <1>2, <2>2, <2>3, <2>4 DEF Crash, MemoryNeedsProcess, Up
    <2>6. \A w \in Worker : work'[w] = work[w] \/ work'[w] = NoJob
      BY <1>2 DEF Crash
    <2>7. BatchUnclaimed'
      BY <1>2, <2>3, <2>6, NoJobFresh DEF Crash, BatchUnclaimed
    <2>8. HeldRow' BY <1>2, <2>2 DEF Crash, HeldRow, Leased
    <2>9. OneSlotPerJob'
      <3>1. SUFFICES ASSUME NEW v \in Worker, NEW w \in Worker,
                            Busy(v)', work'[v] = work'[w]
                     PROVE  v = w
        BY DEF OneSlotPerJob
      <3>2. work'[v] = work[v] /\ Busy(v) BY <2>2, <3>1
      <3>3. work[v] # NoJob BY <3>2 DEF WorkIffBusy, Busy
      <3>4. work'[w] = work[w] BY <2>6, <3>1, <3>2, <3>3
      <3>5. QED BY <3>1, <3>2, <3>4 DEF OneSlotPerJob
    <2>10. BatchSerial' /\ LeaseExclusion'
      BY <1>2, <2>3 DEF Crash, BatchSerial, LeaseExclusion, Leased,
         SameSerial
    <2>11. QED BY <2>1, <2>5, <2>7, <2>8, <2>9, <2>10 DEF Exclusion
  <1>3. QED BY <1>1, <1>2

\* The cleanup endpoint keeps the exclusion invariant, if it is safe to call.
LEMMA CleanupExclusion ==
    ASSUME ExclusionInv, Protected, CleanupOrphans PROVE Exclusion'
  <1>1. OneProcess' /\ MemoryNeedsProcess'
    BY DEF ExclusionInv, OneProcess, MemoryNeedsProcess, CleanupOrphans, Up, Busy,
       pollVars, slotVars
  <1>2. \A w \in Worker : Busy(w) => work[w] \notin {j \in Job : Stuck(j)}
    BY DEF ExclusionInv, HeldRow, Protected, CleanupOrphans, Stuck
  <1>3. QED
    BY <1>1, <1>2, RequeueExclusion DEF CleanupOrphans, Exclusion, pollVars, slotVars

\* The exclusion invariant is inductive.
LEMMA ExclusionStep ==
    ASSUME Protected, ~Overlap
    PROVE  ExclusionInv /\ [Next]_vars /\ TypeOK' /\ WorkIffBusy' => ExclusionInv'
  <1>1. SUFFICES ASSUME ExclusionInv, [Next]_vars PROVE Exclusion'
    BY DEF ExclusionInv, Exclusion
  <1>2. CASE UNCHANGED vars
    BY <1>1, <1>2 DEF ExclusionInv, Exclusion, OneProcess, MemoryNeedsProcess,
       HeldRow, BatchUnclaimed, BatchSerial, OneSlotPerJob, LeaseExclusion, Leased, SameSerial, Busy, Up, vars, rowVars, pollVars, slotVars
  <1>3. CASE Tick BY <1>1, <1>3, ClockExclusion DEF Tick, slotVars
  <1>4. QED
    BY <1>1, <1>2, <1>3, RowStepExclusion, RunStepExclusion, PollStepExclusion,
       ProcessExclusion, CleanupExclusion DEF Next

\* The exclusion invariant holds when no process has started.
LEMMA ExclusionInit == Init => ExclusionInv
  BY TypeInit DEF Init, ExclusionInv, OneProcess, MemoryNeedsProcess, HeldRow,
     BatchUnclaimed, BatchSerial, OneSlotPerJob, LeaseExclusion,
     Leased, Busy, Up, Worker

\* The exclusion invariant holds in every behaviour with one live process in
\* which running handlers are protected.
THEOREM Excluded == ASSUME Protected, ~Overlap PROVE Spec => []ExclusionInv
  BY Typed, ExclusionInit, ExclusionStep, PTL DEF Spec

\* One live process, and no cleanup call unless leases cover their handlers: no
\* job is ever run by two handlers at once, whatever crashes, faults, reaps and
\* cleanups happen and however long handlers run.
THEOREM NeverTwice ==
    ASSUME Protected, ~Overlap PROVE Spec => []SingleExecution
  <1>1. ExclusionInv => SingleExecution
    BY DEF ExclusionInv, OneSlotPerJob, SingleExecution, Running, Busy
  <1>2. QED BY <1>1, Excluded, PTL

\* Under the same premises the row of a running job stays its own: neither the
\* reaper, nor the cleanup endpoint, nor a cancel touches it.  That is the safety
\* argument of reapOrphans, without a word about leases.
THEOREM RowStaysOwned ==
    ASSUME Protected, ~Overlap PROVE Spec => []RunOwnsRow
  <1>1. ExclusionInv => RunOwnsRow
    BY DEF ExclusionInv, HeldRow, RunOwnsRow, Running, Busy, Leased
  <1>2. QED BY <1>1, Excluded, PTL

\* One live process and leases that cover their handlers: handlers of one
\* serial key exclude each other.  Here the lease is needed, for it is all that
\* the poll looks at before it claims a sibling.
THEOREM OneAtATime ==
    ASSUME LeaseCovers, ~Overlap PROVE Spec => []SerialExclusion
  <1>1. ExclusionInv => SerialExclusion
    <2>1. SUFFICES ASSUME ExclusionInv, NEW v \in Worker, NEW w \in Worker,
                          Running(v), Running(w), v # w,
                          SameSerial(work[v], work[w])
                   PROVE  FALSE
      BY DEF SerialExclusion, SameSerial
    <2>2. work[v] \in Job /\ work[w] \in Job
      BY <2>1 DEF ExclusionInv, TypeOK, WorkIffBusy, Running
    <2>3. Leased(work[v]) /\ Leased(work[w])
      BY <2>1 DEF ExclusionInv, HeldRow, Running, Busy, Leased
    <2>4. work[v] = work[w] BY <2>1, <2>2, <2>3 DEF ExclusionInv, LeaseExclusion
    <2>5. QED BY <2>1, <2>4 DEF ExclusionInv, OneSlotPerJob, Running, Busy
  <1>2. Protected BY DEF Protected
  <1>3. QED BY <1>1, <1>2, Excluded, PTL

-----------------------------------------------------------------------------
(* Accounting.  A run writes attempts = what it read + 1; that is right    *)
(* only because nobody else writes the row while the run holds it, so the  *)
(* invariant rests on exclusion.                                           *)

TriesCurrent ==
    \A w \in Worker : Running(w) => tries[w] = attempts[work[w]]

DedupHeld ==
    \A j \in Job : Live(j) /\ DedupKey[j] # NoKey => dedup[j]

Account == TriesCurrent /\ AttemptsAccounted /\ DedupHeld /\ DedupExclusion

\* What a step may do to a row that is over, and to a failure count.
RowsFinal ==
    \A j \in Job :
        /\ status[j] = "completed" => status'[j] \in {"completed", "deleted"}
        /\ status[j] = "failed" => status'[j] \in {"failed", "deleted"}
        /\ attempts'[j] >= attempts[j]

\* The steps on one row keep the account of attempts.
LEMMA RowStepAccount ==
    ASSUME ExclusionInv, Account, NEW j \in Job, RowStep(j)
    PROVE  Account' /\ RowsFinal
  <1>. USE DEF ExclusionInv, TypeOK, WorkIffBusy, Account, AttemptsAccounted, RowsFinal,
               TriesCurrent, Running, DedupHeld, DedupExclusion, Live, rowVars,
               pollVars, slotVars
  <1>1. CASE FallDue(j) BY <1>1 DEF FallDue
  <1>2. CASE LeaseLapses(j) \/ Stamp(j) BY <1>2 DEF LeaseLapses, Stamp
  <1>3. CASE Enqueue(j)
    <2>1. status[j] = "absent" BY <1>3, EnqueueAbsent
    <2>2. DedupHeld' /\ TriesCurrent' BY <1>3, <2>1 DEF Enqueue
    <2>6. AttemptsAccounted' BY <1>3, <2>1, ConstAssumption DEF Enqueue
    <2>7. RowsFinal BY <1>3, <2>1 DEF Enqueue
    <2>3. \A k \in Job : k # j /\ Live(k) /\ DedupKey[j] # NoKey
                            => DedupKey[k] # DedupKey[j]
      BY <1>3 DEF Enqueue, DedupTaken
    <2>4. \A k \in Job : Live(k)' => k = j \/ Live(k) BY <1>3 DEF Enqueue
    <2>5. DedupExclusion' BY <2>3, <2>4
    <2>8. QED BY <2>2, <2>5, <2>6, <2>7
  <1>4. CASE DeletePending(j) BY <1>4 DEF DeletePending, Cancellable
  <1>5. CASE PurgeOld(j) BY <1>5 DEF PurgeOld
  <1>6. QED BY <1>1, <1>2, <1>3, <1>4, <1>5 DEF RowStep

\* The steps of runJob keep the account of attempts.
LEMMA RunStepAccount ==
    ASSUME ExclusionInv, Account, NEW w \in Worker, RunStep(w)
    PROVE  Account' /\ RowsFinal
  <1>. USE DEF ExclusionInv, TypeOK, WorkIffBusy, Account, AttemptsAccounted, RowsFinal,
               TriesCurrent, Running, DedupHeld, DedupExclusion, Live, rowVars,
               pollVars, Release
  <1>1. CASE Load(w) BY <1>1 DEF Load, RowGone
  <1>2. CASE Complete(w) \/ Fail(w)
    <2>1. stage[w] = "handler" /\ Busy(w) BY <1>2 DEF Complete, Fail, Attempt, Exhausted, FreesKey, Busy
    <2>2. work[w] \in Job /\ status[work[w]] = "processing"
      BY <1>2, <2>1 DEF HeldRow, Leased
    <2>3. /\ tries[w] = attempts[work[w]] /\ attempts[work[w]] \in Nat
          /\ tries[w] # MaxAttempts /\ tries[w] <= MaxAttempts
      BY <2>1, <2>2
    <2>4. \A v \in Worker : v # w /\ Running(v)' => Running(v) /\ work[v] # work[w]
      BY <1>2, <2>1 DEF Complete, Fail, Attempt, Exhausted, FreesKey, OneSlotPerJob, Busy
    <2>5. TriesCurrent' BY <1>2, <2>2, <2>4 DEF Complete, Fail, Attempt, Exhausted, FreesKey
    <2>6. AttemptsAccounted' /\ RowsFinal
      <3>1. \A j \in Job : j # work[w] =>
               status'[j] = status[j] /\ attempts'[j] = attempts[j]
        BY <1>2 DEF Complete, Fail, Attempt, Exhausted, FreesKey
      <3>2. CASE Complete(w) BY <2>2, <2>3, <3>1, <3>2 DEF Complete
      <3>3. CASE Fail(w)
        <4>1. attempts'[work[w]] = attempts[work[w]] + 1
          BY <2>2, <2>3, <3>3 DEF Fail, Attempt, Exhausted, FreesKey
        <4>2. status'[work[w]] = IF attempts[work[w]] + 1 >= MaxAttempts
                                 THEN "failed" ELSE "pending"
          BY <2>2, <2>3, <3>3 DEF Fail, Attempt, Exhausted, FreesKey
        <4>3. MaxAttempts \in Nat BY ConstAssumption
        <4>4. /\ attempts'[work[w]] <= MaxAttempts
              /\ status'[work[w]] = "failed" <=> attempts'[work[w]] = MaxAttempts
          <5>1. attempts[work[w]] < MaxAttempts BY <2>3, <4>3
          <5>2. CASE attempts[work[w]] + 1 >= MaxAttempts
            <6>1. attempts[work[w]] + 1 = MaxAttempts BY <2>3, <4>3, <5>1, <5>2
            <6>2. status'[work[w]] = "failed" BY <4>2, <5>2
            <6>3. QED BY <4>1, <4>3, <6>1, <6>2
          <5>3. CASE ~(attempts[work[w]] + 1 >= MaxAttempts)
            <6>1. attempts[work[w]] + 1 < MaxAttempts BY <2>3, <4>3, <5>3
            <6>2. status'[work[w]] = "pending" BY <4>2, <5>3
            <6>3. QED BY <2>3, <4>1, <4>3, <6>1, <6>2
          <5>4. QED BY <5>2, <5>3
        <4>5. AttemptsAccounted' BY <2>2, <3>1, <4>4
        <4>6. RowsFinal BY <2>2, <2>3, <3>1, <4>1
        <4>7. QED BY <4>5, <4>6
      <3>4. QED BY <1>2, <3>2, <3>3
    <2>7. \A k \in Job : Live(k)' => Live(k) /\ dedup'[k] = dedup[k]
      BY <1>2, <2>2 DEF Complete, Fail, Attempt, Exhausted, FreesKey
    <2>8. QED BY <2>5, <2>6, <2>7
  <1>3. CASE Vanish(w) BY <1>3 DEF Vanish
  <1>4. CASE Strand(w) BY <1>4 DEF Strand
  <1>5. QED BY <1>1, <1>2, <1>3, <1>4 DEF RunStep

\* A row is put back from processing only.
LEMMA RequeueAccount ==
    ASSUME ExclusionInv, Account, NEW J, J \subseteq {j \in Job : Stuck(j)},
           Requeue(J), UNCHANGED slotVars
    PROVE  Account' /\ RowsFinal
  BY DEF ExclusionInv, TypeOK, Account, AttemptsAccounted, RowsFinal, TriesCurrent,
         Running, DedupHeld, DedupExclusion, Live, Stuck, Requeue, slotVars

\* The steps of a poll keep the account of attempts.
LEMMA PollStepAccount ==
    ASSUME ExclusionInv, Account, NEW i \in Instance, PollStep(i)
    PROVE  Account' /\ RowsFinal
  <1>. USE DEF ExclusionInv, TypeOK, WorkIffBusy, Account, AttemptsAccounted, RowsFinal,
               TriesCurrent, Running, DedupHeld, DedupExclusion, Live, rowVars,
               slotVars
  <1>1. CASE ReapingPoll(i) BY <1>1, RequeueAccount DEF ReapingPoll, Orphan, WakeUp
  <1>2. CASE Claim(i)
    <2>1. PICK g \in [Slot -> batch[i] \cup {NoJob}] :
             /\ work' = [w \in Worker |-> IF w[1] = i /\ g[w[2]] # NoJob
                                          THEN g[w[2]] ELSE work[w]]
             /\ stage' = [w \in Worker |-> IF w[1] = i /\ g[w[2]] # NoJob
                                           THEN "claimed" ELSE stage[w]]
      BY <1>2 DEF Claim
    <2>2. TriesCurrent' BY <1>2, <2>1 DEF Claim
    <2>3. \A j \in Job : \/ status'[j] = status[j]
                         \/ status[j] = "pending" /\ status'[j] = "processing"
      BY <1>2 DEF Claim, BatchUnclaimed
    <2>4. UNCHANGED <<attempts, dedup>> BY <1>2 DEF Claim
    <2>5. AttemptsAccounted' /\ RowsFinal BY <2>3, <2>4
    <2>6. \A j \in Job : Live(j)' => Live(j) BY <2>3
    <2>7. QED BY <2>2, <2>4, <2>5, <2>6
  <1>3. CASE \/ PlainPoll(i) \/ ClaimFails(i) \/ EndPoll(i)
             \/ \E q \in Queue : Scan(i, q)
    BY <1>3 DEF PlainPoll, WakeUp, ClaimFails, EndPoll, Scan
  <1>4. QED BY <1>1, <1>2, <1>3 DEF PollStep

\* The account of attempts is inductive, given the exclusion invariant.
LEMMA AccountStep ==
    ExclusionInv /\ Account /\ [Next]_vars => Account' /\ (Next => RowsFinal)
  <1>1. SUFFICES ASSUME ExclusionInv, Account, [Next]_vars
                 PROVE  Account' /\ (Next => RowsFinal)
    OBVIOUS
  <1>. USE DEF ExclusionInv, TypeOK, Account, AttemptsAccounted, RowsFinal, TriesCurrent,
               Running, DedupHeld, DedupExclusion, Live
  <1>2. CASE UNCHANGED vars
    BY <1>1, <1>2 DEF vars, rowVars, slotVars
  <1>3. ASSUME NEW i \in Instance, Start(i) PROVE Account' /\ RowsFinal
    BY <1>1, <1>3 DEF Start, rowVars, slotVars
  <1>4. ASSUME NEW i \in Instance, Crash(i) PROVE Account' /\ RowsFinal
    BY <1>1, <1>4 DEF Crash, rowVars
  <1>5. CASE CleanupOrphans
    BY <1>1, <1>5, RequeueAccount DEF CleanupOrphans, slotVars
  <1>7. CASE Tick BY <1>1, <1>7 DEF Tick, slotVars
  <1>6. QED
    BY <1>1, <1>2, <1>3, <1>4, <1>5, <1>7, RowStepAccount, RunStepAccount, PollStepAccount
       DEF Next

\* The account of attempts is right when nothing has been enqueued.
LEMMA AccountInit == Init => Account
  BY ConstAssumption DEF Init, Account, AttemptsAccounted, TriesCurrent, Running,
     DedupHeld, DedupExclusion, Live

\* Under the premises of exclusion, no failure is lost or counted twice, and a
\* job fails for good exactly when its attempts are spent.
THEOREM AttemptsNeverLost ==
    ASSUME Protected, ~Overlap
    PROVE  Spec => []AttemptsAccounted
  <1>1. Account => AttemptsAccounted BY DEF Account
  <1>2. QED BY <1>1, Excluded, AccountInit, AccountStep, PTL DEF Spec

\* Under the same premises a dedup key stands for one live job: it is given
\* back with the last run of a job and not before.
THEOREM DedupIsExclusive ==
    ASSUME Protected, ~Overlap
    PROVE  Spec => []DedupExclusion
  <1>1. Account => DedupExclusion BY DEF Account
  <1>2. QED BY <1>1, Excluded, AccountInit, AccountStep, PTL DEF Spec

\* Under the premises of exclusion, no late write revives a job that is over.
THEOREM OverIsOver ==
    ASSUME Protected, ~Overlap PROVE Spec => TerminalFinal
  <1>1. ExclusionInv /\ Account /\ [Next]_vars =>
          [\A j \in Job :
              /\ status[j] = "completed" => status'[j] \in {"completed", "deleted"}
              /\ status[j] = "failed" => status'[j] \in {"failed", "deleted"}
              /\ attempts'[j] >= attempts[j]]_vars
    BY AccountStep DEF RowsFinal
  <1>2. QED BY <1>1, Excluded, AccountInit, AccountStep, PTL DEF Spec, TerminalFinal

-----------------------------------------------------------------------------
(* Orphans.  Every way a slot lets go of a row writes the row, unless the  *)
(* incarnation goes down or a statement fails.                             *)

\* A row in processing that goes on in it keeps its name and, if the
\* incarnation lives, its slot.
LEMMA OrphansStep ==
    ASSUME ExclusionInv, OrphansAreReapable, [Next]_vars
    PROVE  OrphansAreReapable'
  <1>. USE DEF ExclusionInv, TypeOK, rowVars, pollVars, slotVars
  <1>. DEFINE Seen(j) == \/ \E w \in Worker : work[w] = j /\ owner[j] = w[1]
                         \/ owner[j] \in Instance /\ life[owner[j]] = "down"
                         \/ faults["failed"] > 0
  <1>0. faults["failed"] \in Nat BY ConstAssumption DEF Mishap
  <1>1. SUFFICES ASSUME NEW j \in Job, status'[j] = "processing" PROVE Seen(j)'
    BY DEF OrphansAreReapable
  <1>2. status[j] = "processing" => Seen(j) BY DEF OrphansAreReapable
  <1>3. ASSUME status[j] = "processing", owner'[j] = owner[j], work' = work,
               faults'["failed"] \in {faults["failed"], faults["failed"] + 1},
               \A i \in Instance : life[i] = "down" => life'[i] = "down"
        PROVE  Seen(j)'
    BY <1>0, <1>2, <1>3
  <1>. HIDE DEF Seen
  <1>4. ASSUME NEW k \in Job, RowStep(k) PROVE Seen(j)'
    BY <1>1, <1>3, <1>4
       DEF RowStep, FallDue, LeaseLapses, Stamp, Enqueue, DeletePending, PurgeOld
  <1>5. ASSUME NEW v \in Worker, RunStep(v) PROVE Seen(j)'
    <2>1. v \in Worker /\ Busy(v) /\ work[v] \in Job
      BY <1>5 DEF RunStep, Load, RowGone, Complete, Fail, Vanish, Strand, WorkIffBusy, Busy
    <2>2. CASE Strand(v) BY <1>0, <2>2 DEF Strand, Fault, Seen, Mishap
    <2>3. CASE ~Strand(v)
      <3>1. status[j] = "processing" /\ (work[v] = j => Load(v))
        BY <1>1, <1>5, <2>1, <2>3 DEF RunStep, Load, RowGone, Complete, Fail, Vanish
      <3>2. UNCHANGED <<life, faults>> /\ (work[v] # j => owner'[j] = owner[j])
        BY <1>5, <2>1, <2>3 DEF RunStep, Load, RowGone, Complete, Fail, Vanish
      <3>3. CASE work[v] = j
        <4>1. Load(v) /\ ~RowGone(v) BY <3>1, <3>3 DEF RowGone
        <4>2. work' = work /\ owner' = owner BY <4>1 DEF Load
        <4>3. QED BY <1>3, <3>1, <3>2, <4>2
      <3>4. CASE work[v] # j
        <4>1. \A w \in Worker : work[w] = j => work'[w] = work[w]
          BY <1>5, <2>3, <3>4
             DEF RunStep, Load, RowGone, Complete, Fail, Vanish, Release
        <4>2. QED BY <1>2, <3>1, <3>2, <3>4, <4>1 DEF Seen
      <3>5. QED BY <3>3, <3>4
    <2>4. QED BY <2>2, <2>3
  <1>6. ASSUME NEW i \in Instance, Claim(i) PROVE Seen(j)'
    <2>1. PICK g \in [Slot -> batch[i] \cup {NoJob}] :
             /\ \A k \in batch[i] : \E s \in IdleSlots(i, QueueOf[k]) : g[s] = k
             /\ \A s, t \in Slot : g[s] = g[t] /\ g[s] # NoJob => s = t
             /\ work' = [w \in Worker |-> IF w[1] = i /\ g[w[2]] # NoJob
                                          THEN g[w[2]] ELSE work[w]]
      BY <1>6 DEF Claim
    <2>2. CASE j \in batch[i]
      <3>1. PICK s \in IdleSlots(i, QueueOf[j]) : g[s] = j BY <2>1, <2>2
      <3>2. s \in Slot /\ g[s] # NoJob BY <3>1, NoJobFresh DEF IdleSlots
      <3>3. <<i, s>> \in Worker /\ <<i, s>>[1] = i /\ <<i, s>>[2] = s
        BY <3>2 DEF Worker
      <3>4. work'[<<i, s>>] = j BY <2>1, <3>1, <3>2, <3>3
      <3>5. owner'[j] = i BY <1>1, <1>6, <2>2 DEF Claim
      <3>6. QED BY <3>3, <3>4, <3>5 DEF Seen
    <2>3. CASE j \notin batch[i]
      <3>1. status[j] = "processing" /\ owner'[j] = owner[j] /\ UNCHANGED <<life, faults>>
        BY <1>1, <1>6, <2>3 DEF Claim
      <3>2. ASSUME NEW w \in Worker, work[w] = j PROVE work'[w] = j
        <4>1. w[2] \in Slot /\ w = <<w[1], w[2]>> BY DEF Worker
        <4>2. SUFFICES ASSUME w[1] = i, g[w[2]] # NoJob PROVE FALSE
          BY <2>1, <3>2
        <4>3. g[w[2]] \in batch[i] BY <2>1, <4>1, <4>2
        <4>4. PICK s \in IdleSlots(i, QueueOf[g[w[2]]]) : g[s] = g[w[2]]
          BY <2>1, <4>3
        <4>5. s = w[2] BY <2>1, <4>1, <4>2, <4>4 DEF IdleSlots
        <4>6. ~Busy(w) BY <4>1, <4>2, <4>4, <4>5 DEF IdleSlots
        <4>7. QED BY <3>2, <4>6, NoJobFresh DEF WorkIffBusy, Busy
      <3>3. QED BY <1>2, <3>1, <3>2 DEF Seen
    <2>4. QED BY <2>2, <2>3
  <1>7. ASSUME NEW J, J \subseteq {k \in Job : Stuck(k)}, Requeue(J),
               UNCHANGED <<work, life, faults>>
        PROVE  Seen(j)'
    BY <1>1, <1>3, <1>7 DEF Requeue
  <1>8. ASSUME NEW i \in Instance, PollStep(i), ~Claim(i) PROVE Seen(j)'
    <2>1. CASE ReapingPoll(i) BY <1>7, <2>1 DEF ReapingPoll, WakeUp, Orphan
    <2>2. ASSUME NEW m \in Mishap, Fault(m)
          PROVE  faults'["failed"] \in {faults["failed"], faults["failed"] + 1}
      BY <2>2 DEF Fault, Mishap
    <2>3. CASE ~ReapingPoll(i)
      BY <1>1, <1>3, <1>8, <2>2, <2>3
         DEF PollStep, PlainPoll, WakeUp, Scan, ClaimFails, EndPoll, Mishap
    <2>4. QED BY <2>1, <2>3
  <1>9. ASSUME NEW i \in Instance, Start(i) PROVE Seen(j)'
    BY <1>1, <1>3, <1>9 DEF Start
  <1>10. ASSUME NEW i \in Instance, Crash(i) PROVE Seen(j)'
    <2>1. /\ status[j] = "processing" /\ owner'[j] = owner[j] /\ faults' = faults
          /\ life' = [life EXCEPT ![i] = "down"]
          /\ \A w \in Worker : w[1] # i => work'[w] = work[w]
      BY <1>1, <1>10 DEF Crash
    <2>2. QED BY <1>2, <2>1 DEF Seen
  <1>11. CASE CleanupOrphans BY <1>7, <1>11 DEF CleanupOrphans
  <1>12. CASE UNCHANGED vars \/ Tick BY <1>1, <1>3, <1>12 DEF vars, Tick
  <1>13. QED
    BY <1>4, <1>5, <1>6, <1>8, <1>9, <1>10, <1>11, <1>12 DEF Next

\* The reaper overlooks no row, but one that a failed statement has stranded.
THEOREM OrphansAreSeen ==
    ASSUME Protected, ~Overlap PROVE Spec => []OrphansAreReapable
  <1>1. Init => OrphansAreReapable BY DEF Init, OrphansAreReapable
  <1>2. QED BY <1>1, Excluded, OrphansStep, PTL DEF Spec

-----------------------------------------------------------------------------
(* Order.  A sibling that lies further back is in front in every order the *)
(* poll may see, so it goes first; and a row that comes to wait only after *)
(* the choice has begun its turn behind the row chosen.  So a row can be   *)
(* overtaken only after it has lost a claim or its place to a lock.        *)

\* Nothing has happened yet that takes a turn away from a row.
Quiet == (\A m \in Mishap : faults[m] = 0) /\ \A i \in Instance : life[i] # "down"

Earlier(j, k) ==
    /\ SerialKey[j] # NoKey /\ SerialKey[j] = SerialKey[k]
    /\ QueueOf[j] = QueueOf[k] /\ visible[j] > age[k]

Waits(j) == status[j] = "pending"

\* A row shows to polls once it is in the table and due, hence not before its run_at.
ShownWhenDue ==
    \A j \in Job : /\ visible[j] <= age[j]
                   /\ status[j] = "absent" => visible[j] = 0

\* Row k is gone, or due with no earlier sibling waiting.
InTurn(k) ==
    status[k] = "deleted" \/ (age[k] > 0 /\ \A j \in Job : Waits(j) => ~Earlier(j, k))

Held(k) == \/ \E i \in Instance : k \in batch[i]
           \/ \E w \in Worker : Busy(w) /\ work[w] = k

QuietTurns == Quiet => \A k \in Job : Held(k) => InTurn(k)

FifoInv == ShownWhenDue /\ QuietTurns

\* The limit of a scan is a number.
LEMMA ScanLimitType == ASSUME NEW n \in Nat PROVE ScanLimit(n) \in Nat
  <1>1. n * ScanFactor \in Nat BY ConstAssumption
  <1>2. QED BY <1>1, ConstAssumption DEF ScanLimit

\* A poll that skips nothing takes no row over an earlier one of its key that waits.
LEMMA ChosenInTurn ==
    ASSUME ExclusionInv, ShownWhenDue, NEW i \in Instance, NEW q \in Queue,
           NEW f \in Orders(Eligible(q)), NEW k \in Chosen(i, q, Eligible(q), f)
    PROVE  k \in Job /\ InTurn(k)
  <1>. DEFINE E == Eligible(q)
  <1>1. k \in E /\ k \in Job /\ E \subseteq Job BY ChosenEligible
  <1>2. age[k] > 0 BY <1>1 DEF Eligible, Ready, ExclusionInv, TypeOK
  <1>3. SUFFICES ASSUME NEW j \in Job, Waits(j), Earlier(j, k) PROVE FALSE
    BY <1>1, <1>2 DEF InTurn
  <1>4. age[j] # 0 /\ age[j] > age[k]
    BY <1>1, <1>2, <1>3 DEF ShownWhenDue, Earlier, ExclusionInv, TypeOK
  <1>5. j \in E
    BY <1>1, <1>3, <1>4 DEF Eligible, Ready, SiblingLeased, Waits, Earlier
  <1>6. f[j] < f[k] /\ f[j] \in Int /\ f[k] \in Int BY <1>1, <1>4, <1>5 DEF Orders
  <1>7. PICK n \in Nat : n = Cardinality(IdleSlots(i, q))
    <2>1. IsFiniteSet(IdleSlots(i, q))
      BY FS_Subset, ConstAssumption DEF IdleSlots
    <2>2. QED BY <2>1, FS_CardinalityType
  <1>8. Cardinality(Ahead(f, E, k)) < ScanLimit(n)
    BY <1>7 DEF Chosen, Leaders
  <1>9. Cardinality(Ahead(f, E, j)) < ScanLimit(n)
    <2>1. \A e \in E : f[e] \in Int BY DEF Orders
    <2>2. Ahead(f, E, j) \subseteq Ahead(f, E, k) BY <1>6, <2>1 DEF Ahead
    <2>3. Ahead(f, E, k) \subseteq Job BY <1>1 DEF Ahead
    <2>4. IsFiniteSet(Ahead(f, E, k)) BY <2>3, FS_Subset, ConstAssumption
    <2>5. IsFiniteSet(Ahead(f, E, j)) BY <2>2, <2>4, FS_Subset
    <2>6. Cardinality(Ahead(f, E, j)) <= Cardinality(Ahead(f, E, k))
      BY <2>2, <2>4, FS_Subset
    <2>7. Cardinality(Ahead(f, E, j)) \in Nat /\ Cardinality(Ahead(f, E, k)) \in Nat
      BY <2>4, <2>5, FS_CardinalityType
    <2>8. QED BY <1>7, <1>8, <2>6, <2>7, ScanLimitType
  <1>10. QED
    BY <1>3, <1>5, <1>6, <1>7, <1>9 DEF Chosen, Leaders, Ahead, Earlier

\* No row shows before it is due.
LEMMA ShownStep ==
    ASSUME ExclusionInv, ShownWhenDue, [Next]_vars
    PROVE  ShownWhenDue'
  <1>. USE DEF ExclusionInv, TypeOK, ShownWhenDue, rowVars
  <1>. DEFINE NoneNew == \A j \in Job : status'[j] = "absent" => status[j] = "absent"
  <1>1. ASSUME UNCHANGED <<age, visible>>, NoneNew PROVE ShownWhenDue'
    BY <1>1
  <1>2. ASSUME NEW j \in Job, OffTheClock(j), NoneNew PROVE ShownWhenDue'
    BY <1>2 DEF OffTheClock
  <1>3. ASSUME NEW j \in Job, RowStep(j) PROVE ShownWhenDue'
    <2>1. CASE FallDue(j) BY <2>1 DEF FallDue
    <2>2. CASE Stamp(j) BY <2>2 DEF Stamp
    <2>3. CASE Enqueue(j) BY <2>3 DEF Enqueue
    <2>4. CASE LeaseLapses(j) \/ PurgeOld(j) BY <1>1, <2>4 DEF LeaseLapses, PurgeOld
    <2>5. CASE DeletePending(j) BY <1>2, <2>5 DEF DeletePending
    <2>6. QED BY <1>3, <2>1, <2>2, <2>3, <2>4, <2>5 DEF RowStep
  <1>4. ASSUME NEW w \in Worker, RunStep(w) PROVE ShownWhenDue'
    <2>1. CASE Complete(w) \/ Fail(w)
      <3>1. work[w] \in Job BY <2>1 DEF Complete, Fail, WorkIffBusy
      <3>2. QED BY <1>2, <2>1, <3>1 DEF Complete, Fail
    <2>2. QED BY <1>1, <1>4, <2>1 DEF RunStep, Load, Vanish, Strand
  <1>5. ASSUME NEW i \in Instance, PollStep(i) PROVE ShownWhenDue'
    <2>1. UNCHANGED <<age, visible>>
      BY <1>5 DEF PollStep, ReapingPoll, Requeue, PlainPoll, Scan, Claim, ClaimFails, EndPoll
    <2>2. NoneNew
      <3>1. CASE ReapingPoll(i) BY <3>1 DEF ReapingPoll, Requeue
      <3>2. CASE Claim(i)
        <4>1. \A j \in Job : status'[j] \in {status[j], "processing"} BY <3>2 DEF Claim
        <4>2. QED BY <4>1
      <3>3. CASE PlainPoll(i) \/ ClaimFails(i) \/ EndPoll(i) \/ \E q \in Queue : Scan(i, q)
        BY <3>3 DEF PlainPoll, ClaimFails, EndPoll, Scan
      <3>4. QED BY <1>5, <3>1, <3>2, <3>3 DEF PollStep
    <2>3. QED BY <1>1, <2>1, <2>2
  <1>6. ASSUME NEW i \in Instance, Start(i) PROVE ShownWhenDue'
    BY <1>1, <1>6 DEF Start
  <1>7. ASSUME NEW i \in Instance, Crash(i) PROVE ShownWhenDue'
    BY <1>7 DEF Crash
  <1>8. CASE Tick BY <1>8 DEF Tick
  <1>9. CASE CleanupOrphans \/ UNCHANGED vars
    BY <1>1, <1>9 DEF CleanupOrphans, Requeue, vars
  <1>10. QED BY <1>3, <1>4, <1>5, <1>6, <1>7, <1>8, <1>9 DEF Next

\* As long as nothing has happened, a row in processing has its slot.
LEMMA QuietHeld ==
    ASSUME ExclusionInv, OrphansAreReapable, Quiet, NEW j \in Job,
           status[j] = "processing"
    PROVE  \E w \in Worker : Busy(w) /\ work[w] = j
  <1>1. ~(faults["failed"] > 0) BY DEF Quiet, Mishap
  <1>2. QED
    BY <1>1, NoJobFresh DEF ExclusionInv, WorkIffBusy, OrphansAreReapable, Quiet, Busy

\* Then the reaper puts no row back.
LEMMA QuietReap ==
    ASSUME ExclusionInv, OrphansAreReapable, Quiet, NEW i \in Instance, Up(i)
    PROVE  {j \in Job : Orphan(i, j)} = {}
  <1>1. SUFFICES ASSUME NEW j \in Job, Orphan(i, j) PROVE FALSE
    OBVIOUS
  <1>2. PICK w \in Worker : Busy(w) /\ work[w] = j
    BY <1>1, QuietHeld DEF Orphan, Stuck
  <1>3. owner[j] = w[1] /\ Up(w[1]) /\ w[1] \in Instance
    BY <1>1, <1>2 DEF ExclusionInv, HeldRow, MemoryNeedsProcess, Orphan, Stuck, Worker
  <1>4. QED BY <1>1, <1>3 DEF ExclusionInv, OneProcess, Orphan

\* Nor by the cleanup endpoint, where leases cover their handlers.
LEMMA QuietCleanup ==
    ASSUME ExclusionInv, Protected, OrphansAreReapable, Quiet PROVE ~CleanupOrphans
  <1>1. SUFFICES ASSUME NEW j \in Job, Stuck(j), LeaseCovers PROVE FALSE
    BY DEF CleanupOrphans, Protected
  <1>2. PICK w \in Worker : Busy(w) /\ work[w] = j BY <1>1, QuietHeld DEF Stuck
  <1>3. QED BY <1>1, <1>2 DEF ExclusionInv, HeldRow, Stuck

\* What has happened stays so, and a step that leaves all quiet has no mishap.
LEMMA QuietBefore ==
    ASSUME TypeOK, [Next]_vars, Quiet'
    PROVE  Quiet /\ \A m \in Mishap : ~Fault(m)
  <1>. USE DEF TypeOK, Quiet, rowVars, pollVars, slotVars
  <1>1. \A m \in Mishap : faults[m] \in Nat BY ConstAssumption
  <1>2. ASSUME NEW m \in Mishap, Fault(m) PROVE FALSE
    BY <1>1, <1>2 DEF Fault
  <1>3. faults' = faults
    <2>1. ASSUME NEW j \in Job, RowStep(j) PROVE faults' = faults
      BY <2>1 DEF RowStep, FallDue, LeaseLapses, Stamp, Enqueue, DeletePending, PurgeOld
    <2>2. ASSUME NEW w \in Worker, RunStep(w) PROVE faults' = faults
      BY <1>2, <2>2 DEF RunStep, Load, RowGone, Complete, Fail, Vanish, Strand, Mishap
    <2>3. ASSUME NEW i \in Instance, PollStep(i) PROVE faults' = faults
      BY <1>2, <2>3 DEF PollStep, ReapingPoll, PlainPoll, WakeUp, Scan, Claim, ClaimFails,
                        EndPoll, Mishap
    <2>4. QED
      BY <2>1, <2>2, <2>3 DEF Next, Start, Crash, CleanupOrphans, Tick, vars
  <1>4. \A i \in Instance : life[i] = "down" => life'[i] = "down"
    <2>1. ASSUME NEW j \in Job, RowStep(j) PROVE life' = life
      BY <2>1 DEF RowStep, FallDue, LeaseLapses, Stamp, Enqueue, DeletePending, PurgeOld
    <2>2. ASSUME NEW w \in Worker, RunStep(w) PROVE life' = life
      BY <2>2 DEF RunStep, Load, RowGone, Complete, Fail, Vanish, Strand
    <2>3. ASSUME NEW i \in Instance, PollStep(i) PROVE life' = life
      BY <2>3 DEF PollStep, ReapingPoll, PlainPoll, WakeUp, Scan, Claim, ClaimFails,
                  EndPoll
    <2>4. QED
      BY <2>1, <2>2, <2>3 DEF Next, Start, Crash, CleanupOrphans, Tick, vars
  <1>5. QED BY <1>2, <1>3, <1>4

\* A row that comes to wait, or to show, does so now.
LEMMA WaitsAnew ==
    ASSUME ExclusionInv, Protected, OrphansAreReapable, Quiet, [Next]_vars, ~Tick,
           NEW j \in Job, Waits(j)'
    PROVE  \/ Waits(j) /\ visible'[j] = visible[j]
           \/ visible'[j] \in {0, 1}
  <1>. USE DEF ExclusionInv, TypeOK, Waits, rowVars
  <1>1. CASE UNCHANGED <<status, visible>> BY <1>1
  <1>2. ASSUME NEW k \in Job, RowStep(k)
        PROVE  \/ Waits(j) /\ visible'[j] = visible[j]
               \/ visible'[j] \in {0, 1}
    BY <1>2
       DEF RowStep, FallDue, LeaseLapses, Stamp, Enqueue, DeletePending, OffTheClock, PurgeOld
  <1>3. ASSUME NEW w \in Worker, RunStep(w)
        PROVE  \/ Waits(j) /\ visible'[j] = visible[j]
               \/ visible'[j] \in {0, 1}
    <2>1. CASE Complete(w) \/ Fail(w)
      <3>1. work[w] \in Job BY <2>1 DEF Complete, Fail, WorkIffBusy
      <3>2. QED BY <2>1, <3>1 DEF Complete, Fail, OffTheClock
    <2>2. QED BY <1>1, <1>3, <2>1 DEF RunStep, Load, RowGone, Vanish, Strand
  <1>4. ASSUME NEW i \in Instance, PollStep(i)
        PROVE  Waits(j) /\ visible'[j] = visible[j]
    <2>1. CASE ReapingPoll(i)
      BY <2>1, QuietReap DEF ReapingPoll, WakeUp, Requeue
    <2>2. CASE Claim(i) BY <2>2 DEF Claim
    <2>3. QED
      BY <1>1, <1>4, <2>1, <2>2 DEF PollStep, PlainPoll, Scan, ClaimFails, EndPoll
  <1>5. QED
    BY <1>1, <1>2, <1>3, <1>4, QuietCleanup DEF Next, Start, Crash, vars

\* A batch is what a SELECT chose, and a slot gets its job from a batch.
LEMMA HeldNew ==
    ASSUME TypeOK, WorkIffBusy, [Next]_vars, NEW k \in Job, Held(k)',
           \A i \in Instance, q \in Queue : ~Scan(i, q)
    PROVE  Held(k)
  <1>. USE DEF TypeOK, WorkIffBusy, Held, Busy, pollVars, slotVars
  <1>1. ASSUME UNCHANGED <<batch, work, stage>> PROVE Held(k)
    BY <1>1
  <1>2. ASSUME NEW j \in Job, RowStep(j) PROVE Held(k)
    BY <1>1, <1>2
       DEF RowStep, FallDue, LeaseLapses, Stamp, Enqueue, DeletePending, PurgeOld
  <1>3. ASSUME NEW v \in Worker, RunStep(v) PROVE Held(k)
    BY <1>3 DEF RunStep, Load, RowGone, Complete, Fail, Vanish, Strand, Release
  <1>4. ASSUME NEW i \in Instance, Claim(i) PROVE Held(k)
    <2>1. PICK g \in [Slot -> batch[i] \cup {NoJob}] :
             /\ work' = [v \in Worker |-> IF v[1] = i /\ g[v[2]] # NoJob
                                          THEN g[v[2]] ELSE work[v]]
             /\ stage' = [v \in Worker |-> IF v[1] = i /\ g[v[2]] # NoJob
                                           THEN "claimed" ELSE stage[v]]
      BY <1>4 DEF Claim
    <2>2. \A o \in Instance : batch'[o] \subseteq batch[o] BY <1>4 DEF Claim
    <2>3. \A v \in Worker : v[2] \in Slot BY DEF Worker
    <2>4. QED BY <2>1, <2>2, <2>3
  <1>5. ASSUME NEW i \in Instance, PollStep(i), ~Claim(i) PROVE Held(k)
    BY <1>5 DEF PollStep, ReapingPoll, PlainPoll, WakeUp, ClaimFails, EndPoll
  <1>6. ASSUME NEW i \in Instance, Crash(i) PROVE Held(k)
    BY <1>6 DEF Crash
  <1>7. QED
    BY <1>1, <1>2, <1>3, <1>4, <1>5, <1>6 DEF Next, Start, CleanupOrphans, Tick, vars

\* The run_at of a held row stays, until the row is deleted or let go.
LEMMA HeldAge ==
    ASSUME ExclusionInv, [Next]_vars, ~Tick, NEW k \in Job, Held(k), Held(k)',
           age[k] > 0, status[k] # "deleted"
    PROVE  status'[k] = "deleted" \/ age'[k] = age[k]
  <1>. USE DEF ExclusionInv, TypeOK, rowVars
  <1>1. status[k] \in {"pending", "processing"}
    BY DEF Held, BatchUnclaimed, HeldRow
  <1>2. CASE UNCHANGED age BY <1>2
  <1>3. ASSUME NEW j \in Job, RowStep(j) PROVE status'[k] = "deleted" \/ age'[k] = age[k]
    BY <1>1, <1>3
       DEF RowStep, FallDue, LeaseLapses, Stamp, Enqueue, DeletePending, OffTheClock, PurgeOld
  <1>4. ASSUME NEW w \in Worker, RunStep(w) PROVE status'[k] = "deleted" \/ age'[k] = age[k]
    <2>1. CASE Complete(w) \/ Fail(w)
      <3>1. work[w] \in Job /\ Busy(w) BY <2>1 DEF Complete, Fail, WorkIffBusy, Busy
      <3>2. CASE work[w] # k BY <2>1, <3>1, <3>2 DEF Complete, Fail, OffTheClock
      <3>3. CASE work[w] = k
        <4>1. /\ UNCHANGED batch
              /\ stage'[w] = "idle"
              /\ \A v \in Worker : v # w => stage'[v] = stage[v] /\ work'[v] = work[v]
          BY <2>1 DEF Complete, Fail, Release, pollVars
        <4>2. \A i \in Instance : k \notin batch'[i]
          BY <3>3, <4>1 DEF BatchUnclaimed
        <4>3. \A v \in Worker : ~(Busy(v)' /\ work'[v] = k)
          BY <3>1, <3>3, <4>1 DEF OneSlotPerJob, Busy
        <4>4. QED BY <4>2, <4>3 DEF Held
      <3>4. QED BY <3>2, <3>3
    <2>2. QED BY <1>2, <1>4, <2>1 DEF RunStep, Load, Vanish, Strand
  <1>5. ASSUME NEW i \in Instance, PollStep(i) PROVE UNCHANGED age
    BY <1>5 DEF PollStep, ReapingPoll, Requeue, PlainPoll, Scan, Claim, ClaimFails, EndPoll
  <1>6. ASSUME NEW i \in Instance, Crash(i) PROVE age'[k] = age[k]
    BY <1>1, <1>6 DEF Crash
  <1>7. QED
    BY <1>2, <1>3, <1>4, <1>5, <1>6 DEF Next, Start, CleanupOrphans, Requeue, vars

\* A held row that is gone stays so.
LEMMA GoneStays ==
    ASSUME ExclusionInv, [Next]_vars, NEW k \in Job, Held(k), status[k] = "deleted"
    PROVE  status'[k] = "deleted"
  <1>. USE DEF ExclusionInv, TypeOK, rowVars
  <1>1. CASE UNCHANGED status BY <1>1
  <1>2. ASSUME NEW j \in Job, RowStep(j) PROVE status'[k] = "deleted"
    BY <1>2, EnqueueAbsent
       DEF RowStep, FallDue, LeaseLapses, Stamp, Enqueue, DeletePending, PurgeOld
  <1>3. ASSUME NEW w \in Worker, RunStep(w) PROVE status'[k] = "deleted"
    BY <1>1, <1>3 DEF RunStep, Load, Complete, Fail, Vanish, Strand
  <1>4. ASSUME NEW i \in Instance, PollStep(i) PROVE status'[k] = "deleted"
    <2>1. CASE ReapingPoll(i) BY <2>1 DEF ReapingPoll, Orphan, Stuck, Requeue
    <2>2. CASE Claim(i) BY <2>2 DEF Claim
    <2>3. QED
      BY <1>1, <1>4, <2>1, <2>2 DEF PollStep, PlainPoll, Scan, ClaimFails, EndPoll
  <1>5. QED
    BY <1>1, <1>2, <1>3, <1>4
       DEF Next, Start, Crash, CleanupOrphans, Stuck, Requeue, Tick, vars

\* No step overtakes an earlier sibling that waits.
LEMMA TurnsStep ==
    ASSUME ExclusionInv, Protected, OrphansAreReapable, FifoInv, [Next]_vars
    PROVE  QuietTurns'
  <1>1. SUFFICES ASSUME Quiet', NEW k \in Job, Held(k)' PROVE InTurn(k)'
    BY DEF QuietTurns
  <1>2. TypeOK /\ WorkIffBusy BY DEF ExclusionInv
  <1>3. Quiet /\ \A m \in Mishap : ~Fault(m) BY <1>1, <1>2, QuietBefore
  <1>4. ASSUME NEW i \in Instance, NEW q \in Queue, Scan(i, q) PROVE InTurn(k)'
    <2>1. UNCHANGED <<status, age, visible, work, stage>> BY <1>4 DEF Scan, rowVars, slotVars
    <2>2. InTurn(k) => InTurn(k)' BY <2>1 DEF InTurn, Waits, Earlier
    <2>3. CASE Held(k) BY <1>3, <2>2, <2>3 DEF FifoInv, QuietTurns
    <2>4. CASE ~Held(k)
      <3>1. batch' # batch BY <1>1, <2>1, <2>4 DEF Held, Busy
      <3>2. PICK f \in Orders(Eligible(q)) :
               batch' = [batch EXCEPT ![i] = Chosen(i, q, Eligible(q), f)]
        BY <1>2, <1>3, <1>4, <3>1, ScanChooses DEF Mishap
      <3>3. k \in Chosen(i, q, Eligible(q), f)
        BY <1>1, <1>2, <2>1, <2>4, <3>2 DEF Held, Busy, TypeOK
      <3>4. QED BY <2>2, <3>3, ChosenInTurn DEF FifoInv
    <2>5. QED BY <2>3, <2>4
  <1>5. ASSUME \A i \in Instance, q \in Queue : ~Scan(i, q) PROVE InTurn(k)'
    <2>1. Held(k) /\ InTurn(k) BY <1>1, <1>2, <1>3, <1>5, HeldNew DEF FifoInv, QuietTurns
    <2>2. \A j \in Job : age[j] \in Nat /\ visible[j] \in Nat BY <1>2 DEF TypeOK
    <2>3. CASE Tick
      BY <2>1, <2>2, <2>3 DEF Tick, InTurn, Waits, Earlier
    <2>4. CASE ~Tick /\ status[k] # "deleted"
      <3>1. age[k] > 0 /\ \A j \in Job : Waits(j) => ~Earlier(j, k)
        BY <2>1, <2>4 DEF InTurn
      <3>2. status'[k] = "deleted" \/ age'[k] = age[k]
        BY <1>1, <2>1, <2>4, <3>1, HeldAge
      <3>3. \A j \in Job : Waits(j)' => \/ Waits(j) /\ visible'[j] = visible[j]
                                        \/ visible'[j] \in {0, 1}
        BY <1>3, <2>4, WaitsAnew
      <3>4. QED BY <2>2, <3>1, <3>2, <3>3 DEF InTurn, Earlier
    <2>5. CASE status[k] = "deleted"
      <3>1. status'[k] = "deleted"
        BY <1>1, <1>2, <2>1, <2>5, GoneStays
      <3>2. QED BY <3>1 DEF InTurn
    <2>6. QED BY <2>3, <2>4, <2>5
  <1>6. QED BY <1>4, <1>5

\* Before the first enqueue nothing waits.
LEMMA FifoInit == Init => FifoInv
  BY DEF Init, FifoInv, ShownWhenDue, QuietTurns, Held, Busy, Worker

\* Siblings run in the order of run_at, as far as it orders calls that do not
\* overlap: a job that was in the table and due in an earlier millisecond goes
\* first, until a restart, a failed statement or a skipped lock takes a turn
\* away.  For any jobs, keys, slots, scan limits and ties.
THEOREM SiblingsInTurn ==
    ASSUME Protected, ~Overlap PROVE Spec => []SerialFifo
  <1>1. ExclusionInv /\ OrphansAreReapable /\ FifoInv /\ [Next]_vars => FifoInv'
    BY ShownStep, TurnsStep DEF FifoInv
  <1>2. ExclusionInv /\ FifoInv => SerialFifo
    <2>1. SUFFICES ASSUME ExclusionInv, FifoInv, NEW w \in Worker, NEW j \in Job,
                          Running(w), Waits(j), Earlier(j, work[w]), Quiet
                   PROVE  FALSE
      <3>1. \A m \in Mishap : ExclusionInv => faults[m] \in Nat
        BY ConstAssumption DEF ExclusionInv, TypeOK
      <3>2. QED BY <3>1 DEF SerialFifo, Waits, Earlier, Quiet
    <2>2. work[w] \in Job /\ Held(work[w]) /\ status[work[w]] = "processing"
      BY <2>1 DEF ExclusionInv, TypeOK, WorkIffBusy, HeldRow, Running, Busy, Held
    <2>3. QED BY <2>1, <2>2 DEF FifoInv, QuietTurns, InTurn
  <1>3. QED BY <1>1, <1>2, Excluded, OrphansAreSeen, FifoInit, PTL DEF Spec

-----------------------------------------------------------------------------
(* Refinement: what the queue does, seen through AbstractState, is a       *)
(* behaviour of TaskQueue; of TaskQueue without serial keys already if     *)
(* running handlers are merely protected.                                  *)

PlainTQ == INSTANCE TaskQueue WITH
             Task      <- Job,
             tries     <- attempts,
             state     <- [j \in Job |-> AbstractState(j)],
             SerialKey <- [j \in Job |-> NoKey]

Unseen == UNCHANGED <<[j \in Job |-> AbstractState(j)], attempts>>

\* A step is invisible when it moves rows only between pending and processing
\* and starts and ends no handler.
LEMMA InvisibleStep ==
    ASSUME \A j \in Job : \/ status'[j] = status[j]
                          \/ {status[j], status'[j]} \subseteq {"pending", "processing"},
           \A j \in Job : InHandler(j)' <=> InHandler(j),
           UNCHANGED attempts
    PROVE  Unseen
  <1>1. \A j \in Job : AbstractState(j)' = AbstractState(j) BY DEF AbstractState
  <1>2. QED BY <1>1 DEF Unseen

\* A running handler holds its row.
LEMMA HandlerHolds ==
    ASSUME ExclusionInv, NEW j \in Job, InHandler(j)
    PROVE  status[j] = "processing"
  BY DEF ExclusionInv, HeldRow, InHandler, Running, Busy, Leased

\* The steps on one row are steps of the abstract queue.
LEMMA RowStepRefines ==
    ASSUME ExclusionInv, Account, NEW j \in Job, RowStep(j)
    PROVE  PlainTQ!Next \/ Unseen
  <1>. USE DEF rowVars, pollVars, slotVars
  <1>1. \A k \in Job : InHandler(k)' <=> InHandler(k)
    BY DEF RowStep, FallDue, LeaseLapses, Stamp, Enqueue, DeletePending, Cancellable, PurgeOld,
       InHandler, Running
  <1>2. CASE FallDue(j) \/ LeaseLapses(j) \/ Stamp(j)
    BY <1>1, <1>2, InvisibleStep DEF FallDue, LeaseLapses, Stamp
  <1>3. CASE Enqueue(j) \/ DeletePending(j) \/ PurgeOld(j)
    <2>1. \A k \in Job : k # j => AbstractState(k)' = AbstractState(k)
      BY <1>1, <1>3 DEF Enqueue, DeletePending, Cancellable, PurgeOld, AbstractState, ExclusionInv,
         TypeOK
    <2>2. UNCHANGED attempts BY <1>3 DEF Enqueue, DeletePending, Cancellable, PurgeOld
    <2>3. [k \in Job |-> AbstractState(k)]' =
            [[k \in Job |-> AbstractState(k)] EXCEPT ![j] = AbstractState(j)']
      BY <2>1
    <2>4. CASE Enqueue(j)
      <3>1. status[j] = "absent" BY <2>4, EnqueueAbsent
      <3>2. ~InHandler(j) BY <3>1, HandlerHolds
      <3>3. AbstractState(j) = "none" /\ AbstractState(j)' = "waiting"
        BY <1>1, <2>4, <3>1, <3>2 DEF Enqueue, AbstractState, ExclusionInv, TypeOK
      <3>4. ASSUME NEW u \in Job, PlainTQ!Same(DedupKey, j, u)
            PROVE  AbstractState(u) \notin {"waiting", "running"}
        <4>1. ~Live(u)
          BY <2>4, <3>4 DEF PlainTQ!Same, Enqueue, DedupTaken, Account, DedupHeld
        <4>2. QED BY <4>1 DEF Live, AbstractState, ExclusionInv, TypeOK, Row
      <3>5. PlainTQ!Submit(j) BY <2>2, <2>3, <3>3, <3>4 DEF PlainTQ!Submit, PlainTQ!Set
      <3>6. QED BY <3>5 DEF PlainTQ!Next
    <2>5. CASE DeletePending(j)
      <3>1. status[j] = "pending" BY <2>5 DEF DeletePending, Cancellable
      <3>2. ~InHandler(j) BY <3>1, HandlerHolds
      <3>3. AbstractState(j) = "waiting" /\ AbstractState(j)' = "gone"
        BY <1>1, <2>5, <3>1, <3>2 DEF DeletePending, Cancellable, AbstractState, ExclusionInv, TypeOK
      <3>4. PlainTQ!Withdraw({j}) BY <2>2, <2>3, <3>3 DEF PlainTQ!Withdraw
      <3>5. {j} \in SUBSET Job OBVIOUS
      <3>6. QED BY <3>4, <3>5 DEF PlainTQ!Next
    <2>6. CASE PurgeOld(j)
      <3>1. AbstractState(j) = "done" /\ AbstractState(j)' = "gone"
        BY <1>1, <2>6 DEF PurgeOld, AbstractState, ExclusionInv, TypeOK
      <3>2. PlainTQ!Forget(j) BY <2>2, <2>3, <3>1 DEF PlainTQ!Forget, PlainTQ!Set
      <3>3. QED BY <3>2 DEF PlainTQ!Next
    <2>7. QED BY <1>3, <2>4, <2>5, <2>6
  <1>4. QED BY <1>2, <1>3 DEF RowStep

\* The steps of runJob are steps of the abstract queue.
LEMMA RunStepRefines ==
    ASSUME ExclusionInv, Account, NEW w \in Worker, RunStep(w)
    PROVE  PlainTQ!Next \/ Unseen
  <1>. USE DEF rowVars, pollVars
  <1>. DEFINE A == [k \in Job |-> AbstractState(k)]
  <1>0. PICK j \in Job : work[w] = j /\ Busy(w)
    BY DEF RunStep, Load, RowGone, Complete, Fail, Attempt, Exhausted, FreesKey, Vanish,
           Strand, Busy, ExclusionInv,
       TypeOK, WorkIffBusy
  <1>1. \A v \in Worker : v # w => work'[v] = work[v] /\ stage'[v] = stage[v]
    BY <1>0 DEF RunStep, Load, RowGone, Complete, Fail, Attempt, Exhausted, FreesKey, Vanish,
                Strand, Release, ExclusionInv,
       TypeOK
  <1>2. \A v \in Worker : Busy(v) /\ work[v] = j => v = w
    BY <1>0 DEF ExclusionInv, OneSlotPerJob
  <1>3. work'[w] = j \/ work'[w] = NoJob
    BY <1>0 DEF RunStep, Load, RowGone, Complete, Fail, Attempt, Exhausted, FreesKey, Vanish,
                Strand, Release, ExclusionInv,
       TypeOK
  <1>4. \A k \in Job : k # j => (InHandler(k)' <=> InHandler(k))
    BY <1>0, <1>1, <1>3, NoJobFresh DEF InHandler, Running
  <1>5. InHandler(j) <=> Running(w)
    BY <1>0, <1>2 DEF InHandler, Running, Busy
  <1>6. \A k \in Job : k # j => status'[k] = status[k]
    BY <1>0 DEF RunStep, Load, RowGone, Complete, Fail, Attempt, Exhausted, FreesKey, Vanish,
                Strand, ExclusionInv, TypeOK
  <1>7. \A k \in Job : k # j => AbstractState(k)' = AbstractState(k)
    BY <1>0, <1>4, <1>6 DEF AbstractState
  <1>8. A' = [A EXCEPT ![j] = AbstractState(j)'] BY <1>0, <1>7
  <1>9. ASSUME stage'[w] = "idle" PROVE ~InHandler(j)'
    <2>1. \A v \in Worker : v # w /\ Busy(v) => work'[v] # j BY <1>0, <1>1, <1>2
    <2>2. QED BY <1>0, <1>1, <1>9, <2>1 DEF InHandler, Running, Busy
  <1>10. CASE Load(w)
    <2>1. UNCHANGED <<status, attempts>> BY <1>0, <1>10 DEF Load, RowGone
    <2>2. CASE status[j] = "deleted"
      <3>1. ~Running(w) /\ stage'[w] = "idle"
        BY <1>0, <1>10, <2>2 DEF Load, RowGone, Running, Release, ExclusionInv, TypeOK
      <3>2. ~InHandler(j) /\ ~InHandler(j)' BY <1>0, <1>5, <1>9, <3>1
      <3>3. Unseen BY <1>0, <1>4, <2>1, <3>2, InvisibleStep
      <3>4. QED BY <3>3
    <2>3. CASE status[j] # "deleted"
      <3>1. ~Running(w) /\ Running(w)' /\ work'[w] = j
        BY <1>0, <1>10, <2>3 DEF Load, RowGone, Running, ExclusionInv, TypeOK
      <3>2. status[j] = "processing" BY <1>0, <2>3 DEF ExclusionInv, HeldRow
      <3>3. AbstractState(j) = "waiting" /\ AbstractState(j)' = "running"
        BY <1>0, <1>5, <2>1, <3>1, <3>2 DEF AbstractState, InHandler
      <3>4. \A u \in Job : ~PlainTQ!Same([k \in Job |-> NoKey], j, u)
        BY <1>0 DEF PlainTQ!Same
      <3>5. PlainTQ!Begin(j)
        BY <1>0, <1>8, <2>1, <3>3, <3>4 DEF PlainTQ!Begin, PlainTQ!Set
      <3>6. QED BY <1>0, <3>5 DEF PlainTQ!Next
    <2>4. QED BY <2>2, <2>3
  <1>11. CASE Complete(w)
    <2>1. AbstractState(j) = "running"
      BY <1>0, <1>5, <1>11, HandlerHolds DEF Complete, Running, AbstractState
    <2>2. AbstractState(j)' = "done"
      BY <1>0, <1>11 DEF Complete, AbstractState, ExclusionInv, TypeOK
    <2>3. PlainTQ!Finish(j)
      BY <1>0, <1>8, <1>11, <2>1, <2>2 DEF Complete, PlainTQ!Finish, PlainTQ!Set
    <2>4. QED BY <1>0, <2>3 DEF PlainTQ!Next
  <1>12. CASE Fail(w)
    <2>1. AbstractState(j) = "running" /\ status[j] = "processing"
      BY <1>0, <1>5, <1>12, HandlerHolds DEF Fail, Attempt, Exhausted, FreesKey, Running, AbstractState
    <2>2. stage'[w] = "idle" BY <1>0, <1>12 DEF Fail, Attempt, Exhausted, FreesKey, Release, ExclusionInv, TypeOK
    <2>3. tries[w] = attempts[j] /\ attempts[j] \in Nat
      BY <1>0, <1>12 DEF Fail, Attempt, Exhausted, FreesKey, Account, TriesCurrent, Running, ExclusionInv, TypeOK
    <2>4. attempts[j] <= MaxAttempts /\ attempts[j] # MaxAttempts
      BY <1>0, <2>1 DEF Account, AttemptsAccounted
    <2>5. status'[j] = IF attempts[j] + 1 = MaxAttempts THEN "failed" ELSE "pending"
      <3>1. attempts[j] + 1 >= MaxAttempts <=> attempts[j] + 1 = MaxAttempts
        BY <1>0, <2>3, <2>4, ConstAssumption
      <3>2. QED BY <1>0, <1>12, <2>3, <3>1 DEF Fail, Attempt, Exhausted, FreesKey, ExclusionInv, TypeOK
    <2>6. AbstractState(j)' = IF attempts[j] + 1 = MaxAttempts THEN "dead" ELSE "waiting"
      BY <1>0, <1>9, <2>2, <2>5 DEF AbstractState
    <2>7. attempts' = [attempts EXCEPT ![j] = @ + 1] BY <1>0, <1>12, <2>3 DEF Fail, Attempt, Exhausted, FreesKey
    <2>8. PlainTQ!Err(j) BY <1>0, <1>8, <2>1, <2>6, <2>7 DEF PlainTQ!Err, PlainTQ!Set
    <2>9. QED BY <1>0, <2>8 DEF PlainTQ!Next
  <1>13. CASE Vanish(w)
    BY <1>0, <1>13 DEF Vanish, ExclusionInv, HeldRow
  <1>14. CASE Strand(w)
    <2>1. UNCHANGED <<status, attempts>> BY <1>0, <1>14 DEF Strand
    <2>2. ~InHandler(j)'
      BY <1>0, <1>9, <1>14 DEF Strand, Release, ExclusionInv, TypeOK
    <2>3. CASE ~Running(w) BY <1>0, <1>4, <1>5, <2>1, <2>2, <2>3, InvisibleStep
    <2>4. CASE Running(w)
      <3>1. status[j] = "processing" BY <1>0, <1>5, <2>4, HandlerHolds
      <3>2. AbstractState(j) = "running" /\ AbstractState(j)' = "waiting"
        BY <1>0, <1>5, <2>1, <2>2, <2>4, <3>1 DEF AbstractState
      <3>3. PlainTQ!Interrupt({j}) BY <1>0, <1>7, <2>1, <3>2 DEF PlainTQ!Interrupt
      <3>4. QED BY <1>0, <3>3 DEF PlainTQ!Next
    <2>5. QED BY <2>3, <2>4
  <1>15. QED BY <1>10, <1>11, <1>12, <1>13, <1>14 DEF RunStep

\* The steps of a poll are invisible in the abstract queue.
LEMMA PollStepRefines ==
    ASSUME ExclusionInv, NEW i \in Instance, PollStep(i)
    PROVE  Unseen
  <1>. USE DEF rowVars, slotVars
  <1>1. CASE ReapingPoll(i)
    <2>1. \A j \in Job : InHandler(j)' <=> InHandler(j)
      BY <1>1 DEF ReapingPoll, Orphan, WakeUp, InHandler, Running
    <2>2. QED BY <1>1, <2>1, InvisibleStep DEF ReapingPoll, Orphan, WakeUp, Requeue, Stuck
  <1>2. CASE Claim(i)
    <2>1. \A w \in Worker :
             \/ work'[w] = work[w] /\ stage'[w] = stage[w]
             \/ stage[w] = "idle" /\ stage'[w] = "claimed"
      <3>1. PICK g \in [Slot -> batch[i] \cup {NoJob}] :
               /\ \A j \in batch[i] : \E s \in IdleSlots(i, QueueOf[j]) : g[s] = j
               /\ \A s, t \in Slot : g[s] = g[t] /\ g[s] # NoJob => s = t
               /\ work' = [w \in Worker |-> IF w[1] = i /\ g[w[2]] # NoJob
                                            THEN g[w[2]] ELSE work[w]]
               /\ stage' = [w \in Worker |-> IF w[1] = i /\ g[w[2]] # NoJob
                                             THEN "claimed" ELSE stage[w]]
        BY <1>2 DEF Claim
      <3>2. SUFFICES ASSUME NEW w \in Worker, w[1] = i, g[w[2]] # NoJob
                     PROVE  stage[w] = "idle"
        BY <3>1
      <3>3. w = <<i, w[2]>> /\ w[2] \in Slot BY <3>2 DEF Worker
      <3>4. PICK s \in IdleSlots(i, QueueOf[g[w[2]]]) : g[s] = g[w[2]]
        BY <3>1, <3>2, <3>3
      <3>5. s = w[2] BY <3>1, <3>2, <3>3, <3>4 DEF IdleSlots
      <3>6. QED BY <3>3, <3>4, <3>5 DEF IdleSlots, Busy
    <2>2. \A j \in Job : InHandler(j)' <=> InHandler(j)
      BY <2>1 DEF InHandler, Running
    <2>3. \A j \in Job : \/ status'[j] = status[j]
                         \/ status[j] = "pending" /\ status'[j] = "processing"
      BY <1>2 DEF Claim, ExclusionInv, BatchUnclaimed
    <2>4. UNCHANGED attempts BY <1>2 DEF Claim
    <2>5. QED BY <2>2, <2>3, <2>4, InvisibleStep
  <1>3. CASE \/ PlainPoll(i) \/ ClaimFails(i) \/ EndPoll(i)
             \/ \E q \in Queue : Scan(i, q)
    <2>1. UNCHANGED <<status, attempts, work, stage>>
      BY <1>3 DEF PlainPoll, WakeUp, ClaimFails, EndPoll, Scan
    <2>2. QED BY <2>1, InvisibleStep DEF InHandler, Running
  <1>4. QED BY <1>1, <1>2, <1>3 DEF PollStep

\* A crash interrupts the running tasks; a start is invisible.
LEMMA ProcessRefines ==
    ASSUME ExclusionInv, NEW i \in Instance, Start(i) \/ Crash(i)
    PROVE  PlainTQ!Next \/ Unseen
  <1>1. CASE Start(i)
    BY <1>1, InvisibleStep DEF Start, InHandler, Running, rowVars, slotVars
  <1>2. CASE Crash(i)
    <2>. DEFINE T == {j \in Job : \E w \in Worker : w[1] = i /\ Running(w) /\ work[w] = j}
    <2>1. UNCHANGED <<status, attempts>> BY <1>2 DEF Crash, rowVars
    <2>2. \A w \in Worker : IF w[1] = i THEN ~Running(w)'
                            ELSE work'[w] = work[w] /\ (Running(w)' <=> Running(w))
      BY <1>2 DEF Crash, Running
    <2>3. \A j \in T : InHandler(j) /\ status[j] = "processing"
      BY HandlerHolds DEF InHandler
    <2>4. \A j \in T : ~InHandler(j)'
      <3>1. SUFFICES ASSUME NEW j \in T, NEW v \in Worker, Running(v)', work'[v] = j
                     PROVE  FALSE
        BY DEF InHandler
      <3>2. v[1] # i /\ Running(v) /\ work[v] = j BY <2>2, <3>1
      <3>3. PICK w \in Worker : w[1] = i /\ Running(w) /\ work[w] = j BY <3>1
      <3>4. v = w BY <3>2, <3>3 DEF ExclusionInv, OneSlotPerJob, Busy, Running
      <3>5. QED BY <3>2, <3>3, <3>4
    <2>5. \A j \in T : AbstractState(j) = "running" /\ AbstractState(j)' = "waiting"
      BY <2>1, <2>3, <2>4 DEF AbstractState
    <2>6. \A j \in Job \ T : InHandler(j)' <=> InHandler(j)
      BY <2>2 DEF InHandler
    <2>7. \A j \in Job \ T : AbstractState(j)' = AbstractState(j)
      BY <2>1, <2>6 DEF AbstractState
    <2>8. PlainTQ!Interrupt(T) BY <2>1, <2>5, <2>7 DEF PlainTQ!Interrupt
    <2>9. QED BY <2>8 DEF PlainTQ!Next
  <1>3. QED BY <1>1, <1>2

\* The cleanup endpoint is invisible in the abstract queue.
LEMMA CleanupRefines ==
    ASSUME CleanupOrphans PROVE Unseen
  <1>1. \A j \in Job : InHandler(j)' <=> InHandler(j)
    BY DEF CleanupOrphans, InHandler, Running, slotVars
  <1>2. QED BY <1>1, InvisibleStep DEF CleanupOrphans, Requeue, Stuck

\* Every step is a step of the queue without serial keys or leaves it unchanged.
LEMMA StepRefines ==
    ExclusionInv /\ Account /\ [Next]_vars => [PlainTQ!Next]_(PlainTQ!vars)
  <1>1. SUFFICES ASSUME ExclusionInv, Account, [Next]_vars PROVE PlainTQ!Next \/ Unseen
    BY DEF Unseen, PlainTQ!vars
  <1>2. CASE UNCHANGED vars
    BY <1>2, InvisibleStep DEF vars, rowVars, slotVars, InHandler, Running
  <1>4. CASE Tick BY <1>4, InvisibleStep DEF Tick, slotVars, InHandler, Running
  <1>3. QED
    BY <1>1, <1>2, <1>4, RowStepRefines, RunStepRefines, PollStepRefines, ProcessRefines,
       CleanupRefines DEF Next

\* Initial states are initial states of the abstract queue.
LEMMA InitRefines == Init => PlainTQ!Init
  BY DEF Init, PlainTQ!Init, AbstractState

\* With one live process in which running handlers are protected, the queue
\* implements the abstract task queue without serial keys, however long its
\* handlers run: all that the queues of broadcasts and webhooks rely on.
THEOREM ImplementsPlain ==
    ASSUME Protected, ~Overlap PROVE Spec => PlainTQ!Spec
  BY Excluded, AccountInit, AccountStep, InitRefines, StepRefines, PTL
     DEF Spec, PlainTQ!Spec

\* A step of the queue without serial keys that ends with no two siblings in
\* their handlers is a step of the queue with them.
LEMMA SerialKeysObeyed ==
    PlainTQ!Next /\ SerialExclusion' => TQ!Next
  <1>1. SUFFICES ASSUME PlainTQ!Next, SerialExclusion' PROVE TQ!Next
    OBVIOUS
  <1>2. ASSUME NEW t \in Job, PlainTQ!Begin(t) PROVE TQ!Begin(t)
    <2>1. /\ [j \in Job |-> AbstractState(j)]' =
               [[j \in Job |-> AbstractState(j)] EXCEPT ![t] = "running"]
          /\ AbstractState(t) = "waiting"
      BY <1>2 DEF PlainTQ!Begin, PlainTQ!Set
    <2>2. \A u \in Job : AbstractState(u)' = IF u = t THEN "running" ELSE AbstractState(u)
      BY <2>1
    <2>3. ASSUME NEW u \in Job, TQ!Same(SerialKey, t, u), AbstractState(u) = "running"
          PROVE  FALSE
      <3>1. u # t /\ SerialKey[t] # NoKey /\ SerialKey[t] = SerialKey[u]
        BY <2>3 DEF TQ!Same
      <3>2. InHandler(t)' /\ InHandler(u)' BY <2>2, <2>3 DEF AbstractState
      <3>3. PICK v \in Worker, w \in Worker :
               Running(v)' /\ work'[v] = t /\ Running(w)' /\ work'[w] = u
        BY <3>2 DEF InHandler
      <3>4. QED BY <1>1, <3>1, <3>3 DEF SerialExclusion
    <2>4. QED BY <1>2, <2>3 DEF PlainTQ!Begin, TQ!Begin, PlainTQ!Set, TQ!Set
  <1>3. ASSUME NEW t \in Job
        PROVE  /\ PlainTQ!Submit(t) => TQ!Submit(t)
               /\ PlainTQ!Finish(t) => TQ!Finish(t)
               /\ PlainTQ!Err(t) => TQ!Err(t)
               /\ PlainTQ!Forget(t) => TQ!Forget(t)
    BY DEF PlainTQ!Submit, TQ!Submit, PlainTQ!Finish, TQ!Finish, PlainTQ!Err, TQ!Err,
       PlainTQ!Forget, TQ!Forget, PlainTQ!Set, TQ!Set, PlainTQ!Same, TQ!Same
  <1>4. ASSUME NEW T \in SUBSET Job
        PROVE  /\ PlainTQ!Interrupt(T) => TQ!Interrupt(T)
               /\ PlainTQ!Withdraw(T) => TQ!Withdraw(T)
    BY DEF PlainTQ!Interrupt, TQ!Interrupt, PlainTQ!Withdraw, TQ!Withdraw
  <1>5. QED BY <1>1, <1>2, <1>3, <1>4 DEF PlainTQ!Next, TQ!Next

\* With leases that cover their handlers as well, the queue implements the
\* abstract task queue, for any jobs, keys, slots and faults.
THEOREM Implements ==
    ASSUME LeaseCovers, ~Overlap PROVE Spec => ImplementsTaskQueue
  <1>1. Protected BY DEF Protected
  <1>2. PlainTQ!Init => TQ!Init BY DEF PlainTQ!Init, TQ!Init
  <1>3. [PlainTQ!Next]_(PlainTQ!vars) /\ SerialExclusion' => [TQ!Next]_(TQ!vars)
    BY SerialKeysObeyed DEF PlainTQ!vars, TQ!vars
  <1>4. QED
    BY <1>1, <1>2, <1>3, ImplementsPlain, OneAtATime, PTL
       DEF PlainTQ!Spec, TQ!Spec, ImplementsTaskQueue
=============================================================================
