------------------------------ MODULE JobQueue ------------------------------
(***************************************************************************)
(* The MySQL-backed job queue: backend/src/common/services/                *)
(* job-queue.service.ts, together with the two maintenance endpoints of    *)
(* modules/cron that write the same table.                                 *)
(*                                                                         *)
(* The jobs table is shared by every process; polls, slots and running     *)
(* handlers live in the memory of one process incarnation and die with it. *)
(* Every database round trip of the code is one action, so that anything   *)
(* can happen between a poll's SELECT and its UPDATE, or between a         *)
(* handler's start and the write of its result.                            *)
(*                                                                         *)
(* Time is abstracted to what it decides: a delayed or backed-off job falls *)
(* due, a lease lapses, a poll starts, a millisecond goes by.  Of run_at the  *)
(* model keeps the age, the milliseconds it lies back: two may be equal, and *)
(* ORDER BY run_at takes the greatest first.                               *)
(***************************************************************************)
EXTENDS Integers, FiniteSets

CONSTANTS
    Job,            \* ids of the rows callers enqueue, in AUTO_INCREMENT order
    Instance,       \* process incarnations (INSTANCE_ID is fresh per start)
    Slot,           \* concurrency slots of one process
    Queue,          \* queue names
    QueueOf,        \* [Job -> Queue], queue_name
    SlotQueue,      \* [Slot -> Queue]: the registration a slot belongs to
    SerialKey,      \* [Job -> key or NoKey], serial_key
    DedupKey,       \* [Job -> key or NoKey], dedup_key given at enqueue
    Delayed,        \* jobs enqueued with opts.delayMs
    MaxAttempts,    \* max_attempts (3 unless the caller says otherwise)
    ScanFactor,     \* SERIAL_SCAN_MULTIPLIER
    ScanCap,        \* SERIAL_SCAN_CAP
    LeaseCovers,    \* TRUE: no handler outlives its lease
    Overlap,        \* TRUE: an old process may still run beside a new one
    Cleanup,        \* TRUE: the cleanup-orphans endpoint is called
    MaxAge,         \* bound on the milliseconds told apart
    MaxFaults,      \* bound on queue statements that fail or skip locked rows
    NoKey, NoOne

ASSUME ConstAssumption ==
    /\ QueueOf \in [Job -> Queue]
    /\ SlotQueue \in [Slot -> Queue]
    /\ MaxAttempts \in Nat \ {0}
    /\ ScanFactor \in Nat \ {0}
    /\ ScanCap \in Nat \ {0}
    /\ LeaseCovers \in BOOLEAN
    /\ Overlap \in BOOLEAN
    /\ Cleanup \in BOOLEAN
    /\ MaxAge \in Nat
    /\ MaxFaults \in Nat
    /\ NoOne \notin Instance
    /\ Job \subseteq Nat
    /\ IsFiniteSet(Job)
    /\ IsFiniteSet(Slot)

Worker == Instance \X Slot
NoJob == -1

VARIABLES
    status,     \* job row: absent, pending, processing, completed, failed, deleted
    attempts,   \* job row: attempts
    age,        \* job row or enqueue call: milliseconds since run_at, counted from
                \* 1; 0 while run_at is not taken or ahead, and when the job is over
    visible,    \* ghost: milliseconds since polls can see the row, counted alike
    leased,     \* job row: locked_until is set and still ahead
    owner,      \* job row: locked_by
    dedup,      \* job row: dedup_key still set
    life,       \* process: new, up or down
    todo,       \* process: queues the current poll has still to scan
    polling,    \* process: a poll is running
    batch,      \* process: chosen ids between the SELECT and the UPDATE
    work,       \* slot: the job it runs, or NoJob
    stage,      \* slot: idle, claimed (row not read yet), handler
    tries,      \* slot: job.attempts as read before the handler started
    faults      \* statements so far that failed, scans that skipped locked rows

rowVars  == <<status, attempts, age, visible, leased, owner, dedup>>
pollVars == <<life, todo, polling, batch>>
slotVars == <<work, stage, tries>>
vars     == <<rowVars, pollVars, slotVars, faults>>

Mishap == {"failed", "skipped"}

Row == {"absent", "pending", "processing", "completed", "failed", "deleted"}

TypeOK ==
    /\ status \in [Job -> Row]
    /\ attempts \in [Job -> Nat]
    /\ age \in [Job -> Nat]
    /\ visible \in [Job -> Nat]
    /\ leased \in [Job -> BOOLEAN]
    /\ owner \in [Job -> Instance \cup {NoOne}]
    /\ dedup \in [Job -> BOOLEAN]
    /\ life \in [Instance -> {"new", "up", "down"}]
    /\ todo \in [Instance -> SUBSET Queue]
    /\ polling \in [Instance -> BOOLEAN]
    /\ batch \in [Instance -> SUBSET Job]
    /\ work \in [Worker -> Job \cup {NoJob}]
    /\ stage \in [Worker -> {"idle", "claimed", "handler"}]
    /\ tries \in [Worker -> Nat]
    /\ faults \in [Mishap -> 0..MaxFaults]

Init ==
    /\ status = [j \in Job |-> "absent"]
    /\ attempts = [j \in Job |-> 0]
    /\ age = [j \in Job |-> 0]
    /\ visible = [j \in Job |-> 0]
    /\ leased = [j \in Job |-> FALSE]
    /\ owner = [j \in Job |-> NoOne]
    /\ dedup = [j \in Job |-> FALSE]
    /\ life = [i \in Instance |-> "new"]
    /\ todo = [i \in Instance |-> {}]
    /\ polling = [i \in Instance |-> FALSE]
    /\ batch = [i \in Instance |-> {}]
    /\ work = [w \in Worker |-> NoJob]
    /\ stage = [w \in Worker |-> "idle"]
    /\ tries = [w \in Worker |-> 0]
    /\ faults = [m \in Mishap |-> 0]

Up(i)    == life[i] = "up"
Live(j)  == status[j] \in {"pending", "processing"}
Busy(w)  == stage[w] # "idle"

StuckAnyLease(j) == status[j] = "processing"
Stuck(j) == status[j] = "processing" /\ ~leased[j]

\* A definition directly above another with the same parameters, such as
\* StuckAnyLease above Stuck, is a faulty variant that the mutation runs put in
\* the place of the one below it.

Fault(m) ==
    /\ faults["failed"] + faults["skipped"] < MaxFaults
    /\ faults' = [faults EXCEPT ![m] = @ + 1]

-----------------------------------------------------------------------------
(* Time.                                                                   *)

\* A millisecond goes by; it matters only if some run_at lies behind.
Tick ==
    /\ \E j \in Job : age[j] # 0
    /\ \A j \in Job : age[j] < MaxAge
    /\ age' = [j \in Job |-> IF age[j] = 0 THEN 0 ELSE age[j] + 1]
    /\ visible' = [j \in Job |-> IF visible[j] = 0 THEN 0 ELSE visible[j] + 1]
    /\ UNCHANGED <<status, attempts, leased, owner, dedup, pollVars, slotVars, faults>>

\* run_at of a delayed or backed-off job is reached.
FallDue(j) ==
    /\ status[j] = "pending" /\ age[j] = 0
    /\ age' = [age EXCEPT ![j] = 1]
    /\ visible' = [visible EXCEPT ![j] = 1]
    /\ UNCHANGED <<status, attempts, leased, owner, dedup, pollVars, slotVars, faults>>

\* locked_until of a claimed row passes.  With LeaseCovers the lease is longer
\* than the worst-case run time, which is what registerWorker asks of callers.
LeaseLapses(j) ==
    /\ status[j] = "processing" /\ leased[j]
    /\ LeaseCovers => \A w \in Worker : work[w] # j
    /\ leased' = [leased EXCEPT ![j] = FALSE]
    /\ UNCHANGED <<status, attempts, age, visible, owner, dedup, pollVars, slotVars, faults>>

-----------------------------------------------------------------------------
(* Processes.  One incarnation always remains to be started: the container *)
(* is restarted after a crash.                                             *)

Start(i) ==
    /\ life[i] = "new"
    /\ Overlap \/ \A o \in Instance : ~Up(o)
    /\ life' = [life EXCEPT ![i] = "up"]
    /\ UNCHANGED <<rowVars, todo, polling, batch, slotVars, faults>>

\* Out-of-memory kill, crash, deploy: the poll, the slots and the handlers go,
\* and with the last process the enqueue calls that have not inserted yet.
Crash(i) ==
    /\ Up(i)
    /\ \E o \in Instance \ {i} : life[o] # "down"
    /\ life' = [life EXCEPT ![i] = "down"]
    /\ todo' = [todo EXCEPT ![i] = {}]
    /\ polling' = [polling EXCEPT ![i] = FALSE]
    /\ batch' = [batch EXCEPT ![i] = {}]
    /\ work' = [w \in Worker |-> IF w[1] = i THEN NoJob ELSE work[w]]
    /\ stage' = [w \in Worker |-> IF w[1] = i THEN "idle" ELSE stage[w]]
    /\ tries' = [w \in Worker |-> IF w[1] = i THEN 0 ELSE tries[w]]
    /\ age' = [j \in Job |-> IF status[j] = "absent" /\ ~\E o \in Instance \ {i} : Up(o)
                               THEN 0 ELSE age[j]]
    /\ UNCHANGED <<status, attempts, visible, leased, owner, dedup, faults>>

-----------------------------------------------------------------------------
(* Callers.                                                                *)

\* UNIQUE(dedup_key): the key is taken while another row still carries it.
DedupTaken(j) ==
    /\ DedupKey[j] # NoKey
    /\ \E k \in Job \ {j} : dedup[k] /\ DedupKey[k] = DedupKey[j]

\* enqueue, first half: run_at = new Date(), before the INSERT is awaited.  What
\* a delayed job takes is only the moment it falls due.
Stamp(j) ==
    /\ status[j] = "absent" /\ age[j] = 0 /\ j \notin Delayed
    /\ \E i \in Instance : Up(i)
    /\ age' = [age EXCEPT ![j] = 1]
    /\ UNCHANGED <<status, attempts, visible, leased, owner, dedup, pollVars, slotVars, faults>>

\* enqueue, second half: the INSERT gives out the ids, in an order that need not
\* be that of the stamps.  A duplicate is a no-op that returns 0, hence no step.
Enqueue(j) ==
    /\ \A k \in Job : k >= j => status[k] = "absent"
    /\ \E i \in Instance : Up(i)
    /\ j \in Delayed \/ age[j] # 0
    /\ ~DedupTaken(j)
    /\ status' = [status EXCEPT ![j] = "pending"]
    /\ visible' = [visible EXCEPT ![j] = IF j \in Delayed THEN 0 ELSE 1]
    /\ dedup' = [dedup EXCEPT ![j] = DedupKey[j] # NoKey]
    /\ UNCHANGED <<attempts, age, leased, owner, pollVars, slotVars, faults>>

Cancellable(j) == status[j] = "pending"

\* Nothing reads the run_at of a job that is over.
OffTheClock(j) ==
    /\ age' = [age EXCEPT ![j] = 0]
    /\ visible' = [visible EXCEPT ![j] = 0]

\* Cancelling a broadcast deletes its pending rows, whoever has selected them.
DeletePending(j) ==
    /\ Cancellable(j)
    /\ \E i \in Instance : Up(i)
    /\ status' = [status EXCEPT ![j] = "deleted"]
    /\ dedup' = [dedup EXCEPT ![j] = FALSE]
    /\ OffTheClock(j)
    /\ UNCHANGED <<attempts, leased, owner, pollVars, slotVars, faults>>

-----------------------------------------------------------------------------
(* The poll: reap (throttled), then for each queue a SELECT and an UPDATE. *)

Requeue(J) ==
    /\ status' = [j \in Job |-> IF j \in J THEN "pending" ELSE status[j]]
    /\ owner' = [j \in Job |-> IF j \in J THEN NoOne ELSE owner[j]]
    /\ leased' = [j \in Job |-> leased[j] /\ j \notin J]
    /\ UNCHANGED <<attempts, age, visible, dedup>>

WakeUp(i) ==
    /\ Up(i) /\ ~polling[i]
    /\ polling' = [polling EXCEPT ![i] = TRUE]
    /\ todo' = [todo EXCEPT ![i] = Queue]
    /\ UNCHANGED <<life, batch, slotVars, faults>>

OwnStuck(i, j) == Stuck(j) /\ owner[j] = i
Orphan(i, j)   == Stuck(j) /\ owner[j] # i

\* reapOrphans: only rows whose locked_by is some other incarnation.
ReapingPoll(i) == WakeUp(i) /\ Requeue({j \in Job : Orphan(i, j)})

\* A poll inside REAP_INTERVAL_MS of the last reap, or whose reap failed.
PlainPoll(i) == WakeUp(i) /\ UNCHANGED rowVars

IdleSlots(i, q) == {s \in Slot : SlotQueue[s] = q /\ ~Busy(<<i, s>>)}

\* The WHERE clause.  A pending row never carries a lock, so the locked_until
\* test of the code adds nothing and is left out.
ReadyAgain(q, j) ==
    QueueOf[j] = q /\ (status[j] = "pending" => age[j] # 0) /\ status[j] \in {"pending", "failed"}
Ready(q, j) == QueueOf[j] = q /\ status[j] = "pending" /\ age[j] # 0

NoSibling(j) == FALSE
SiblingLeased(j) ==
    SerialKey[j] # NoKey /\ \E p \in Job : /\ SerialKey[p] = SerialKey[j]
                                          /\ status[p] = "processing" /\ leased[p]

Eligible(q) == {j \in Job : Ready(q, j) /\ ~SiblingLeased(j)}

\* The orders in which ORDER BY run_at may return rows: equal stamps come in any.
Orders(S) ==
    {f \in [S -> 1..Cardinality(S)] :
        \A j, k \in S : /\ f[j] = f[k] => j = k
                        /\ age[j] > age[k] => f[j] < f[k]}

Behind(f, S, j) == {k \in S : f[k] > f[j]}
Ahead(f, S, j)  == {k \in S : f[k] < f[j]}

ScanLimit(n) == IF n * ScanFactor < ScanCap THEN n * ScanFactor ELSE ScanCap

\* One row per serial key and batch.
AllOf(f, S) == S
Leaders(f, S) ==
    {j \in S : \/ SerialKey[j] = NoKey
               \/ \A k \in Ahead(f, S, j) : SerialKey[k] # SerialKey[j]}

\* At most `available` of the rows scanned, which come out of R in the order f.
Chosen(i, q, R, f) ==
    LET available == Cardinality(IdleSlots(i, q))
        scanned   == {j \in R : Cardinality(Ahead(f, R, j)) < ScanLimit(available)}
    IN {j \in Leaders(f, scanned) :
           Cardinality(Ahead(f, Leaders(f, scanned), j)) < available}

\* The SELECT; SKIP LOCKED passes over what another statement has in hand.
Scan(i, q) ==
    /\ q \in todo[i] /\ batch[i] = {}
    /\ todo' = [todo EXCEPT ![i] = @ \ {q}]
    /\ \/ \E L \in SUBSET Eligible(q) : \E f \in Orders(Eligible(q) \ L) :
            /\ batch' = [batch EXCEPT ![i] = Chosen(i, q, Eligible(q) \ L, f)]
            /\ IF L = {} THEN UNCHANGED faults ELSE Fault("skipped")
       \/ Fault("failed") /\ UNCHANGED batch        \* next queue
    /\ UNCHANGED <<rowVars, life, polling, slotVars>>

\* updateMany by id, with no guard on the status the SELECT saw; then one slot
\* per chosen id, whether or not its row is still there.
Claim(i) ==
    /\ batch[i] # {}
    /\ status' = [j \in Job |-> IF j \in batch[i] /\ status[j] # "deleted"
                                THEN "processing" ELSE status[j]]
    /\ leased' = [j \in Job |-> IF j \in batch[i] /\ status[j] # "deleted"
                                THEN TRUE ELSE leased[j]]
    /\ owner' = [j \in Job |-> IF j \in batch[i] /\ status[j] # "deleted"
                               THEN i ELSE owner[j]]
    /\ \E g \in [Slot -> batch[i] \cup {NoJob}] :
         /\ \A j \in batch[i] : \E s \in IdleSlots(i, QueueOf[j]) : g[s] = j
         /\ \A s, t \in Slot : g[s] = g[t] /\ g[s] # NoJob => s = t
         /\ work' = [w \in Worker |-> IF w[1] = i /\ g[w[2]] # NoJob
                                      THEN g[w[2]] ELSE work[w]]
         /\ stage' = [w \in Worker |-> IF w[1] = i /\ g[w[2]] # NoJob
                                       THEN "claimed" ELSE stage[w]]
    /\ batch' = [batch EXCEPT ![i] = {}]
    /\ UNCHANGED <<attempts, age, visible, dedup, life, todo, polling, tries, faults>>

\* The UPDATE failed: poll() rejects and the cycle ends.
ClaimFails(i) ==
    /\ batch[i] # {} /\ Fault("failed")
    /\ batch' = [batch EXCEPT ![i] = {}]
    /\ todo' = [todo EXCEPT ![i] = {}]
    /\ polling' = [polling EXCEPT ![i] = FALSE]
    /\ UNCHANGED <<rowVars, life, slotVars>>

EndPoll(i) ==
    /\ polling[i] /\ todo[i] = {} /\ batch[i] = {}
    /\ polling' = [polling EXCEPT ![i] = FALSE]
    /\ UNCHANGED <<rowVars, life, todo, batch, slotVars, faults>>

-----------------------------------------------------------------------------
(* runJob.                                                                 *)

Release(w) ==
    /\ work' = [work EXCEPT ![w] = NoJob]
    /\ stage' = [stage EXCEPT ![w] = "idle"]
    /\ tries' = [tries EXCEPT ![w] = 0]

NotPending(w) == status[work[w]] # "pending"
RowGone(w)    == status[work[w]] = "deleted"

\* findUnique: the one read of the row; a missing row ends the run.
Load(w) ==
    /\ stage[w] = "claimed"
    /\ IF RowGone(w)
          THEN Release(w)
          ELSE /\ stage' = [stage EXCEPT ![w] = "handler"]
               /\ tries' = [tries EXCEPT ![w] = attempts[work[w]]]
               /\ UNCHANGED work
    /\ UNCHANGED <<rowVars, pollVars, faults>>

\* The handler resolved and the row is written, whatever it says by now; the
\* lock columns stay as they are.
Complete(w) ==
    /\ stage[w] = "handler" /\ status[work[w]] # "deleted"
    /\ status' = [status EXCEPT ![work[w]] = "completed"]
    /\ dedup' = [dedup EXCEPT ![work[w]] = FALSE]
    /\ OffTheClock(work[w])
    /\ Release(w)
    /\ UNCHANGED <<attempts, leased, owner, pollVars, faults>>

CountDown(w) == tries[w] - 1
Attempt(w)   == tries[w] + 1

OneTooMany(n) == n > MaxAttempts
Exhausted(n)  == n >= MaxAttempts

\* dedup_key is cleared only with the last attempt.
FreesAlways(n) == TRUE
FreesKey(n)    == Exhausted(n)

\* The handler threw, or the write of its completion did: both reach the catch.
Fail(w) ==
    LET j == work[w]
        n == Attempt(w)
    IN /\ stage[w] = "handler" /\ status[j] # "deleted"
       /\ attempts' = [attempts EXCEPT ![j] = n]
       /\ status' = [status EXCEPT ![j] = IF Exhausted(n) THEN "failed" ELSE "pending"]
       /\ dedup' = [dedup EXCEPT ![j] = @ /\ ~FreesKey(n)]
       /\ OffTheClock(j)      \* for good, or until the backoff is over
       /\ leased' = [leased EXCEPT ![j] = FALSE]
       /\ owner' = [owner EXCEPT ![j] = NoOne]
       /\ Release(w)
       /\ UNCHANGED <<pollVars, faults>>

\* Both writes throw on a row that is gone.
Vanish(w) ==
    /\ stage[w] = "handler" /\ status[work[w]] = "deleted"
    /\ Release(w)
    /\ UNCHANGED <<rowVars, pollVars, faults>>

\* findUnique or the last write of the row failed: runJob rejects, the slot is
\* freed and the row stays in processing under this incarnation's name.
Strand(w) ==
    /\ Busy(w) /\ Fault("failed")
    /\ Release(w)
    /\ UNCHANGED <<rowVars, pollVars>>

-----------------------------------------------------------------------------
(* Maintenance endpoints, served by any live process.                      *)

\* GET /cron/jobs/cleanup-orphans: every lapsed row, whoever holds it.
CleanupOrphans ==
    /\ Cleanup
    /\ \E i \in Instance : Up(i)
    /\ \E j \in Job : Stuck(j)
    /\ Requeue({j \in Job : Stuck(j)})
    /\ UNCHANGED <<pollVars, slotVars, faults>>

\* GET /cron/jobs/purge-old: only completed rows carry a completed_at.
PurgeOld(j) ==
    /\ \E i \in Instance : Up(i)
    /\ status[j] = "completed"
    /\ status' = [status EXCEPT ![j] = "deleted"]
    /\ UNCHANGED <<attempts, age, visible, leased, owner, dedup, pollVars, slotVars, faults>>

-----------------------------------------------------------------------------
RunStep(w) == Load(w) \/ Complete(w) \/ Fail(w) \/ Vanish(w) \/ Strand(w)

PollStep(i) ==
    \/ ReapingPoll(i) \/ PlainPoll(i)
    \/ \E q \in Queue : Scan(i, q)
    \/ Claim(i) \/ ClaimFails(i) \/ EndPoll(i)

RowStep(j) ==
    FallDue(j) \/ LeaseLapses(j) \/ Stamp(j) \/ Enqueue(j) \/ DeletePending(j) \/ PurgeOld(j)

Next ==
    \/ \E i \in Instance : Start(i) \/ Crash(i) \/ PollStep(i)
    \/ \E w \in Worker : RunStep(w)
    \/ \E j \in Job : RowStep(j)
    \/ CleanupOrphans
    \/ Tick

Spec == Init /\ [][Next]_vars

\* A process polls on a timer and reaps every REAP_INTERVAL_MS, time passes,
\* and a handler ends (its HTTP calls have timeouts), well or badly.
Fairness ==
    /\ \A i \in Instance :
         /\ WF_vars(Start(i))
         /\ WF_vars(PlainPoll(i) \/ ReapingPoll(i)) /\ SF_vars(ReapingPoll(i))
         /\ \A q \in Queue : WF_vars(Scan(i, q))
         /\ WF_vars(Claim(i) \/ ClaimFails(i)) /\ WF_vars(EndPoll(i))
    /\ \A w \in Worker : WF_vars(RunStep(w))
    /\ \A j \in Job : WF_vars(FallDue(j)) /\ WF_vars(LeaseLapses(j))

FairSpec == Spec /\ Fairness

-----------------------------------------------------------------------------
(* Properties.                                                             *)

Running(w) == stage[w] = "handler"

\* With one live process (~Overlap) two handlers never run the same job at the
\* same time, through crashes, reaps, lost batches and late writes.  For several
\* processes ARCHITECTURE.md:142 promises it too, and there it does not hold: the
\* SELECT's locks are gone before the unguarded UPDATE, so both claim the row.
SingleExecution ==
    \A v, w \in Worker :
        Running(v) /\ Running(w) /\ work[v] = work[w] => v = w

\* Handlers of jobs that share a serial key exclude each other, across polls,
\* crashes, reaps and rows deleted between the SELECT and the UPDATE.
SerialExclusion ==
    \A v, w \in Worker :
        Running(v) /\ Running(w) /\ v # w =>
            SerialKey[work[v]] = NoKey \/ SerialKey[work[v]] # SerialKey[work[w]]

\* "Jobs sharing a non-null serialKey run one-at-a-time, in FIFO order": as far
\* as ORDER BY run_at gives it.  While a job runs, no sibling of its queue waits
\* that was in the table, and due, in a millisecond before the run_at of the
\* running one, unless a restart, a failed statement or a skipped lock has taken a turn
\* away.  Calls that overlap or share a millisecond may swap, and a job that
\* backs off takes its turn anew when it falls due again.
SerialFifo ==
    \A w \in Worker : \A j \in Job :
        /\ Running(w) /\ SerialKey[j] # NoKey
        /\ SerialKey[j] = SerialKey[work[w]] /\ QueueOf[j] = QueueOf[work[w]]
        /\ status[j] = "pending" /\ visible[j] > age[work[w]]
        => (\E m \in Mishap : faults[m] > 0) \/ \E i \in Instance : life[i] = "down"

\* A row is never reset, finished or deleted under the handler that runs it:
\* the safety argument in the comment of reapOrphans.
RunOwnsRow ==
    \A w \in Worker :
        Running(w) => status[work[w]] = "processing" /\ owner[work[w]] = w[1]

\* "rows stuck in `processing` ... that belong to a PREVIOUS process incarnation":
\* the reaper looks for no others, so a row in processing has a slot in the
\* incarnation it names, or that one is down, or a statement has failed.
OrphansAreReapable ==
    \A j \in Job : status[j] = "processing" =>
        \/ \E w \in Worker : work[w] = j /\ owner[j] = w[1]
        \/ owner[j] \in Instance /\ life[owner[j]] = "down"
        \/ faults["failed"] > 0

\* dedup_key bars a second live job for as long as the first is live, through
\* retries and reaps, and no longer.
DedupExclusion ==
    \A j, k \in Job :
        Live(j) /\ Live(k) /\ DedupKey[j] # NoKey /\ DedupKey[j] = DedupKey[k] => j = k

\* A failure count is never lost or overrun, and a job fails for good exactly
\* when its attempts are spent, however many processes have run it.
AttemptsAccounted ==
    \A j \in Job :
        /\ attempts[j] <= MaxAttempts
        /\ status[j] = "failed" <=> attempts[j] = MaxAttempts

\* A finished job is never run again and a failure is never forgotten.
TerminalFinal ==
    [][\A j \in Job :
          /\ status[j] = "completed" => status'[j] \in {"completed", "deleted"}
          /\ status[j] = "failed" => status'[j] \in {"failed", "deleted"}
          /\ attempts'[j] >= attempts[j]]_vars

\* A row no handler runs, held by an incarnation that is still up: the reaper
\* passes over it, and only the cleanup endpoint or a restart frees it.
Stranded(j) ==
    /\ status[j] = "processing" /\ owner[j] \in Instance /\ Up(owner[j])
    /\ \A w \in Worker : work[w] # j

Outlived(j) == LeaseLapses(j) /\ \E w \in Worker : work[w] = j

\* Every enqueued job ends, whatever crashes and whichever handlers outlive their
\* leases, unless a failed statement leaves it stranded or leases are outlived
\* for ever.
EveryJobSettles ==
    \/ \A j \in Job :
          status[j] = "pending" ~>
              Stranded(j) \/ status[j] \in {"completed", "failed", "deleted"}
    \/ \E j \in Job : []<><<Outlived(j)>>_vars

InHandler(j) == \E w \in Worker : Running(w) /\ work[w] = j

\* What a caller can tell of a job: pending, backed off, claimed but not started
\* and stranded rows all just wait.
AbstractState(j) ==
    CASE status[j] = "absent"    -> "none"
      [] status[j] = "completed" -> "done"
      [] status[j] = "failed"    -> "dead"
      [] status[j] = "deleted"   -> "gone"
      [] OTHER -> IF InHandler(j) THEN "running" ELSE "waiting"

TQ == INSTANCE TaskQueue WITH
        Task  <- Job,
        tries <- attempts,
        state <- [j \in Job |-> AbstractState(j)]

\* Runs, retries, crashes and maintenance together amount to the abstract task
\* queue: each step is one of its steps or leaves it unchanged.
ImplementsTaskQueue == TQ!Spec
=============================================================================
