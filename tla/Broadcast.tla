----------------------------- MODULE Broadcast -----------------------------
(***************************************************************************)
(* One broadcast: the operator requests of backend/src/modules/broadcasts/ *)
(* broadcasts.service.ts and the jobs of broadcast.worker.ts, on top of    *)
(* the queue as TaskQueue describes it.                                    *)
(*                                                                         *)
(* Requests and job handlers are processes whose every database statement  *)
(* or call to Meta is a step, so what was read may be stale when written.  *)
(***************************************************************************)
EXTENDS Integers, FiniteSets

CONSTANTS
    Contact,        \* the resolved audience
    Missing,        \* contacts (or templates, numbers) gone by send time
    Request,        \* concurrent operator requests
    Slot,           \* concurrency of the broadcast worker
    MaxAttempts,    \* max_attempts of a job
    MaxJobs,        \* bound on jobs enqueued
    MaxCalls,       \* bound on operator requests
    MaxTroubles     \* bound on failed statements, failed calls to Meta and restarts

ASSUME BroadcastConstAssumption ==
    /\ Missing \subseteq Contact /\ IsFiniteSet(Contact) /\ IsFiniteSet(Slot)
    /\ Request \cap Slot = {}
    /\ {MaxAttempts, MaxJobs, MaxCalls, MaxTroubles} \subseteq Nat /\ MaxAttempts > 0

JobId    == 1..MaxJobs
NoJob    == 0
Dispatch == "dispatch"      \* payload.kind of the fan-out job
Actor    == Request \cup Slot
Total    == Cardinality(Contact)

VARIABLES
    status,         \* broadcasts.status
    sent, failed,   \* sent_count, failed_count
    active,         \* the tenant is not suspended
    state, tries,   \* the queue: see TaskQueue
    payload,        \* job: Dispatch, or the contact to send to
    pc,             \* actor: the statement it runs next
    left,           \* actor: contacts its dispatch has still to enqueue
    job,            \* slot: the job it runs
    threw,          \* slot: its handler is going to rethrow
    accepted,       \* messages Meta has accepted
    stop,           \* ghost: no cancel was written yet, the last one was clean, or
                    \* it crossed a write of the status decided on before it
    late,           \* ghost: messages accepted since a clean cancel
    skipped,        \* jobs consumed unsent, or given up before they counted
    calls, troubles

rowVars   == <<status, sent, failed>>
queueVars == <<state, tries, payload>>
procVars  == <<pc, left, job, threw>>
metaVars  == <<accepted, stop, late, skipped>>
envVars   == <<active, calls, troubles>>
vars      == <<rowVars, queueVars, procVars, metaVars, envVars>>

Queue == INSTANCE TaskQueue WITH
            Task <- JobId, NoKey <- NoJob,
            SerialKey <- [n \in JobId |-> NoJob], DedupKey <- [n \in JobId |-> NoJob]

Step == {"idle", "dispatch", "fan", "mark", "schedule", "plan", "purge", "cancel",
         "handle", "load", "miss", "send", "record", "count", "check", "complete", "catch"}

TypeOK ==
    /\ status \in {"draft", "scheduled", "sending", "completed", "cancelled"}
    /\ sent \in Nat /\ failed \in Nat
    /\ active \in BOOLEAN
    /\ state \in [JobId -> {"none", "waiting", "running", "done", "dead", "gone"}]
    /\ tries \in [JobId -> 0..MaxAttempts]
    /\ payload \in [JobId -> Contact \cup {Dispatch}]
    /\ pc \in [Actor -> Step]
    /\ left \in [Actor -> SUBSET Contact]
    /\ job \in [Slot -> JobId \cup {NoJob}]
    /\ \A s \in Slot : pc[s] # "idle" <=> job[s] # NoJob
    /\ threw \in [Slot -> BOOLEAN]
    /\ accepted \in Nat
    /\ stop \in {"none", "clean", "crossed"} /\ late \in Nat
    /\ skipped \subseteq JobId
    /\ calls \in 0..MaxCalls /\ troubles \in 0..MaxTroubles

Init ==
    /\ status = "draft" /\ sent = 0 /\ failed = 0 /\ active = TRUE
    /\ Queue!Init /\ payload = [n \in JobId |-> Dispatch]
    /\ pc = [a \in Actor |-> "idle"] /\ left = [a \in Actor |-> {}]
    /\ job = [s \in Slot |-> NoJob] /\ threw = [s \in Slot |-> FALSE]
    /\ accepted = 0 /\ stop = "none" /\ late = 0 /\ skipped = {}
    /\ calls = 0 /\ troubles = 0

Goto(a, from, to) == pc[a] = from /\ pc' = [pc EXCEPT ![a] = to]
Fault == troubles < MaxTroubles /\ troubles' = troubles + 1 /\ UNCHANGED <<active, calls>>

Enqueue(what) ==
    \E n \in JobId :
        /\ \A m \in JobId : m < n <=> state[m] # "none"
        /\ Queue!Submit(n)
        /\ payload' = [payload EXCEPT ![n] = what]

-----------------------------------------------------------------------------
(* Operator requests.                                                      *)

\* get(), then the check of the status it returned.
Accept(r, allowed, next) ==
    /\ Goto(r, "idle", next)
    /\ status \in allowed
    /\ calls < MaxCalls /\ calls' = calls + 1
    /\ UNCHANGED <<rowVars, queueVars, left, job, threw, metaVars, active, troubles>>

SendNow(r)  == Accept(r, {"draft", "scheduled"}, "dispatch")
Schedule(r) == Accept(r, {"draft"}, "schedule")
Cancel(r)   == Accept(r, {"draft", "scheduled", "sending"}, "purge")

ScheduleMark(r) ==
    /\ Goto(r, "schedule", "plan")
    /\ status' = "scheduled"
    /\ UNCHANGED <<sent, failed, queueVars, left, job, threw, metaVars, envVars>>

SchedulePlan(r) ==
    /\ Goto(r, "plan", "idle")
    /\ Enqueue(Dispatch)
    /\ UNCHANGED <<rowVars, left, job, threw, metaVars, envVars>>

\* DELETE FROM jobs: every pending row of the broadcast, of either kind.
CancelPurge(r) ==
    /\ Goto(r, "purge", "cancel")
    /\ Queue!Withdraw({n \in JobId : state[n] = "waiting"})
    /\ UNCHANGED <<rowVars, payload, left, job, threw, metaVars, envVars>>

\* Whoever has passed its check of the status and is about to write another.
Crossing == {a \in Actor : pc[a] \in {"schedule", "mark", "complete"}}

CancelMark(r) ==
    /\ Goto(r, "cancel", "idle")
    /\ status' = "cancelled"
    /\ stop' = IF Crossing = {} THEN "clean" ELSE "crossed"
    /\ UNCHANGED <<sent, failed, queueVars, left, job, threw, accepted, late, skipped, envVars>>

\* The statement the request is at fails: an error response, nothing undone.
RequestFails(r) ==
    /\ pc[r] # "idle" /\ pc' = [pc EXCEPT ![r] = "idle"]
    /\ left' = [left EXCEPT ![r] = {}] /\ Fault
    /\ UNCHANGED <<rowVars, queueVars, job, threw, metaVars>>

-----------------------------------------------------------------------------
(* The end of a handler: runJob settles the job.                           *)

KeepJob(s) == job[s]
Freed(s)   == NoJob

\* A definition directly above another with the same parameters, such as KeepJob
\* above Freed, is a faulty variant that the mutation runs put in the place of
\* the one below it.

Leave(s) ==
    /\ pc' = [pc EXCEPT ![s] = "idle"]
    /\ left' = [left EXCEPT ![s] = {}]
    /\ job' = [job EXCEPT ![s] = Freed(s)]
    /\ threw' = [threw EXCEPT ![s] = FALSE]
    /\ UNCHANGED payload

Resolve(s) == Leave(s) /\ Queue!Finish(job[s])
Throw(s)   == Leave(s) /\ Queue!Err(job[s])

\* A request just returns.
Return(a) ==
    IF a \in Slot THEN Resolve(a)
                  ELSE /\ pc' = [pc EXCEPT ![a] = "idle"] /\ left' = [left EXCEPT ![a] = {}]
                       /\ UNCHANGED <<queueVars, job, threw>>

-----------------------------------------------------------------------------
(* dispatch(), called by sendNow and by the dispatch job.                  *)

DispatchRead(a) ==
    /\ pc[a] = "dispatch"
    /\ IF status = "cancelled"
          THEN Return(a)
          ELSE /\ Goto(a, "dispatch", IF Contact = {} THEN "complete" ELSE "mark")
               /\ UNCHANGED <<queueVars, left, job, threw>>
    /\ UNCHANGED <<rowVars, metaVars, envVars>>

DispatchMark(a) ==
    /\ Goto(a, "mark", "fan")
    /\ status' = "sending"
    /\ left' = [left EXCEPT ![a] = Contact]
    /\ UNCHANGED <<sent, failed, queueVars, job, threw, metaVars, envVars>>

Fan(a) ==
    /\ pc[a] = "fan" /\ left[a] # {}
    /\ \E c \in left[a] : Enqueue(c) /\ left' = [left EXCEPT ![a] = @ \ {c}]
    /\ UNCHANGED <<rowVars, pc, job, threw, metaVars, envVars>>

FanEnds(a) ==
    /\ pc[a] = "fan" /\ left[a] = {}
    /\ Return(a)
    /\ UNCHANGED <<rowVars, metaVars, envVars>>

-----------------------------------------------------------------------------
(* The worker.                                                             *)

Claim(s, n) ==
    /\ Goto(s, "idle", "handle")
    /\ Queue!Begin(n)
    /\ job' = [job EXCEPT ![s] = n]
    /\ UNCHANGED <<rowVars, payload, left, threw, metaVars, envVars>>

Skip(s) == skipped' = skipped \cup {job[s]} /\ UNCHANGED <<accepted, stop, late>>

\* A job of a suspended tenant is consumed.
Handle(s) ==
    /\ pc[s] = "handle"
    /\ IF active
          THEN /\ Goto(s, "handle", IF payload[job[s]] = Dispatch THEN "dispatch" ELSE "load")
               /\ UNCHANGED <<queueVars, left, job, threw, metaVars>>
          ELSE Resolve(s) /\ Skip(s)
    /\ UNCHANGED <<rowVars, envVars>>

Never == FALSE
Cancelled == status = "cancelled"

\* The broadcast, then the contact, the template and the number.
Load(s) ==
    /\ pc[s] = "load"
    /\ IF Cancelled
          THEN Resolve(s) /\ Skip(s)
          ELSE /\ Goto(s, "load", IF payload[job[s]] \in Missing THEN "miss" ELSE "send")
               /\ UNCHANGED <<queueVars, left, job, threw, metaVars>>
    /\ UNCHANGED <<rowVars, envVars>>

CountSent   == sent' = sent + 1 /\ UNCHANGED failed
CountFailed == failed' = failed + 1 /\ UNCHANGED sent

CountNothing == UNCHANGED <<sent, failed>>
CountMissing == CountFailed

\* The recipient cannot be served: counted, and done; markCompletedIfDone is
\* not called here.
Miss(s) ==
    /\ pc[s] = "miss" /\ Resolve(s)
    /\ CountMissing
    /\ UNCHANGED <<status, metaVars, envVars>>

\* Meta accepts the message.
Deliver ==
    /\ accepted' = accepted + 1
    /\ late' = IF stop = "clean" THEN late + 1 ELSE late
    /\ UNCHANGED stop

Send(s) ==
    /\ Goto(s, "send", "record")
    /\ Deliver
    /\ UNCHANGED <<rowVars, queueVars, left, job, threw, skipped, envVars>>

\* The conversation and the message row.
Record(s) ==
    /\ Goto(s, "record", "count")
    /\ UNCHANGED <<rowVars, queueVars, left, job, threw, metaVars, envVars>>

Count(s) ==
    /\ Goto(s, "count", "check")
    /\ CountSent
    /\ UNCHANGED <<status, queueVars, left, job, threw, metaVars, envVars>>

\* markCompletedIfDone: one read, one write.
Check(s) ==
    /\ pc[s] = "check"
    /\ IF sent + failed >= Total /\ status = "sending"
          THEN Goto(s, "check", "complete") /\ UNCHANGED <<queueVars, left, job, threw>>
          ELSE IF threw[s] THEN Throw(s) ELSE Resolve(s)
    /\ UNCHANGED <<rowVars, metaVars, envVars>>

Complete(a) ==
    /\ pc[a] = "complete"
    /\ status' = "completed"
    /\ IF a \in Slot /\ threw[a] THEN Throw(a) ELSE Return(a)
    /\ UNCHANGED <<sent, failed, metaVars, envVars>>

\* The call to Meta or a later statement of the try block fails.
Trip(s) ==
    /\ pc[s] \in {"send", "record", "count", "check", "complete"} /\ ~threw[s]
    /\ payload[job[s]] # Dispatch
    /\ pc' = [pc EXCEPT ![s] = "catch"] /\ Fault
    /\ UNCHANGED <<rowVars, queueVars, left, job, threw, metaVars>>

\* The answer of Meta is lost: the message is out, the handler sees a failure.
SendUnheard(s) ==
    /\ Goto(s, "send", "catch") /\ Fault
    /\ Deliver
    /\ UNCHANGED <<rowVars, queueVars, left, job, threw, skipped>>

CountAsSent  == CountSent
CountAttempt == CountFailed

\* Every failed attempt counts; then the error is thrown on to the queue.
Catch(s) ==
    /\ Goto(s, "catch", "check")
    /\ CountAttempt
    /\ threw' = [threw EXCEPT ![s] = TRUE]
    /\ UNCHANGED <<status, queueVars, left, job, metaVars, envVars>>

\* A statement outside the try block, or in the catch block, fails: the attempt
\* is not counted, unless it was before, and it may be the last.
Uncounted(s) == pc[s] \notin {"check", "complete"}

HandlerFails(s) ==
    /\ \/ pc[s] \in {"handle", "load", "miss", "catch", "dispatch", "mark", "fan"}
       \/ pc[s] \in {"check", "complete"} /\ (threw[s] \/ payload[job[s]] = Dispatch)
    /\ IF Uncounted(s) /\ tries[job[s]] + 1 = MaxAttempts
          THEN Skip(s) ELSE UNCHANGED metaVars
    /\ Throw(s) /\ Fault
    /\ UNCHANGED rowVars

-----------------------------------------------------------------------------
(* The surroundings.                                                       *)

\* The tenant is suspended or reactivated.
Toggle ==
    /\ active' = ~active
    /\ UNCHANGED <<rowVars, queueVars, procVars, metaVars, calls, troubles>>

\* The process dies with every request and handler; the rows stay.
Crash ==
    /\ Fault
    /\ pc' = [a \in Actor |-> "idle"] /\ left' = [a \in Actor |-> {}]
    /\ job' = [s \in Slot |-> NoJob] /\ threw' = [s \in Slot |-> FALSE]
    /\ Queue!Interrupt({n \in JobId : state[n] = "running"})
    /\ UNCHANGED <<rowVars, payload, metaVars>>

RequestStep(r) ==
    \/ SendNow(r) \/ Schedule(r) \/ Cancel(r)
    \/ ScheduleMark(r) \/ SchedulePlan(r) \/ CancelPurge(r) \/ CancelMark(r)
    \/ RequestFails(r)

DispatchStep(a) == DispatchRead(a) \/ DispatchMark(a) \/ Fan(a) \/ FanEnds(a) \/ Complete(a)

HandlerStep(s) ==
    \/ Handle(s) \/ Load(s) \/ Miss(s) \/ Send(s) \/ Record(s) \/ Count(s) \/ Check(s)
    \/ Trip(s) \/ SendUnheard(s) \/ Catch(s) \/ HandlerFails(s)

Next ==
    \/ \E r \in Request : RequestStep(r)
    \/ \E a \in Actor : DispatchStep(a)
    \/ \E s \in Slot : HandlerStep(s) \/ \E n \in JobId : Claim(s, n)
    \/ Toggle \/ Crash

Spec == Init /\ [][Next]_vars

\* Requests, handlers and the poller keep going.
Fairness ==
    /\ \A a \in Actor : WF_vars(DispatchStep(a))
    /\ \A s \in Slot : WF_vars(HandlerStep(s)) /\ WF_vars(\E n \in JobId : Claim(s, n))

FairSpec == Spec /\ Fairness

-----------------------------------------------------------------------------
(* Properties.                                                             *)

\* "Any state <= sending -> cancelled": a cancel lasts, and after it only handlers
\* that had read the broadcast before still send, one message per slot, whatever
\* is queued, enqueued, retried or restarted.  The exception is a dispatch, a
\* schedule request or a completion that had checked the status when the cancel
\* was written: none checks again, it writes its own status over the cancel, and
\* the audience is served.
CancelStops == stop = "clean" => status = "cancelled" /\ late <= Cardinality(Slot)

Ended == {n \in JobId : payload[n] # Dispatch /\ state[n] \in {"done", "dead"}}

\* Send jobs whose attempt has been counted and that their handler is about to end.
Settling == {n \in JobId : /\ payload[n] # Dispatch
                           /\ \E s \in Slot : job[s] = n /\ pc[s] \in {"check", "complete"}}
Counted  == (Ended \ skipped) \cup Settling

\* Every send job that has ended was counted, sent or failed, unless it was
\* consumed unsent or its last attempt failed before it could count: the
\* completion test would else never be met.  And until something fails nothing
\* is counted twice: the test is not met too early.
EveryEndCounted ==
    /\ sent + failed >= Cardinality(Ended \ skipped)
    /\ troubles = 0 => sent + failed = Cardinality(Counted)

Reporting == {s \in Slot : pc[s] \in {"record", "count"}}

\* The report never claims more messages than Meta has accepted; and until a
\* statement, a call or the process fails, nothing Meta has accepted is missing
\* from it but what a slot is about to count, whoever else dispatches or cancels.
SentIsBacked ==
    /\ sent <= accepted
    /\ troubles = 0 => accepted = sent + Cardinality(Reporting)

\* "sending -> completed when sent_count + failed_count >= total".
CompletesWhenCounted ==
    sent + failed >= Total /\ status = "sending" ~> status # "sending"
=============================================================================
