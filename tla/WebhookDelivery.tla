-------------------------- MODULE WebhookDelivery --------------------------
(***************************************************************************)
(* Outbound webhooks of the tenant of TenantBilling to one of its          *)
(* endpoints: dispatch (backend/src/modules/webhooks/                      *)
(* webhook-dispatcher.service.ts), which asks the status cache first, the  *)
(* endpoint's owner (webhooks.service.ts) and the 'webhook' job            *)
(* (webhook.worker.ts), over the queue as TaskQueue describes it.          *)
(***************************************************************************)
EXTENDS TenantBilling

CONSTANTS
    Slot,           \* concurrency of the 'webhook' worker
    MaxAttempts,    \* max_attempts of a job
    MaxJobs         \* bound on jobs enqueued

ASSUME DeliveryConstAssumption == MaxAttempts \in Nat \ {0} /\ MaxJobs \in Nat

JobId == 1..MaxJobs
NoJob == 0

VARIABLES
    state, tries,   \* the queue: see TaskQueue
    endpoint,       \* webhook_endpoints.status, gone once deleted
    listed,         \* the endpoint cache: none, or whether it lists the endpoint
    oldList,        \* the cached list was read before a change
    dpc, dval,      \* dispatch after isActive: next statement, the list it read
    dlate,          \* the endpoint was changed since it read
    opc, oval,      \* the owner's request: next statement, the status it read
    wpc, job,       \* slot: next statement, job
    result,         \* slot: what became of its attempt
    logged,         \* job: results in webhook_logs
    heard           \* job: times the endpoint answered success

queueVars == <<state, tries>>
ownerVars == <<endpoint, listed, oldList, opc, oval>>
sendVars  == <<dpc, dval, dlate>>
slotVars  == <<wpc, job, result>>
outVars   == <<logged, heard>>
hookVars  == <<queueVars, ownerVars, sendVars, slotVars, outVars>>
vars      == <<billVars, hookVars>>

Queue == INSTANCE TaskQueue WITH
            Task <- JobId, NoKey <- NoJob,
            SerialKey <- [n \in JobId |-> NoJob], DedupKey <- [n \in JobId |-> NoJob]

\* drained: endpoint missing or inactive, job stale, or secret unreadable.
Final  == {"success", "client_error", "drained"}
Result == Final \cup {"retry"}

TypeOK ==
    /\ BillTypeOK
    /\ state \in [JobId -> {"none", "waiting", "running", "done", "dead", "gone"}]
    /\ tries \in [JobId -> 0..MaxAttempts]
    /\ endpoint \in {"active", "inactive", "gone"}
    /\ listed \in {"none", "with", "without"} /\ oldList \in BOOLEAN
    /\ dpc \in [Reader -> {"idle", "load", "keep", "push"}]
    /\ \A d \in Reader : dpc[d] # "idle" => rpc[d] = "yes"
    /\ dval \in [Reader -> BOOLEAN] /\ dlate \in [Reader -> BOOLEAN]
    /\ opc \in {"idle", "flip", "drop"} /\ oval \in {"active", "inactive"}
    /\ wpc \in [Slot -> {"idle", "read", "post", "log", "end"}]
    /\ job \in [Slot -> JobId \cup {NoJob}]
    /\ \A s \in Slot : /\ wpc[s] # "idle" <=> job[s] # NoJob
                       /\ wpc[s] # "idle" => state[job[s]] = "running"
    /\ result \in [Slot -> Result]
    /\ logged \in [JobId -> SUBSET Result] /\ heard \in [JobId -> Nat]

Init ==
    /\ BillInit /\ Queue!Init
    /\ endpoint = "active" /\ listed = "none" /\ oldList = FALSE
    /\ dpc = [d \in Reader |-> "idle"] /\ dval = [d \in Reader |-> FALSE]
    /\ dlate = [d \in Reader |-> FALSE]
    /\ opc = "idle" /\ oval = "active"
    /\ wpc = [s \in Slot |-> "idle"] /\ job = [s \in Slot |-> NoJob]
    /\ result = [s \in Slot |-> "retry"]
    /\ logged = [n \in JobId |-> {}] /\ heard = [n \in JobId |-> 0]

-----------------------------------------------------------------------------
(* dispatch, once isActive has said yes.                                    *)

DGoto(d, from, to) ==
    /\ rpc[d] = "yes" /\ dpc[d] = from
    /\ dpc' = [dpc EXCEPT ![d] = to]
    /\ rpc' = IF to = "idle" THEN [rpc EXCEPT ![d] = "idle"] ELSE rpc

DispatchOnly == UNCHANGED <<accountVars, cacheVars, requestVars, rval, late, slotVars, outVars>>

UseList(d) ==
    /\ DGoto(d, "idle", IF listed = "none" THEN "load" ELSE IF listed = "with" THEN "push" ELSE "idle")
    /\ dpc[d] = "idle"
    /\ DispatchOnly /\ UNCHANGED <<queueVars, ownerVars, dval, dlate, envVars>>

LoadList(d) ==
    /\ DGoto(d, "load", "keep")
    /\ dval' = [dval EXCEPT ![d] = endpoint = "active"]
    /\ DispatchOnly /\ UNCHANGED <<queueVars, ownerVars, dlate, envVars>>

KeepList(d) ==
    /\ DGoto(d, "keep", IF dval[d] THEN "push" ELSE "idle")
    /\ listed' = IF dval[d] THEN "with" ELSE "without"
    /\ oldList' = dlate[d]
    /\ dval' = [dval EXCEPT ![d] = FALSE] /\ dlate' = [dlate EXCEPT ![d] = FALSE]
    /\ DispatchOnly /\ UNCHANGED <<queueVars, endpoint, opc, oval, envVars>>

Push(d) ==
    /\ DGoto(d, "push", "idle")
    /\ \E n \in JobId : Queue!Submit(n) /\ \A k \in 1..(n - 1) : state[k] # "none"
    /\ DispatchOnly /\ UNCHANGED <<ownerVars, dval, dlate, envVars>>

\* The error is swallowed and the event with it.
DispatchFails(d) ==
    /\ \E step \in {"load", "push"} : DGoto(d, step, "idle")
    /\ Trouble
    /\ DispatchOnly /\ UNCHANGED <<queueVars, ownerVars, dval, dlate>>

-----------------------------------------------------------------------------
(* The owner: toggleEndpoint, updateEndpoint, deleteEndpoint.               *)

Elsewhere == UNCHANGED <<accountVars, cacheVars, requestVars, readerVars, queueVars, slotVars, outVars>>

OwnerStarts ==
    /\ opc = "idle" /\ endpoint # "gone" /\ opc' = "flip" /\ oval' = endpoint
    /\ Call /\ Elsewhere /\ UNCHANGED <<endpoint, listed, oldList, sendVars>>

\* webhook_logs.webhook_id references the endpoint, ON DELETE RESTRICT.
Referenced == \E n \in JobId : logged[n] # {}

\* The status read is inverted, or the endpoint is deleted.
OwnerWrites ==
    /\ opc = "flip" /\ opc' = "drop" /\ oval' = "active"
    /\ \/ endpoint' = IF oval = "active" THEN "inactive" ELSE "active"
       \/ endpoint' = "gone" /\ ~Referenced
    /\ dlate' = [d \in Reader |-> dlate[d] \/ dpc[d] = "keep"]
    /\ Elsewhere /\ UNCHANGED <<listed, oldList, dpc, dval, envVars>>

KeepsList == UNCHANGED <<listed, oldList>>
DropList  == listed' = "none" /\ oldList' = FALSE

OwnerInvalidates ==
    /\ opc = "drop" /\ opc' = "idle" /\ DropList
    /\ Elsewhere /\ UNCHANGED <<endpoint, oval, sendVars, envVars>>

\* The write fails, a delete for good once the endpoint has a log.
OwnerFails ==
    /\ opc = "flip" /\ opc' = "idle" /\ oval' = "active"
    /\ Trouble \/ (Referenced /\ UNCHANGED envVars)
    /\ Elsewhere /\ UNCHANGED <<endpoint, listed, oldList, sendVars>>

ListExpires ==
    /\ listed # "none" /\ DropList
    /\ Elsewhere /\ UNCHANGED <<endpoint, opc, oval, sendVars, envVars>>

-----------------------------------------------------------------------------
(* The 'webhook' worker.  It does not ask for the tenant's status.          *)

WorkerOnly == UNCHANGED <<accountVars, cacheVars, requestVars, readerVars, ownerVars, sendVars>>
WGoto(s, from, to) == wpc[s] = from /\ wpc' = [wpc EXCEPT ![s] = to]

Claim(s) ==
    /\ WGoto(s, "idle", "read")
    /\ \E n \in JobId : Queue!Begin(n) /\ job' = [job EXCEPT ![s] = n]
    /\ WorkerOnly /\ UNCHANGED <<result, outVars, envVars>>

Drain(s) ==
    /\ WGoto(s, "read", "log") /\ result' = [result EXCEPT ![s] = "drained"]
    /\ WorkerOnly /\ UNCHANGED <<queueVars, job, outVars, envVars>>

Ready(s) ==
    /\ WGoto(s, "read", "post") /\ endpoint = "active"
    /\ WorkerOnly /\ UNCHANGED <<queueVars, job, result, outVars, envVars>>

\* classify, with a network error or a timeout among the retries.
Post(s) ==
    /\ WGoto(s, "post", "log")
    /\ \E answer \in {"success", "client_error", "retry"} :
        /\ result' = [result EXCEPT ![s] = answer]
        /\ heard' = IF answer = "success" THEN [heard EXCEPT ![job[s]] = @ + 1] ELSE heard
    /\ WorkerOnly /\ UNCHANGED <<queueVars, job, logged, envVars>>

Free(s) ==
    /\ wpc' = [wpc EXCEPT ![s] = "idle"] /\ job' = [job EXCEPT ![s] = NoJob]
    /\ result' = [result EXCEPT ![s] = "retry"]

Swallow(s) == TRUE
Settled(s) == result[s] \in Final

\* writeLog, and then the job returns or throws.
Log(s) ==
    /\ wpc[s] = "log" /\ endpoint # "gone"
    /\ logged' = [logged EXCEPT ![job[s]] = @ \cup {result[s]}]
    /\ IF Settled(s) THEN WGoto(s, "log", "end") /\ UNCHANGED <<queueVars, job, result>>
       ELSE Queue!Err(job[s]) /\ Free(s)
    /\ WorkerOnly /\ UNCHANGED <<heard, envVars>>

\* Without the endpoint the insert breaks the foreign key, and the job throws.
Unlogged(s) ==
    /\ wpc[s] = "log" /\ endpoint = "gone" /\ Queue!Err(job[s]) /\ Free(s)
    /\ WorkerOnly /\ UNCHANGED <<outVars, envVars>>

KeepWaiting(s) == Queue!Interrupt({job[s]})
Settle(s)      == Queue!Finish(job[s])

Finish(s) ==
    /\ wpc[s] = "end" /\ Settle(s) /\ Free(s)
    /\ WorkerOnly /\ UNCHANGED <<outVars, envVars>>

\* A statement outside the try around post: the metering or the log.
WorkerFails(s) ==
    /\ wpc[s] \in {"read", "post", "log"} /\ Queue!Err(job[s]) /\ Free(s)
    /\ Trouble /\ WorkerOnly /\ UNCHANGED outVars

-----------------------------------------------------------------------------
(* The process dies: caches and handlers are gone, claimed jobs wait again. *)

Crash ==
    /\ Restart
    /\ Queue!Interrupt({n \in JobId : state[n] = "running"})
    /\ DropList /\ opc' = "idle" /\ oval' = "active"
    /\ dpc' = [d \in Reader |-> "idle"] /\ dval' = [d \in Reader |-> FALSE]
    /\ dlate' = [d \in Reader |-> FALSE]
    /\ wpc' = [s \in Slot |-> "idle"] /\ job' = [s \in Slot |-> NoJob]
    /\ result' = [s \in Slot |-> "retry"]
    /\ UNCHANGED <<endpoint, outVars>>

Dispatch(d) == UseList(d) \/ LoadList(d) \/ KeepList(d) \/ Push(d) \/ DispatchFails(d)
Work(s) == Claim(s) \/ Drain(s) \/ Ready(s) \/ Post(s) \/ Log(s) \/ Unlogged(s)
           \/ Finish(s) \/ WorkerFails(s)

Next ==
    \/ /\ \/ \E r \in Request : RequestStep(r)
          \/ \E d \in Reader : ReaderStep(d)
          \/ CacheExpires \/ Time
       /\ UNCHANGED hookVars
    \/ \E d \in Reader : Dispatch(d)
    \/ OwnerStarts \/ OwnerWrites \/ OwnerInvalidates \/ OwnerFails \/ ListExpires
    \/ \E s \in Slot : Work(s)
    \/ Crash

Spec == Init /\ [][Next]_vars

-----------------------------------------------------------------------------
(* Properties.                                                              *)

\* The endpoint list in the cache is right, or its invalidation is on its way,
\* or the dispatch that filled it had read before the change.
ListAgrees ==
    listed # "none" /\ (listed = "with") # (endpoint = "active") => oldList \/ opc = "drop"

\* A delivery ends well only with a final result that its owner can read in the
\* log, and is given up only after its attempts, each of which was logged or
\* failed.  The exception: the job of a deleted endpoint has nowhere to log to, so
\* it never ends well, against "log + consume (do NOT throw)" at webhook.worker.ts:60,
\* but throws at each attempt and dies without an entry.
EndedIsLogged ==
    \A n \in JobId :
        /\ state[n] = "done" => logged[n] \cap Final # {} /\ endpoint # "gone"
        /\ state[n] = "dead" => \/ "retry" \in logged[n] \/ troubles >= MaxAttempts
                                \/ endpoint = "gone" /\ logged[n] = {}

\* An endpoint that has answered success is called again at most once for each
\* restart or failed statement, and without these the job ends as soon as the
\* success is in the log.
SuccessEnds ==
    \A n \in JobId :
        /\ heard[n] <= 1 + troubles
        /\ "success" \in logged[n] /\ troubles = 0 =>
            state[n] = "done" \/ \E s \in Slot : wpc[s] = "end" /\ job[s] = n
=============================================================================
