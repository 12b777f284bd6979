--------------------------- MODULE TenantBilling ---------------------------
(***************************************************************************)
(* One tenant's account: its invoices and suspension                       *)
(* (backend/src/modules/billing/billing.service.ts and                     *)
(* invoice-generator.service.ts, and the super-admin's requests in         *)
(* modules/super-admin/super-admin.service.ts), and the in-memory cache of *)
(* its status (common/services/company-status.service.ts).                 *)
(*                                                                         *)
(* Cron calls and requests are processes: every database statement is a    *)
(* step, so a decision may be written after what it rests on has changed.  *)
(***************************************************************************)
EXTENDS Integers, FiniteSets

CONSTANTS
    Request,        \* concurrent cron calls and requests
    Reader,         \* handlers that ask isActive
    MaxCycles,      \* bound on billing cycles, each with one invoice
    MaxCalls,       \* bound on requests, cron calls and questions to isActive
    MaxTroubles     \* bound on failed statements and restarts

ASSUME BillingConstAssumption == {MaxCycles, MaxCalls, MaxTroubles} \subseteq Nat /\ MaxCycles > 0

Invoice == 1..MaxCycles         \* invoice_number is unique and names the cycle
NoInv   == 0
Unpaid  == {"pending", "overdue"}

VARIABLES
    cycle,          \* the current billing cycle
    invoice,        \* none, pending, overdue or paid
    age,            \* invoice: 0, 1 past due, 2 past due by the grace days
    status,         \* companies.activation_status; suspended_at is set with it
    by,             \* who suspended it last: nobody, cron or admin
    grace,          \* grace_until is in the future
    cached,         \* the status cache: none, or what it holds
    pc, inv,        \* request: next statement, the invoice it is about
    lifts,          \* request: it has found a suspension to lift
    outdated,       \* request: the account was written since it read it
    hasty,          \* the suspension or its grace was written on such a reading
    rpc, rval,      \* reader: next statement, the status it read
    late,           \* reader: the status was written since it read
    stale,          \* the cached value was late
    calls, troubles

accountVars == <<cycle, invoice, age, status, by, grace, hasty>>
cacheVars   == <<cached, stale>>
requestVars == <<pc, inv, lifts, outdated>>
readerVars  == <<rpc, rval, late>>
envVars     == <<calls, troubles>>
billVars    == <<accountVars, cacheVars, requestVars, readerVars, envVars>>

BillTypeOK ==
    /\ cycle \in Invoice
    /\ invoice \in [Invoice -> {"none", "paid"} \cup Unpaid] /\ age \in [Invoice -> 0..2]
    /\ status \in {"active", "suspended"} /\ by \in {"nobody", "cron", "admin"}
    /\ grace \in BOOLEAN /\ hasty \in BOOLEAN
    /\ cached \in {"none", "active", "suspended"} /\ stale \in BOOLEAN
    /\ pc \in [Request -> {"idle", "find", "raise", "pay", "lift", "owes", "reactivate",
                           "list", "check", "suspend", "extend", "drop"}]
    /\ inv \in [Request -> Invoice \cup {NoInv}]
    /\ lifts \in [Request -> BOOLEAN] /\ outdated \in [Request -> BOOLEAN]
    /\ \A r \in Request : pc[r] \in {"find", "raise", "pay"} <=> inv[r] # NoInv
    /\ rpc \in [Reader -> {"idle", "read", "put", "yes"}]
    /\ rval \in [Reader -> {"active", "suspended"}] /\ late \in [Reader -> BOOLEAN]
    /\ calls \in 0..MaxCalls /\ troubles \in 0..MaxTroubles

BillInit ==
    /\ cycle = 1
    /\ \E late0 \in BOOLEAN :    \* nothing is billed yet, or one invoice is overdue
        /\ invoice = [i \in Invoice |-> IF late0 /\ i = 1 THEN "overdue" ELSE "none"]
        /\ age = [i \in Invoice |-> IF late0 /\ i = 1 THEN 2 ELSE 0]
    /\ status = "active" /\ by = "nobody" /\ grace = FALSE /\ hasty = FALSE
    /\ cached = "none" /\ stale = FALSE
    /\ pc = [r \in Request |-> "idle"] /\ inv = [r \in Request |-> NoInv]
    /\ lifts = [r \in Request |-> FALSE] /\ outdated = [r \in Request |-> FALSE]
    /\ rpc = [d \in Reader |-> "idle"] /\ rval = [d \in Reader |-> "active"]
    /\ late = [d \in Reader |-> FALSE]
    /\ calls = 0 /\ troubles = 0

-----------------------------------------------------------------------------
(* Steps of a request.  A definition directly above another with the same   *)
(* parameters, such as Halt above ToIdle, is a faulty variant that the      *)
(* mutation runs put in the place of the one below it.                      *)

Call    == calls < MaxCalls /\ calls' = calls + 1 /\ UNCHANGED troubles
Trouble == troubles < MaxTroubles /\ troubles' = troubles + 1 /\ UNCHANGED calls

At(r, step) == pc[r] = step
To(r, step) == pc' = [pc EXCEPT ![r] = step] /\ UNCHANGED <<inv, lifts>>
Halt(r)  == pc' = [pc EXCEPT ![r] = "idle"] /\ UNCHANGED <<inv, lifts>>
ToIdle(r) ==
    /\ pc' = [pc EXCEPT ![r] = "idle"]
    /\ inv' = [inv EXCEPT ![r] = NoInv] /\ lifts' = [lifts EXCEPT ![r] = FALSE]
Pick(r, i, step) == pc' = [pc EXCEPT ![r] = step] /\ inv' = [inv EXCEPT ![r] = i] /\ UNCHANGED lifts

\* The statement only reads.
Reads == UNCHANGED <<accountVars, cacheVars, outdated, readerVars>>

\* Ghost: a write of the account by r, or of an invoice, overtakes every request
\* that is between its reading and its writing.
Deciding    == {r \in Request : pc[r] \in {"check", "suspend", "extend"}}
Overtake(r) == outdated' = [q \in Request |-> q # r /\ (outdated[q] \/ q \in Deciding)]

\* A write of activation_status; readers that have read it hold an old value.
Write(r, to, who) ==
    /\ status' = to /\ by' = who
    /\ late' = [d \in Reader |-> late[d] \/ rpc[d] = "put"]
    /\ Overtake(r)
    /\ UNCHANGED <<cycle, invoice, age, cacheVars, rpc, rval>>

-----------------------------------------------------------------------------
(* generateDueInvoices: one invoice per cycle for an active company.        *)

Generate(r) ==
    /\ At(r, "idle") /\ status = "active" /\ Pick(r, cycle, "find")
    /\ Reads /\ Call

FindInvoice(r) ==
    /\ At(r, "find")
    /\ IF invoice[inv[r]] = "none" THEN To(r, "raise") ELSE ToIdle(r)
    /\ Reads /\ UNCHANGED envVars

\* The unique invoice_number turns a second create into a skip.
Raise(r) ==
    /\ At(r, "raise") /\ ToIdle(r)
    /\ invoice' = IF invoice[inv[r]] = "none" THEN [invoice EXCEPT ![inv[r]] = "pending"]
                                             ELSE invoice
    /\ UNCHANGED <<cycle, age, status, by, grace, hasty, cacheVars, outdated, readerVars, envVars>>

-----------------------------------------------------------------------------
(* enforceCron.                                                             *)

Enforce(r) ==
    /\ At(r, "idle") /\ To(r, "list")
    /\ invoice' = [i \in Invoice |-> IF invoice[i] = "pending" /\ age[i] > 0 THEN "overdue"
                                     ELSE invoice[i]]
    /\ UNCHANGED <<cycle, age, status, by, grace, hasty, cacheVars, outdated, readerVars>> /\ Call

ListDelinquent(r) ==
    /\ At(r, "list")
    /\ IF \E i \in Invoice : invoice[i] = "overdue" /\ age[i] = 2 THEN To(r, "check") ELSE ToIdle(r)
    /\ Reads /\ UNCHANGED envVars

AnyCompany  == status = "active"
Suspendable == status = "active" /\ ~grace

CheckCompany(r) ==
    /\ At(r, "check")
    /\ IF Suspendable THEN To(r, "suspend") /\ UNCHANGED outdated
       ELSE ToIdle(r) /\ outdated' = [outdated EXCEPT ![r] = FALSE]
    /\ UNCHANGED <<accountVars, cacheVars, readerVars, envVars>>

Suspend(r) ==
    /\ At(r, "suspend") /\ To(r, "drop")
    /\ Write(r, "suspended", "cron")
    /\ hasty' = outdated[r] /\ UNCHANGED <<grace, envVars>>

-----------------------------------------------------------------------------
(* markPaid, and maybeReactivate.                                           *)

MarkPaid(r, i) ==
    /\ At(r, "idle") /\ invoice[i] \in Unpaid /\ Pick(r, i, "pay")
    /\ Reads /\ Call

Pay(r) ==
    /\ At(r, "pay")
    /\ pc' = [pc EXCEPT ![r] = "lift"] /\ inv' = [inv EXCEPT ![r] = NoInv] /\ UNCHANGED lifts
    /\ invoice' = [invoice EXCEPT ![inv[r]] = "paid"]
    /\ Overtake(r)
    /\ UNCHANGED <<cycle, age, status, by, grace, hasty, cacheVars, readerVars, envVars>>

\* suspended_at is set by every suspension, so the test of it adds nothing.
FindSuspension(r) ==
    /\ At(r, "lift")
    /\ IF status = "suspended" THEN To(r, "owes") ELSE ToIdle(r)
    /\ Reads /\ UNCHANGED envVars

StillOwes == \E i \in Invoice : invoice[i] \in Unpaid

CountOwed(r) ==
    /\ At(r, "owes")
    /\ IF StillOwes THEN ToIdle(r) ELSE To(r, "reactivate")
    /\ Reads /\ UNCHANGED envVars

Reactivate(r) ==
    /\ At(r, "reactivate") /\ To(r, "drop")
    /\ Write(r, "active", "nobody")
    /\ hasty' = FALSE /\ UNCHANGED <<grace, envVars>>

-----------------------------------------------------------------------------
(* The super-admin: suspendClient, activateClient, grantGrace.              *)

SuspendClient(r) ==
    /\ At(r, "idle") /\ To(r, "drop")
    /\ Write(r, "suspended", "admin")
    /\ hasty' = FALSE /\ UNCHANGED grace /\ Call

ActivateClient(r) ==
    /\ At(r, "idle") /\ To(r, "drop")
    /\ Write(r, "active", "nobody")
    /\ hasty' = FALSE /\ UNCHANGED grace /\ Call

GrantGrace(r) ==
    /\ At(r, "idle")
    /\ pc' = [pc EXCEPT ![r] = "extend"]
    /\ lifts' = [lifts EXCEPT ![r] = status = "suspended"]
    /\ UNCHANGED inv /\ Reads /\ Call

\* until is in the future, or null: then nothing is lifted.
Extend(r) ==
    /\ At(r, "extend")
    /\ \E until \in BOOLEAN :
        /\ grace' = until
        /\ IF until /\ lifts[r]
           THEN /\ pc' = [pc EXCEPT ![r] = "drop"] /\ lifts' = [lifts EXCEPT ![r] = FALSE]
                /\ UNCHANGED inv
                /\ Write(r, "active", "nobody") /\ hasty' = FALSE
           ELSE /\ ToIdle(r) /\ Overtake(r)
                /\ hasty' = (hasty \/ outdated[r])
                /\ UNCHANGED <<cycle, invoice, age, status, by, cacheVars, readerVars>>
    /\ UNCHANGED envVars

-----------------------------------------------------------------------------
(* CompanyStatusService: isActive and invalidate.                           *)

KeepCached == cached' = cached /\ stale' = stale
DropCached == cached' = "none" /\ stale' = FALSE

Invalidate(r) ==
    /\ At(r, "drop") /\ ToIdle(r) /\ DropCached
    /\ UNCHANGED <<accountVars, outdated, readerVars, envVars>>

Answer(d, value) == rpc' = [rpc EXCEPT ![d] = IF value = "active" THEN "yes" ELSE "idle"]

IsActive(d) ==
    /\ rpc[d] = "idle"
    /\ IF cached = "none" THEN rpc' = [rpc EXCEPT ![d] = "read"] ELSE Answer(d, cached)
    /\ UNCHANGED <<accountVars, cacheVars, requestVars, rval, late>> /\ Call

ReadStatus(d) ==
    /\ rpc[d] = "read" /\ rpc' = [rpc EXCEPT ![d] = "put"]
    /\ rval' = [rval EXCEPT ![d] = status]
    /\ UNCHANGED <<accountVars, cacheVars, requestVars, late, envVars>>

\* The value read before the await is cached after it.
Fill(d) ==
    /\ rpc[d] = "put" /\ Answer(d, rval[d])
    /\ cached' = rval[d] /\ stale' = late[d]
    /\ rval' = [rval EXCEPT ![d] = "active"] /\ late' = [late EXCEPT ![d] = FALSE]
    /\ UNCHANGED <<accountVars, requestVars, envVars>>

\* The caller of isActive is done with what an active tenant may do.
Acted(d) ==
    /\ rpc[d] = "yes" /\ rpc' = [rpc EXCEPT ![d] = "idle"]
    /\ UNCHANGED <<accountVars, cacheVars, requestVars, rval, late, envVars>>

CacheExpires ==
    /\ cached # "none" /\ DropCached
    /\ UNCHANGED <<accountVars, requestVars, readerVars, envVars>>

-----------------------------------------------------------------------------
(* Time and failures.                                                       *)

InvoiceAges(i) ==
    /\ invoice[i] \in Unpaid /\ age[i] < 2 /\ age' = [age EXCEPT ![i] = @ + 1]
    /\ UNCHANGED <<cycle, invoice, status, by, grace, hasty>>

NextCycle ==
    /\ cycle < MaxCycles /\ cycle' = cycle + 1
    /\ UNCHANGED <<invoice, age, status, by, grace, hasty>>

GraceEnds ==
    /\ grace /\ grace' = FALSE
    /\ UNCHANGED <<cycle, invoice, age, status, by, hasty>>

Time ==
    /\ \/ \E i \in Invoice : InvoiceAges(i)
       \/ NextCycle \/ GraceEnds
    /\ UNCHANGED <<cacheVars, requestVars, readerVars, envVars>>

\* The statement the request is at fails: an error, nothing undone.
RequestFails(r) ==
    /\ pc[r] \notin {"idle", "drop"} /\ ToIdle(r) /\ Trouble
    /\ outdated' = [outdated EXCEPT ![r] = FALSE]
    /\ UNCHANGED <<accountVars, cacheVars, readerVars>>

\* The cache is in memory.
Restart ==
    /\ Trouble /\ DropCached
    /\ pc' = [r \in Request |-> "idle"] /\ inv' = [r \in Request |-> NoInv]
    /\ lifts' = [r \in Request |-> FALSE] /\ outdated' = [r \in Request |-> FALSE]
    /\ rpc' = [d \in Reader |-> "idle"] /\ rval' = [d \in Reader |-> "active"]
    /\ late' = [d \in Reader |-> FALSE]
    /\ UNCHANGED accountVars

\* isActive throws: its caller, dispatch, swallows it and the event is lost.
ReaderFails(d) ==
    /\ rpc[d] = "read" /\ rpc' = [rpc EXCEPT ![d] = "idle"] /\ Trouble
    /\ UNCHANGED <<accountVars, cacheVars, requestVars, rval, late>>

RequestStep(r) ==
    \/ Generate(r) \/ FindInvoice(r) \/ Raise(r)
    \/ Enforce(r) \/ ListDelinquent(r) \/ CheckCompany(r) \/ Suspend(r)
    \/ (\E i \in Invoice : MarkPaid(r, i))
    \/ Pay(r) \/ FindSuspension(r) \/ CountOwed(r) \/ Reactivate(r)
    \/ SuspendClient(r) \/ ActivateClient(r) \/ GrantGrace(r) \/ Extend(r)
    \/ Invalidate(r) \/ RequestFails(r)

ReaderStep(d) == IsActive(d) \/ ReadStatus(d) \/ Fill(d) \/ ReaderFails(d)

BillNext ==
    \/ \E r \in Request : RequestStep(r)
    \/ \E d \in Reader : ReaderStep(d) \/ Acted(d)
    \/ CacheExpires \/ Time \/ Restart

BillSpec == BillInit /\ [][BillNext]_billVars

-----------------------------------------------------------------------------
(* Properties.                                                              *)

\* A tenant the cron has suspended owes something and has no grace left, or the
\* payment that cleared it is just being followed up, unless enforceCron or
\* grantGrace wrote on a reading that a payment, a grace or an activation had
\* overtaken, or the follow-up failed: neither is repaired by a later run.
SuspensionIsBacked ==
    status = "suspended" /\ by = "cron" /\ ~hasty =>
        /\ ~grace
        /\ \/ StillOwes \/ troubles > 0
           \/ \E r \in Request : pc[r] \in {"lift", "owes", "reactivate"}

\* "a status change takes effect immediately" (company-status.service.ts): what
\* is cached is the status, or the invalidation is on its way, or the reader
\* that filled the cache had read before the change.  The last lasts its TTL.
CacheAgrees ==
    cached \notin {"none", status} => stale \/ \E r \in Request : pc[r] = "drop"

\* maybeReactivate, "Only auto-lift suspensions the billing cron applied": a
\* payment never ends a suspension the super-admin imposed.
ManualStays == [][(\E r \in Request : Reactivate(r)) => by # "admin"]_billVars
=============================================================================
