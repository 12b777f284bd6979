--------------------------- MODULE CourierBooking ---------------------------
(***************************************************************************)
(* The shipment row of one order, and everybody who writes it: the agents' *)
(* requests and the booking job of backend/src/modules/couriers/           *)
(* shipment.service.ts, the cancel of courier-ops.service.ts, and the      *)
(* courier's news (courier-status-sync, shipment-tracking), on top of the  *)
(* queue as TaskQueue describes it.                                        *)
(*                                                                         *)
(* Every database statement or external call is a step. A request or job   *)
(* works on seen, its copy of the row, while others write the row.         *)
(***************************************************************************)
EXTENDS Integers, FiniteSets

CONSTANTS
    Courier,        \* the couriers of the tenant
    Request,        \* concurrent requests, syncs and webhooks
    Slot,           \* concurrency of the booking worker
    MaxAttempts,    \* max_attempts of a job
    MaxRows,        \* bound on rows the order may go through
    MaxJobs,        \* bound on jobs per row and lane
    MaxParcels,     \* bound on parcels booked
    MaxEvents       \* bound on requests, failures and restarts together

Manual == "manual"          \* courier_type of a fulfilment by hand

ASSUME CourierConstAssumption ==
    /\ Manual \notin Courier /\ Request \cap Slot = {}
    /\ {MaxAttempts, MaxRows, MaxJobs, MaxParcels, MaxEvents} \subseteq Nat /\ MaxAttempts > 0

NoParcel == 0
Parcel   == 1..MaxParcels
Carrier  == Courier \cup {Manual}
Actor    == Request \cup Slot

\* A job is named by its lane (bookLaneKey), the row it is for and a number.
JobId == Carrier \X (1..MaxRows) \X (1..MaxJobs)
NoJob == <<>>
Lane(j)    == <<j[1], j[2]>>
RowOf(j)   == j[2]

Status == {"none", "address_issue", "booked", "in_transit", "failed",
           "delivered", "returned", "cancelled"}
Row == [id : 0..MaxRows, status : Status, courier : Carrier,
        track : {NoParcel} \cup Parcel, ful : BOOLEAN, received : BOOLEAN]
NoRow == [id |-> 0, status |-> "none", courier |-> Manual,
          track |-> NoParcel, ful |-> FALSE, received |-> FALSE]

VARIABLES
    row,            \* the shipment row; when it is deleted the id stays
    shop,           \* the Shopify order: open, fulfilled or closed
    parcel,         \* what the courier has: none, live or dead
    maker,          \* parcel: the lane and row of the job that booked it
    stray,          \* parcels whose booking the handler never got to record
    refused,        \* parcels whose courier refused to cancel
    state, tries,   \* the queue: see TaskQueue
    pc,             \* actor: the statement it runs next
    seen,           \* actor: its copy of the row
    job,            \* slot: the job it runs
    open,           \* slot: the order had an open fulfillment order
    hand,           \* slot: the parcel just booked, not recorded yet
    flaw,           \* slot: the error being handled
    dropped,        \* rows whose job was never stored, or lost its error
    blind, blank,   \* parcels whose number, rows whose booking somebody erased
                    \* without knowing of it
    events

queueVars == <<state, tries>>
worldVars == <<shop, parcel, maker, stray, refused>>
slotVars  == <<job, open, hand, flaw>>
ghostVars == <<dropped, blind, blank>>
vars == <<row, worldVars, queueVars, pc, seen, slotVars, ghostVars, events>>

Queue == INSTANCE TaskQueue WITH
            Task <- JobId, NoKey <- NoJob,
            SerialKey <- [j \in JobId |-> Lane(j)], DedupKey <- [j \in JobId |-> NoJob]

RequestStep == {"idle", "claim", "handover", "close", "create", "reread", "enqueue",
                "resolve", "drop", "flag", "recall", "unfulfil", "delete",
                "withdraw", "void", "shut", "receive", "pull", "enrich", "push"}
SlotStep == {"idle", "read", "order", "call", "persist", "fulfil", "gid", "affirm",
             "catch", "revert"}

TypeOK ==
    /\ row \in Row
    /\ shop \in {"open", "fulfilled", "closed"}
    /\ parcel \in [Parcel -> {"none", "live", "dead"}]
    /\ maker \in [Parcel -> {NoJob} \cup Carrier \X (1..MaxRows)]
    /\ stray \subseteq Parcel /\ refused \subseteq Parcel /\ blind \subseteq Parcel
    /\ state \in [JobId -> {"none", "waiting", "running", "done", "dead"}]
    /\ tries \in [JobId -> 0..MaxAttempts]
    /\ pc \in [Actor -> RequestStep \cup SlotStep]
    /\ seen \in [Actor -> Row]
    /\ job \in [Slot -> JobId \cup {NoJob}]
    /\ \A s \in Slot : pc[s] # "idle" <=> job[s] # NoJob
    /\ open \in [Slot -> BOOLEAN]
    /\ hand \in [Slot -> {NoParcel} \cup Parcel]
    /\ flaw \in [Slot -> {"none", "permanent", "transient"}]
    /\ dropped \subseteq 1..MaxRows /\ blank \subseteq 0..MaxRows
    /\ events \in 0..MaxEvents

Init ==
    /\ row = NoRow /\ shop = "open"
    /\ parcel = [p \in Parcel |-> "none"] /\ maker = [p \in Parcel |-> NoJob]
    /\ stray = {} /\ refused = {}
    /\ Queue!Init
    /\ pc = [a \in Actor |-> "idle"] /\ seen = [a \in Actor |-> NoRow]
    /\ job = [s \in Slot |-> NoJob] /\ open = [s \in Slot |-> FALSE]
    /\ hand = [s \in Slot |-> NoParcel] /\ flaw = [s \in Slot |-> "none"]
    /\ dropped = {} /\ blind = {} /\ blank = {}
    /\ events = 0

Exists    == row.status # "none"
Gone      == [row EXCEPT !.status = "none", !.courier = Manual, !.track = NoParcel,
                         !.ful = FALSE, !.received = FALSE]
Still(a)  == Exists /\ row.id = seen[a].id        \* the row it read is there

Goto(a, from, to) == pc[a] = from /\ pc' = [pc EXCEPT ![a] = to]
End(a, from) == Goto(a, from, "idle") /\ seen' = [seen EXCEPT ![a] = NoRow]
Event == events < MaxEvents /\ events' = events + 1

-----------------------------------------------------------------------------
(* Requests. Each starts with the read and the checks the code makes on    *)
(* what it read, and goes on with one statement or call at a time.         *)

\* Only the first number Shopify gives a row is free of the bound.
Start(r, to, copy) ==
    /\ Goto(r, "idle", to)
    /\ IF to = "enrich" THEN UNCHANGED events ELSE Event
    /\ seen' = [seen EXCEPT ![r] = copy]
    /\ UNCHANGED <<row, worldVars, queueVars, slotVars, ghostVars>>

By(c) == [NoRow EXCEPT !.courier = c]

\* bookShipment and manualFulfill ask Shopify first.
Book(r, c) == shop = "open" /\ Start(r, "claim", By(c))

\* bulkBook asks only whether there is a row.
BulkBook(r, c) == ~Exists /\ Start(r, "create", By(c))

Resolve(r, c) ==
    row.status = "address_issue" /\ Start(r, "resolve", [row EXCEPT !.courier = c])

RevertAddressIssue(r) ==
    row.status = "address_issue" /\ row.track = NoParcel /\ Start(r, "drop", row)

MarkWrongAddress(r) ==
    row.status \notin {"booked", "in_transit", "delivered"} /\ Start(r, "flag", row)

Unbook(r) ==
    /\ row.status \notin {"none", "delivered", "returned", "cancelled"}
    /\ Start(r, "recall", row)

CancelOrder(r) == Exists /\ Start(r, "withdraw", row)

Receive(r) == Exists /\ Start(r, "receive", row)

\* The pull of the status sync, then the push of the courier, which leaves a
\* finished parcel alone but for its physical return.
Tracked == row.courier # Manual /\ row.track # NoParcel /\ parcel[row.track] = "live"

\* The numbers the fulfilments of the Shopify order may carry.
OnShopify == IF shop = "open" THEN {}
             ELSE {p \in Parcel : parcel[p] # "none"} \ (stray \cup {hand[s] : s \in Slot})

\* A row without a number is taken to have the one on Shopify.
Pull(r) ==
    /\ \/ row.status \in {"booked", "in_transit", "address_issue"}
       \/ row.status = "failed" /\ ~row.received
    /\ \/ Tracked /\ Start(r, "pull", row)
       \/ /\ row.courier # Manual /\ row.track = NoParcel
          /\ \E p \in OnShopify : Start(r, "enrich", [row EXCEPT !.track = p])

Push(r) ==
    /\ Tracked /\ row.status # "returned"
    /\ Start(r, "push", row)

\* claimShipment: the row is locked and created, or reused as it is; a caller
\* that finds it taken gets a conflict. A bad address only holds the order.
Create(status, c) ==
    /\ ~Exists /\ row.id < MaxRows
    /\ row' = [Gone EXCEPT !.id = @ + 1, !.status = status, !.courier = c]

Reuse(status, c) ==
    /\ row.status \in {"cancelled", "returned"}
    /\ row' = [row EXCEPT !.status = status, !.courier = c]

Taken == row.status \notin {"none", "cancelled", "returned"}

ClaimShipment(r) ==
    LET c == seen[r].courier
        Win(status, to) == /\ Create(status, c) \/ Reuse(status, c)
                           /\ Goto(r, "claim", to) /\ seen' = [seen EXCEPT ![r] = row']
    IN /\ \/ c = Manual /\ Win("booked", "handover")
          \/ c # Manual /\ Win("booked", "enqueue")
          \/ c # Manual /\ Win("address_issue", "idle")
          \/ Taken /\ End(r, "claim") /\ UNCHANGED row
       /\ UNCHANGED <<worldVars, queueVars, slotVars, ghostVars, events>>

\* A number is erased by an actor that read the row before it was there, or
\* that takes it for one entered by hand: nobody is going to cancel the parcel.
Knew(a) == IF seen[a].courier = Manual THEN {} ELSE {seen[a].track}
Overlook(a) ==
    LET unknown == {row.track} \ ({NoParcel, row'.track} \cup Knew(a))
    IN /\ blind' = blind \cup unknown
       /\ blank' = blank \cup {row.id : p \in unknown}
       /\ UNCHANGED dropped

\* A handover in person: fulfilled in Shopify, then closed as delivered.
Handover(r) ==
    /\ Goto(r, "handover", "close")
    /\ shop' = IF shop = "open" THEN "fulfilled" ELSE shop
    /\ UNCHANGED <<row, parcel, maker, stray, refused, queueVars, seen, slotVars,
                   ghostVars, events>>

Close(r) ==
    /\ End(r, "close")
    /\ IF Still(r)
          THEN /\ row' = [row EXCEPT !.status = "delivered", !.track = NoParcel, !.ful = TRUE]
               /\ Overlook(r)
          ELSE UNCHANGED <<row, ghostVars>>
    /\ UNCHANGED <<worldVars, queueVars, slotVars, events>>

\* bulkBook: createMany with skipDuplicates, then the rows are read again,
\* whoever has created them.
CreateMany(r) ==
    /\ Goto(r, "create", "reread")
    /\ \/ \E status \in {"booked", "address_issue"} : Create(status, seen[r].courier)
       \/ Exists /\ UNCHANGED row
    /\ UNCHANGED <<worldVars, queueVars, seen, slotVars, ghostVars, events>>

Reread(r) ==
    /\ IF row.status \in {"none", "address_issue"}
          THEN End(r, "reread")
          ELSE Goto(r, "reread", "enqueue") /\ seen' = [seen EXCEPT ![r] = row]
    /\ UNCHANGED <<row, worldVars, queueVars, slotVars, ghostVars, events>>

Enqueue(r) ==
    /\ \E j \in JobId :
          /\ Lane(j) = <<seen[r].courier, seen[r].id>>
          /\ \A n \in 1..MaxJobs : n < j[3] <=> state[<<j[1], j[2], n>>] # "none"
          /\ Queue!Submit(j)
    /\ End(r, "enqueue")
    /\ UNCHANGED <<row, worldVars, slotVars, ghostVars, events>>

\* Updates by id fail when the row is gone; the request ends there.
Write(r, from, to, new) ==
    /\ IF Still(r) THEN row' = new ELSE UNCHANGED row
    /\ IF Still(r) /\ to # "idle" THEN Goto(r, from, to) /\ UNCHANGED seen ELSE End(r, from)
    /\ UNCHANGED <<worldVars, queueVars, slotVars, events>>

ResolveWrite(r) ==
    /\ Write(r, "resolve", "enqueue",
             [row EXCEPT !.status = "booked", !.courier = seen[r].courier])
    /\ UNCHANGED ghostVars

Remove(r, from) ==
    /\ End(r, from)
    /\ IF Still(r) THEN row' = Gone /\ Overlook(r) ELSE UNCHANGED <<row, ghostVars>>
    /\ UNCHANGED <<worldVars, queueVars, slotVars, events>>

Drop(r) == Remove(r, "drop")

Flag(r) ==
    /\ End(r, "flag")
    /\ \/ \E c \in (IF seen[r].status = "none" THEN Courier ELSE {seen[r].courier}) :
              Create("address_issue", c)
       \/ Exists /\ row' = [row EXCEPT !.status = "address_issue"]
    /\ UNCHANGED <<worldVars, queueVars, slotVars, ghostVars, events>>

\* A definition directly above another with the same parameters, such as ByHand
\* above HasBooking, is a faulty variant that the mutation runs put in the place
\* of the one below it.

\* The cancel at the courier is best effort, and made for the number read.
ByHand(copy) == copy.track # NoParcel /\ copy.courier = Manual
HasBooking(copy) ==
    /\ copy.track # NoParcel /\ copy.courier # Manual
    /\ copy.status \notin {"delivered", "returned", "cancelled"}

Recall(r, from, to) ==
    LET p == seen[r].track
    IN /\ Goto(r, from, to)
       /\ IF HasBooking(seen[r])
             THEN \/ /\ parcel' = [parcel EXCEPT ![p] = "dead"]
                     /\ UNCHANGED <<refused, events>>
                  \/ /\ refused' = refused \cup {p} /\ UNCHANGED parcel /\ Event
             ELSE UNCHANGED <<parcel, refused, events>>
       /\ UNCHANGED <<row, shop, maker, stray, queueVars, seen, slotVars, ghostVars>>

\* So is the cancel of the Shopify fulfillment.
Unfulfil(r) ==
    /\ Goto(r, "unfulfil", "delete")
    /\ \/ shop' = (IF shop = "fulfilled" THEN "open" ELSE shop) /\ UNCHANGED events
       \/ Event /\ UNCHANGED shop
    /\ UNCHANGED <<row, parcel, maker, stray, refused, queueVars, seen, slotVars, ghostVars>>

Delete(r) == Remove(r, "delete")

Void(r) ==
    /\ IF Still(r) /\ seen[r].status # "cancelled"
          THEN row' = [row EXCEPT !.status = "cancelled"]
          ELSE UNCHANGED row
    /\ Goto(r, "void", "shut")
    /\ UNCHANGED <<worldVars, queueVars, seen, slotVars, ghostVars, events>>

\* processReturn: the parcel is back in the agent's hands.  The order is shut
\* once; cancelled_at says so and is taken as received.
Processed(copy) == copy.received /\ copy.status \in {"failed", "returned"}

ReceiveWrite(r) ==
    /\ Write(r, "receive", IF Processed(seen[r]) THEN "idle" ELSE "shut",
             [row EXCEPT !.status = "failed", !.received = TRUE])
    /\ UNCHANGED ghostVars

\* processOrderReturn: the Shopify order is cancelled and archived.
Shut(r) ==
    /\ End(r, "shut")
    /\ shop' = "closed"
    /\ UNCHANGED <<row, parcel, maker, stray, refused, queueVars, slotVars, ghostVars, events>>

\* The status of the courier, written over whatever the row says by now; a pull
\* also writes the number it had read, or had from Shopify.
Stamp(r) ==
    /\ pc[r] \in {"pull", "enrich", "push"} /\ End(r, pc[r])
    /\ \E to \in {"in_transit", "failed", "delivered", "returned"} \ {seen[r].status} :
          /\ seen[r].status \in {"delivered", "cancelled"} => to = "returned"
          /\ row' = IF Still(r)
                       THEN [row EXCEPT !.status = to,
                                        !.track = IF pc[r] = "push" THEN @ ELSE seen[r].track]
                       ELSE row
          /\ parcel' = [parcel EXCEPT ![seen[r].track] = IF to = "returned" THEN "dead" ELSE @]
    /\ Overlook(r)
    /\ UNCHANGED <<shop, maker, stray, refused, queueVars, slotVars, events>>

\* Without a new status only the number from Shopify is written.
Enrich(r) ==
    /\ End(r, "enrich")
    /\ row' = IF Still(r) THEN [row EXCEPT !.track = seen[r].track] ELSE row
    /\ Overlook(r)
    /\ UNCHANGED <<worldVars, queueVars, slotVars, events>>

\* The rows for which a request of R has still to store a job.
Owed(R) == {seen[r].id : r \in {q \in R : pc[q] = "enqueue"}}
              \cup {row.id : r \in {q \in R : pc[q] = "reread"}}

\* A statement or a call of the request fails.
RequestFails(r) ==
    /\ pc[r] # "idle" /\ End(r, pc[r]) /\ Event
    /\ dropped' = dropped \cup Owed({r})
    /\ UNCHANGED <<row, worldVars, queueVars, slotVars, blind, blank>>

-----------------------------------------------------------------------------
(* The booking job.                                                        *)

Claim(s, j) ==
    /\ Goto(s, "idle", "read")
    /\ Queue!Begin(j) /\ job' = [job EXCEPT ![s] = j]
    /\ UNCHANGED <<row, worldVars, seen, open, hand, flaw, ghostVars, events>>

Kept(s) == job[s]
Free(s) == NoJob

Leave(s) ==
    /\ pc' = [pc EXCEPT ![s] = "idle"] /\ seen' = [seen EXCEPT ![s] = NoRow]
    /\ job' = [job EXCEPT ![s] = Free(s)] /\ open' = [open EXCEPT ![s] = FALSE]
    /\ hand' = [hand EXCEPT ![s] = NoParcel] /\ flaw' = [flaw EXCEPT ![s] = "none"]

Finish(s) == Leave(s) /\ Queue!Finish(job[s])
Throw(s)  == Leave(s) /\ Queue!Err(job[s])

Raise(s, error) ==
    /\ pc' = [pc EXCEPT ![s] = "catch"] /\ flaw' = [flaw EXCEPT ![s] = error]
    /\ hand' = [hand EXCEPT ![s] = NoParcel]
    /\ UNCHANGED <<queueVars, seen, job, open>>

Step(s, from, to) ==
    Goto(s, from, to) /\ UNCHANGED <<queueVars, seen, job, open, hand, flaw>>

\* processBookingJob reads the row; a cancelled or returned one is not booked.
Bookable(j) == row.id = RowOf(j) /\ row.status \notin {"none", "cancelled", "returned"}

Read(s) ==
    /\ pc[s] = "read"
    /\ IF Bookable(job[s])
          THEN /\ Goto(s, "read", "order") /\ seen' = [seen EXCEPT ![s] = row]
               /\ UNCHANGED <<queueVars, job, open, hand, flaw>>
          ELSE Finish(s)
    /\ UNCHANGED <<row, worldVars, ghostVars, events>>

AskAgain(s) == TRUE
NeedsCourier(s) == seen[s].track = NoParcel

AfterCourier(s) == IF seen[s].ful THEN "affirm" ELSE "fulfil"

\* getOrderForBooking.
Order(s) ==
    /\ Goto(s, "order", IF NeedsCourier(s) THEN "call" ELSE AfterCourier(s))
    /\ open' = [open EXCEPT ![s] = shop = "open"]
    /\ UNCHANGED <<row, worldVars, queueVars, seen, job, hand, flaw, ghostVars, events>>

Accept(s, p) ==
    /\ seen[s].courier # Manual
    /\ \A q \in Parcel : q < p <=> parcel[q] # "none"
    /\ parcel' = [parcel EXCEPT ![p] = "live"]
    /\ maker' = [maker EXCEPT ![p] = Lane(job[s])]
    /\ UNCHANGED <<shop, refused>>

\* Phase A: adapter.bookShipment.
Call(s) ==
    \E p \in Parcel :
        /\ Accept(s, p) /\ UNCHANGED stray
        /\ Goto(s, "call", "persist") /\ hand' = [hand EXCEPT ![s] = p]
        /\ UNCHANGED <<row, queueVars, seen, job, open, flaw, ghostVars, events>>

\* Bad data, a courier's refusal, or no adapter for the courier of the row.
CallRefused(s) ==
    /\ pc[s] = "call"
    /\ \E error \in {"permanent", "transient"} : Raise(s, error)
    /\ UNCHANGED <<row, worldVars, ghostVars, events>>

\* The courier accepts and its answer is lost.
CallUnheard(s) ==
    /\ pc[s] = "call" /\ Raise(s, "transient") /\ Event
    /\ \E p \in Parcel : Accept(s, p) /\ stray' = stray \cup {p}
    /\ UNCHANGED <<row, ghostVars>>

\* The number is stored before Shopify is called, whatever the row says.
Persist(s) ==
    /\ pc[s] = "persist"
    /\ IF Still(s)
          THEN /\ Goto(s, "persist", AfterCourier(s))
               /\ row' = [row EXCEPT !.status = "booked", !.track = hand[s]]
               /\ hand' = [hand EXCEPT ![s] = NoParcel] /\ Overlook(s)
               /\ UNCHANGED <<queueVars, seen, job, open, flaw, stray>>
          ELSE /\ Raise(s, "permanent") /\ stray' = stray \cup {hand[s]}
               /\ UNCHANGED <<row, ghostVars>>
    /\ UNCHANGED <<shop, parcel, maker, refused, events>>

\* Phase B: createFulfillment, or a note that there is nothing to fulfil.
Fulfil(s) ==
    /\ pc[s] = "fulfil"
    /\ \/ open[s] /\ Step(s, "fulfil", IF shop = "open" THEN "gid" ELSE "affirm")
                  /\ shop' = IF shop = "open" THEN "fulfilled" ELSE shop
       \/ ~open[s] /\ (IF Still(s) THEN Finish(s) ELSE Raise(s, "permanent")) /\ UNCHANGED shop
    /\ UNCHANGED <<row, parcel, maker, stray, refused, ghostVars, events>>

StoreGid(s) ==
    /\ pc[s] = "gid"
    /\ IF Still(s) THEN Step(s, "gid", "affirm") /\ row' = [row EXCEPT !.ful = TRUE]
                   ELSE Raise(s, "permanent") /\ UNCHANGED row
    /\ UNCHANGED <<worldVars, ghostVars, events>>

\* Phase C, then the guarded update.
Affirm(s) ==
    /\ pc[s] = "affirm" /\ Finish(s)
    /\ row' = IF Still(s) /\ row.status = "address_issue" THEN [row EXCEPT !.status = "booked"]
                                                          ELSE row
    /\ UNCHANGED <<worldVars, ghostVars, events>>

\* The error path: read again, then write and rethrow what is worth a retry.
Catch(s) ==
    /\ Goto(s, "catch", "revert")
    /\ seen' = [seen EXCEPT ![s] = IF Still(s) THEN row ELSE NoRow]
    /\ UNCHANGED <<row, worldVars, queueVars, slotVars, ghostVars, events>>

NeverShown(copy) == FALSE
NotBooked(copy) == copy.track = NoParcel /\ copy.status = "booked"

Revert(s) ==
    /\ pc[s] = "revert"
    /\ row' = IF Still(s) /\ NotBooked(seen[s]) THEN [row EXCEPT !.status = "address_issue"]
                                                ELSE row
    /\ IF Still(s) /\ flaw[s] = "permanent" THEN Finish(s) ELSE Throw(s)
    /\ UNCHANGED <<worldVars, ghostVars, events>>

\* A statement or call of the pipeline fails; a parcel in hand is not recorded.
Trip(s) ==
    /\ pc[s] \in {"order", "persist", "fulfil", "gid", "affirm"}
    /\ Raise(s, "transient") /\ Event
    /\ stray' = stray \cup ({hand[s]} \ {NoParcel})
    /\ UNCHANGED <<row, shop, parcel, maker, refused, ghostVars>>

\* So does one outside the try block, or in the catch.
CatchFails(s) ==
    /\ pc[s] \in {"read", "catch", "revert"}
    /\ Throw(s) /\ Event
    /\ dropped' = dropped \cup {RowOf(job[s])}
    /\ UNCHANGED <<row, worldVars, blind, blank>>

-----------------------------------------------------------------------------
(* The process dies with every request and job; rows and parcels stay.     *)
Crash ==
    /\ Event
    /\ pc' = [a \in Actor |-> "idle"] /\ seen' = [a \in Actor |-> NoRow]
    /\ job' = [s \in Slot |-> NoJob] /\ open' = [s \in Slot |-> FALSE]
    /\ hand' = [s \in Slot |-> NoParcel] /\ flaw' = [s \in Slot |-> "none"]
    /\ Queue!Interrupt({j \in JobId : state[j] = "running"})
    /\ stray' = stray \cup ({hand[s] : s \in Slot} \ {NoParcel})
    /\ dropped' = dropped \cup Owed(Request)
    /\ UNCHANGED <<row, shop, parcel, maker, refused, blind, blank>>

RequestStarts(r) ==
    \/ \E c \in Carrier : Book(r, c)
    \/ \E c \in Courier : BulkBook(r, c) \/ Resolve(r, c)
    \/ RevertAddressIssue(r) \/ MarkWrongAddress(r) \/ Unbook(r) \/ CancelOrder(r)
    \/ Receive(r) \/ Pull(r) \/ Push(r)

RequestGoesOn(r) ==
    \/ ClaimShipment(r) \/ Handover(r) \/ Close(r) \/ CreateMany(r) \/ Reread(r)
    \/ Enqueue(r) \/ ResolveWrite(r) \/ Drop(r) \/ Flag(r)
    \/ Recall(r, "recall", "unfulfil") \/ Recall(r, "withdraw", "void")
    \/ Unfulfil(r) \/ Delete(r) \/ Void(r) \/ ReceiveWrite(r) \/ Shut(r)
    \/ Stamp(r) \/ Enrich(r)

HandlerStep(s) ==
    \/ Read(s) \/ Order(s) \/ Call(s) \/ CallRefused(s) \/ CallUnheard(s) \/ Persist(s)
    \/ Fulfil(s) \/ StoreGid(s) \/ Affirm(s) \/ Catch(s) \/ Revert(s)
    \/ Trip(s) \/ CatchFails(s)

Next ==
    \/ \E r \in Request : RequestStarts(r) \/ RequestGoesOn(r) \/ RequestFails(r)
    \/ \E s \in Slot : HandlerStep(s) \/ \E j \in JobId : Claim(s, j)
    \/ Crash

Spec == Init /\ [][Next]_vars

-----------------------------------------------------------------------------
(* Properties.                                                             *)

Live(p) == parcel[p] = "live"
Lost    == stray \cup blind

\* A lane books a row once: whatever is queued twice, retried or restarted, two
\* parcels of one lane and row are due to a booking that could not be recorded.
OneParcelPerLane ==
    \A p, q \in Parcel :
        p # q /\ Live(p) /\ Live(q) /\ maker[p] = maker[q] => {p, q} \cap Lost # {}

\* A row that says booked and has no number is somebody's work: a job of it is
\* queued or running, or a request is about to queue one. Left out: rows whose
\* request or job died at that point, or whose number somebody erased.
BookedIsWorkedOn ==
    \/ row.status # "booked" \/ row.track # NoParcel \/ row.courier = Manual
    \/ row.id \in dropped \cup blank
    \/ \E j \in JobId : RowOf(j) = row.id /\ state[j] \in {"waiting", "running"}
    \/ row.id \in Owed(Request)

\* The number of a live parcel is on the row or in the hand of the job that
\* booked it, unless its recording failed, the courier refused the cancel, or
\* somebody who did not know it erased it.
ParcelIsKnown ==
    \A p \in Parcel :
        Live(p) => \/ row.track = p \/ \E s \in Slot : hand[s] = p
                   \/ p \in Lost \cup refused

\* "Any retry / re-claim never double-books": parcels that were recorded, or
\* are about to be, and not given up, are one at most.
OneParcel ==
    \A p, q \in Parcel : Live(p) /\ Live(q) => p = q \/ {p, q} \cap (Lost \cup refused) # {}
=============================================================================
