---------------------------- MODULE MessageFlow ----------------------------
(***************************************************************************)
(* WhatsApp messages between a tenant and its customers: the webhook jobs   *)
(* of backend/src/modules/inbox/meta-webhook.controller.ts and              *)
(* meta-webhook.service.ts (messages in, delivery statuses), the send-media *)
(* job of inbox.service.ts that sends one out, and what a broadcast's send  *)
(* (broadcasts/broadcast.worker.ts) does to the conversation.               *)
(*                                                                          *)
(* Every database statement or call to Meta is a step.  Meta delivers a     *)
(* webhook any number of times and in any order; a job that throws or dies  *)
(* is run again from its first event.                                       *)
(***************************************************************************)
EXTENDS Integers, Sequences, FiniteSets

CONSTANTS
    Person,         \* WhatsApp participants (of one business number)
    Inbound,        \* ids of messages they send
    Media, Bulk,    \* messages sent to them: by send-media, by a broadcast
    Chat,           \* message: the participant it is from or for
    Batch,          \* webhook bodies: sequences of events, see EventOf
    Slot,           \* concurrency of the 'message' worker
    MaxAttempts,    \* max_attempts of a 'message' job
    MaxJobs,        \* bound on webhooks accepted
    MaxSends,       \* bound on times Meta accepts one message
    MaxTroubles     \* bound on failed statements and calls, and on restarts

Outbound == Media \cup Bulk
Rank     == [sending |-> 0, sent |-> 1, delivered |-> 2, read |-> 3, failed |-> 4]
Reported == {"sent", "delivered", "read", "failed"}
EventOf  == [kind : {"message"}, id : Inbound]
              \cup [kind : {"status"}, id : Outbound, send : 1..MaxSends, to : Reported]

ASSUME MessageConstAssumption ==
    /\ {MaxJobs, MaxTroubles} \subseteq Nat /\ {MaxAttempts, MaxSends} \subseteq Nat \ {0}
    /\ Chat \in [Inbound \cup Outbound -> Person]
    /\ Inbound \cap Outbound = {} /\ Media \cap Bulk = {}
    /\ "none" \notin Person
    /\ \A b \in Batch : b \in Seq(EventOf) /\ b # <<>>

VARIABLES
    state, tries,   \* the 'message' queue: see TaskQueue
    payload,        \* job: the webhook body
    mstate, mtries, \* the 'send-media' queue, one job per message
    people, chats,  \* participant: contact rows, conversation rows
    raced,          \* participants a broadcast and another were both opening one for
    stored,         \* inbound messages with a row (meta_message_id is unique)
    unread,         \* message: times it was added to an unread_count
    told,           \* message: times agents, webhooks and bots were told of it
    status, wamid,  \* outbound row: status, meta_message_id
    counted,        \* bulk message: times in delivered_count, in read_count
    accepted,       \* outbound message: times Meta accepted it
    pc, job, at,    \* slot: next statement, job, position in the body
    seen,           \* slot: the status its handler has read
    mpc,            \* media message: next statement of its request or worker
    bpc,            \* bulk message: next statement of its worker
    cut,            \* inbound messages whose handling broke off half-way
    faults, crashes,
    cleanups        \* times the cleanup endpoint has put media jobs back

queueVars == <<state, tries, payload>>
sendVars  == <<mstate, mtries, mpc, bpc>>
inVars    == <<people, chats, raced, stored, unread, told>>
outVars   == <<status, wamid, counted, accepted>>
slotVars  == <<pc, job, at, seen>>
envVars   == <<faults, crashes, cleanups>>
vars      == <<queueVars, sendVars, inVars, outVars, slotVars, cut, envVars>>

\* The participants a body concerns, its messages and its statuses alike.
Participants(b) == {Chat[b[i].id] : i \in DOMAIN b}

\* A faulty variant of Lane: every webhook runs beside every other.
NoLane(b) == "none"

\* deriveSerialKey: the lane of a body, none when it mixes participants.
Lane(b) ==
    IF Cardinality(Participants(b)) = 1 THEN CHOOSE p \in Participants(b) : TRUE ELSE "none"

\* A job is named by its lane and a number, so that its serial key is a constant.
JobId == (Person \cup {"none"}) \X (1..MaxJobs)
NoJob == <<"none", 0>>

Queue == INSTANCE TaskQueue WITH
            Task <- JobId, NoKey <- "none",
            SerialKey <- [n \in JobId |-> n[1]], DedupKey <- [n \in JobId |-> "none"]

MediaQueue == INSTANCE TaskQueue WITH
            Task <- Media, NoKey <- "none", MaxAttempts <- 1, state <- mstate, tries <- mtries,
            SerialKey <- [x \in Media |-> Chat[x]], DedupKey <- [x \in Media |-> x]

State == {"none", "waiting", "running", "done", "dead", "gone"}

TypeOK ==
    /\ state \in [JobId -> State] /\ tries \in [JobId -> 0..MaxAttempts]
    /\ payload \in [JobId -> Batch \cup {<<>>}]
    /\ mstate \in [Media -> State] /\ mtries \in [Media -> 0..1]
    /\ people \in [Person -> Nat] /\ chats \in [Person -> Nat]
    /\ raced \subseteq Person /\ stored \subseteq Inbound /\ cut \subseteq Inbound
    /\ unread \in [Inbound -> Nat] /\ told \in [Inbound -> Nat]
    /\ status \in [Outbound -> DOMAIN Rank \cup {"none"}]
    /\ wamid \in [Outbound -> 0..MaxSends]
    /\ counted \in [Bulk -> [{"delivered", "read"} -> Nat]]
    /\ accepted \in [Outbound -> 0..MaxSends]
    /\ pc \in [Slot -> {"idle", "guard", "contact", "addContact", "chat", "open", "bump",
                        "store", "tell", "look", "set", "count", "end"}]
    /\ job \in [Slot -> JobId \cup {NoJob}]
    /\ at \in [Slot -> Nat]
    /\ \A s \in Slot : /\ pc[s] # "idle" <=> job[s] # NoJob
                       /\ pc[s] \notin {"idle", "end"} => at[s] \in DOMAIN payload[job[s]]
    /\ seen \in [Slot -> DOMAIN Rank]
    /\ mpc \in [Media -> {"idle", "enqueue", "look", "send", "mark", "rest", "fail", "end"}]
    /\ bpc \in [Bulk -> {"idle", "find", "open", "record", "end"}]
    /\ faults \in 0..MaxTroubles /\ crashes \in 0..MaxTroubles /\ cleanups \in Nat

\* A participant may be in the address book before the first message.
Init ==
    /\ Queue!Init /\ MediaQueue!Init /\ payload = [n \in JobId |-> <<>>]
    /\ people \in [Person -> {0, 1}] /\ chats = [p \in Person |-> 0]
    /\ raced = {} /\ stored = {} /\ cut = {}
    /\ unread = [m \in Inbound |-> 0] /\ told = [m \in Inbound |-> 0]
    /\ status = [x \in Outbound |-> "none"] /\ wamid = [x \in Outbound |-> 0]
    /\ counted = [x \in Bulk |-> [c \in {"delivered", "read"} |-> 0]]
    /\ accepted = [x \in Outbound |-> 0]
    /\ pc = [s \in Slot |-> "idle"] /\ job = [s \in Slot |-> NoJob]
    /\ at = [s \in Slot |-> 0] /\ seen = [s \in Slot |-> "sending"]
    /\ mpc = [x \in Media |-> "idle"] /\ bpc = [x \in Bulk |-> "idle"]
    /\ faults = 0 /\ crashes = 0 /\ cleanups = 0

\* One failure may be an outage of the database that outlives a few statements.
Fault ==
    /\ faults + crashes < MaxTroubles /\ faults' = faults + 1
    /\ UNCHANGED <<crashes, cleanups>>

-----------------------------------------------------------------------------
(* Webhooks: Meta has its 200 before the job is stored.  A failed enqueue   *)
(* is no step: the webhook is lost.                                         *)

Real(e) == e.kind = "status" => e.send <= accepted[e.id]

Receive(b) ==
    /\ \A i \in DOMAIN b : Real(b[i])
    /\ LET n == <<Lane(b), Cardinality({j \in JobId : state[j] # "none"}) + 1>> IN
        /\ n \in JobId /\ Queue!Submit(n)
        /\ payload' = [payload EXCEPT ![n] = b]
    /\ UNCHANGED <<sendVars, inVars, outVars, slotVars, cut, envVars>>

-----------------------------------------------------------------------------
(* The 'message' worker: handle() takes the events of the body in order.    *)

Event(s) == payload[job[s]][at[s]]
Goto(s, from, to) == pc[s] = from /\ pc' = [pc EXCEPT ![s] = to]

FirstStep(e) == IF e.kind = "message" THEN "guard" ELSE "look"

\* The handler of the event returns: on to the next one, or the end of the job.
Return(s) ==
    LET body == payload[job[s]] IN
    /\ at' = [at EXCEPT ![s] = @ + 1]
    /\ pc' = [pc EXCEPT ![s] = IF at[s] < Len(body) THEN FirstStep(body[at[s] + 1]) ELSE "end"]
    /\ UNCHANGED <<job, seen>>

Claim(s) ==
    /\ pc[s] = "idle"
    /\ \E n \in JobId :
        /\ Queue!Begin(n)
        /\ job' = [job EXCEPT ![s] = n]
        /\ at' = [at EXCEPT ![s] = 1]
        /\ pc' = [pc EXCEPT ![s] = FirstStep(payload[n][1])]
    /\ UNCHANGED <<payload, sendVars, inVars, outVars, seen, cut, envVars>>

KeepSlot(s) == pc' = [pc EXCEPT ![s] = "idle"] /\ UNCHANGED <<job, at, seen>>
FreeSlot(s) ==
    /\ pc' = [pc EXCEPT ![s] = "idle"]
    /\ job' = [job EXCEPT ![s] = NoJob]
    /\ at' = [at EXCEPT ![s] = 0]
    /\ seen' = [seen EXCEPT ![s] = "sending"]

\* A definition directly above another with the same parameters, such as
\* KeepSlot above FreeSlot, is a faulty variant that the mutation runs put in
\* the place of the one below it.

Finish(s) ==
    /\ pc[s] = "end" /\ Queue!Finish(job[s]) /\ FreeSlot(s)
    /\ UNCHANGED <<payload, sendVars, inVars, outVars, cut, envVars>>

\* The messages that broke off between being counted and being announced.
HalfDone(S) == {Event(s).id : s \in {r \in S : pc[r] \in {"store", "tell"}}}

Throw(s) ==
    /\ Queue!Err(job[s]) /\ FreeSlot(s)
    /\ cut' = cut \cup HalfDone({s})
    /\ UNCHANGED <<payload, sendVars, inVars, outVars>>

\* A statement of the handler fails, or the write that completes the job.
HandlerFails(s) == pc[s] # "idle" /\ Throw(s) /\ Fault

-----------------------------------------------------------------------------
(* handleInbound.                                                           *)

NoGuard(s)    == FALSE
Duplicate(s)  == Event(s).id \in stored

Guard(s) ==
    /\ pc[s] = "guard"
    /\ IF Duplicate(s) THEN Return(s)
       ELSE Goto(s, "guard", "contact") /\ UNCHANGED <<job, at, seen>>
    /\ UNCHANGED <<queueVars, sendVars, inVars, outVars, cut, envVars>>

Who(s) == Chat[Event(s).id]

FindContact(s) ==
    /\ Goto(s, "contact", IF people[Who(s)] > 0 THEN "chat" ELSE "addContact")
    /\ UNCHANGED <<queueVars, sendVars, inVars, outVars, job, at, seen, cut, envVars>>

AddContact(s) ==
    /\ Goto(s, "addContact", "chat")
    /\ people' = [people EXCEPT ![Who(s)] = @ + 1]
    /\ UNCHANGED <<queueVars, sendVars, chats, raced, stored, unread, told, outVars, job, at, seen, cut, envVars>>

\* With two contacts for one participant the conversation may be the other's.
Misses(p) == chats[p] = 0 \/ people[p] > 1

BulkOpens(p) == \E x \in Bulk : bpc[x] = "open" /\ Chat[x] = p
AnybodyOpens(p) == BulkOpens(p) \/ \E s \in Slot : pc[s] = "open" /\ Who(s) = p

FindChat(s) ==
    /\ \/ Goto(s, "chat", "bump") /\ chats[Who(s)] > 0 /\ UNCHANGED raced
       \/ /\ Goto(s, "chat", "open") /\ Misses(Who(s))
          /\ raced' = raced \cup {p \in {Who(s)} : BulkOpens(p)}
    /\ UNCHANGED <<queueVars, sendVars, people, chats, stored, unread, told, outVars, job, at, seen, cut, envVars>>

CountUnread(s) == unread' = [unread EXCEPT ![Event(s).id] = @ + 1]

OpenChat(s) ==
    /\ Goto(s, "open", "store") /\ CountUnread(s)
    /\ chats' = [chats EXCEPT ![Who(s)] = @ + 1]
    /\ UNCHANGED <<queueVars, sendVars, people, raced, stored, told, outVars, job, at, seen, cut, envVars>>

BumpChat(s) ==
    /\ Goto(s, "bump", "store") /\ CountUnread(s)
    /\ UNCHANGED <<queueVars, sendVars, people, chats, raced, stored, told, outVars, job, at, seen, cut, envVars>>

NotUnique(s) == FALSE
Taken(s)     == Event(s).id \in stored

StoreSilently(s) ==
    /\ pc[s] = "store" /\ ~Taken(s) /\ Return(s)
    /\ stored' = stored \cup {Event(s).id}
    /\ UNCHANGED <<queueVars, sendVars, people, chats, raced, unread, told, outVars, cut, envVars>>

Store(s) ==
    /\ Goto(s, "store", "tell") /\ ~Taken(s)
    /\ stored' = stored \cup {Event(s).id}
    /\ UNCHANGED <<queueVars, sendVars, people, chats, raced, unread, told, outVars, job, at, seen, cut, envVars>>

\* The unique index refuses the row: message.create throws.
StoreRefused(s) == pc[s] = "store" /\ Taken(s) /\ Throw(s) /\ UNCHANGED envVars

\* Preview, metering, socket, webhook and bots; the last three never throw.
Tell(s) ==
    /\ pc[s] = "tell" /\ Return(s)
    /\ told' = [told EXCEPT ![Event(s).id] = @ + 1]
    /\ UNCHANGED <<queueVars, sendVars, people, chats, raced, stored, unread, outVars, cut, envVars>>

-----------------------------------------------------------------------------
(* handleStatus.                                                            *)

Look(s) ==
    LET e == Event(s) IN
    /\ pc[s] = "look"
    /\ IF status[e.id] # "none" /\ wamid[e.id] = e.send
       THEN /\ Goto(s, "look", "set")
            /\ seen' = [seen EXCEPT ![s] = status[e.id]]
            /\ UNCHANGED <<job, at>>
       ELSE Return(s)
    /\ UNCHANGED <<queueVars, sendVars, inVars, outVars, cut, envVars>>

AnyStatus(old, to) == to
NewStatus(old, to) == IF to = "failed" \/ Rank[to] > Rank[old] THEN to ELSE old

Recount(s)  == Event(s).to \in {"delivered", "read"} /\ Event(s).id \in Bulk
Counts(s) ==
    /\ Event(s).to \in {"delivered", "read"} /\ Event(s).id \in Bulk
    /\ NewStatus(seen[s], Event(s).to) # seen[s]

\* The write is unconditional: what was read may no longer be the status.
SetStatus(s) ==
    /\ pc[s] = "set"
    /\ status' = [status EXCEPT ![Event(s).id] = NewStatus(seen[s], Event(s).to)]
    /\ IF Counts(s) THEN Goto(s, "set", "count") /\ UNCHANGED <<job, at, seen>> ELSE Return(s)
    /\ UNCHANGED <<queueVars, sendVars, inVars, wamid, counted, accepted, cut, envVars>>

Count(s) ==
    /\ pc[s] = "count" /\ Return(s)
    /\ counted' = [counted EXCEPT ![Event(s).id][Event(s).to] = @ + 1]
    /\ UNCHANGED <<queueVars, sendVars, inVars, status, wamid, accepted, cut, envVars>>

-----------------------------------------------------------------------------
(* Sending: the broadcast worker records a message once Meta has accepted   *)
(* it, send-media works on a row that is already there.                     *)

BGoto(x, from, to) == bpc[x] = from /\ bpc' = [bpc EXCEPT ![x] = to]
BulkStep ==
    UNCHANGED <<queueVars, slotVars, mstate, mtries, mpc, people, stored, unread, told, counted, cut, envVars>>

\* Once for each message: a send that breaks off is retried as another one.
SendBulk(x) ==
    /\ BGoto(x, "idle", "find") /\ people[Chat[x]] > 0
    /\ accepted' = [accepted EXCEPT ![x] = 1]
    /\ BulkStep /\ UNCHANGED <<chats, raced, status, wamid>>

FindBulkChat(x) ==
    /\ \/ BGoto(x, "find", "record") /\ chats[Chat[x]] > 0 /\ UNCHANGED raced
       \/ /\ BGoto(x, "find", "open") /\ Misses(Chat[x])
          /\ raced' = raced \cup {p \in {Chat[x]} : AnybodyOpens(p)}
    /\ BulkStep /\ UNCHANGED <<chats, status, wamid, accepted>>

OpenBulkChat(x) ==
    /\ BGoto(x, "open", "record") /\ chats' = [chats EXCEPT ![Chat[x]] = @ + 1]
    /\ BulkStep /\ UNCHANGED <<raced, status, wamid, accepted>>

RecordBulk(x) ==
    /\ BGoto(x, "record", "end") /\ status[x] = "none"
    /\ status' = [status EXCEPT ![x] = "sent"] /\ wamid' = [wamid EXCEPT ![x] = 1]
    /\ BulkStep /\ UNCHANGED <<chats, raced, accepted>>

MGoto(x, from, to) == mpc[x] = from /\ mpc' = [mpc EXCEPT ![x] = to]
MediaStep == UNCHANGED <<queueVars, inVars, counted, slotVars, cut, bpc>>

\* sendMedia: the request creates the row, then the job.
DraftMedia(x) ==
    /\ MGoto(x, "idle", "enqueue") /\ status[x] = "none"
    /\ status' = [status EXCEPT ![x] = "sending"]
    /\ MediaStep /\ UNCHANGED <<mstate, mtries, wamid, accepted, envVars>>

EnqueueMedia(x) ==
    /\ MGoto(x, "enqueue", "idle") /\ MediaQueue!Submit(x)
    /\ MediaStep /\ UNCHANGED <<status, wamid, accepted, envVars>>

BeginMedia(x) ==
    /\ MGoto(x, "idle", "look") /\ MediaQueue!Begin(x)
    /\ MediaStep /\ UNCHANGED <<status, wamid, accepted, envVars>>

SendAnyway(x) == TRUE
StillSending(x) == status[x] = "sending"

LookMedia(x) ==
    /\ MGoto(x, "look", IF StillSending(x) THEN "send" ELSE "end")
    /\ MediaStep /\ UNCHANGED <<mstate, mtries, status, wamid, accepted, envVars>>

\* Meta accepts, and the answer is heard (mark) or not (fail).
Send(x) ==
    /\ accepted[x] < MaxSends /\ accepted' = [accepted EXCEPT ![x] = @ + 1]
    /\ \/ MGoto(x, "send", "mark") /\ UNCHANGED envVars
       \/ MGoto(x, "send", "fail") /\ Fault
    /\ MediaStep /\ UNCHANGED <<mstate, mtries, status, wamid>>

Mark(x) ==
    /\ MGoto(x, "mark", "rest")
    /\ status' = [status EXCEPT ![x] = "sent"]
    /\ wamid' = [wamid EXCEPT ![x] = accepted[x]]
    /\ MediaStep /\ UNCHANGED <<mstate, mtries, accepted, envVars>>

\* The file is missing, Meta refuses, or a later statement of the try throws.
Catch(x) ==
    /\ \E step \in {"send", "mark", "rest"} : MGoto(x, step, "fail")
    /\ Fault /\ MediaStep /\ UNCHANGED <<mstate, mtries, status, wamid, accepted>>

\* failQueuedMedia: an error of the update is swallowed.
MarkFailed(x) ==
    /\ MGoto(x, "fail", "end")
    /\ \/ status' = [status EXCEPT ![x] = "failed"] /\ UNCHANGED envVars
       \/ Fault /\ UNCHANGED status
    /\ MediaStep /\ UNCHANGED <<mstate, mtries, wamid, accepted>>

\* After Mark, metering, socket and webhook come first, and may still throw.
EndMedia(x) ==
    /\ \E step \in {"rest", "end"} : MGoto(x, step, "idle")
    /\ MediaQueue!Finish(x)
    /\ MediaStep /\ UNCHANGED <<status, wamid, accepted, envVars>>

\* The lookup, outside the try, or the write that completes the job: it fails, and
\* this was its only attempt.
MediaJobFails(x) ==
    /\ \E step \in {"look", "rest", "end"} : MGoto(x, step, "idle")
    /\ MediaQueue!Err(x) /\ Fault
    /\ MediaStep /\ UNCHANGED <<status, wamid, accepted>>

\* An outage takes the next statement, failQueuedMedia's update and both writes of
\* the job with it: row and job stay as they are, and nobody works on them.
MediaOutage(x) ==
    /\ \E step \in {"look", "send", "mark", "rest", "fail", "end"} : MGoto(x, step, "idle")
    /\ Fault /\ MediaStep /\ UNCHANGED <<mstate, mtries, status, wamid, accepted>>

\* The cleanup endpoint puts back what is running in no worker, its lease lapsed.
Left == {x \in Media : mstate[x] = "running" /\ mpc[x] = "idle"}

Cleanup ==
    /\ Left # {} /\ MediaQueue!Interrupt(Left) /\ cleanups' = cleanups + 1
    /\ MediaStep /\ UNCHANGED <<mpc, status, wamid, accepted, faults, crashes>>

-----------------------------------------------------------------------------
(* A restart: the leases of both workers' jobs lapse and they wait again.   *)

Crash ==
    /\ faults + crashes < MaxTroubles /\ crashes' = crashes + 1
    /\ Queue!Interrupt({n \in JobId : state[n] = "running"})
    /\ MediaQueue!Interrupt({x \in Media : mstate[x] = "running"})
    /\ cut' = cut \cup HalfDone(Slot)
    /\ pc' = [s \in Slot |-> "idle"] /\ job' = [s \in Slot |-> NoJob]
    /\ at' = [s \in Slot |-> 0] /\ seen' = [s \in Slot |-> "sending"]
    /\ mpc' = [x \in Media |-> "idle"]
    /\ bpc' = [x \in Bulk |-> IF bpc[x] = "idle" THEN "idle" ELSE "end"]
    /\ UNCHANGED <<payload, inVars, outVars, faults, cleanups>>

Handle(s) ==
    \/ Claim(s) \/ Finish(s) \/ HandlerFails(s)
    \/ Guard(s) \/ FindContact(s) \/ AddContact(s) \/ FindChat(s) \/ OpenChat(s)
    \/ BumpChat(s) \/ Store(s) \/ StoreRefused(s) \/ Tell(s)
    \/ Look(s) \/ SetStatus(s) \/ Count(s)

Deliver(x) ==
    \/ DraftMedia(x) \/ EnqueueMedia(x) \/ BeginMedia(x) \/ LookMedia(x)
    \/ Send(x) \/ Mark(x) \/ Catch(x) \/ MarkFailed(x) \/ EndMedia(x)
    \/ MediaJobFails(x) \/ MediaOutage(x)

Broadcast(x) == SendBulk(x) \/ FindBulkChat(x) \/ OpenBulkChat(x) \/ RecordBulk(x)

Next ==
    \/ \E b \in Batch : Receive(b)
    \/ \E s \in Slot : Handle(s)
    \/ \E x \in Bulk : Broadcast(x)
    \/ \E x \in Media : Deliver(x)
    \/ Cleanup \/ Crash

Spec == Init /\ [][Next]_vars

-----------------------------------------------------------------------------
(* Properties.                                                              *)

\* Events that a webhook mixing participants, and so outside every lane, brings.
Unordered(id) ==
    \E n \in JobId : /\ state[n] # "none" /\ Cardinality(Participants(payload[n])) > 1
                     /\ \E i \in DOMAIN payload[n] : payload[n][i].id = id

\* Bots, webhooks and agents hear of a message at most once: duplicates that
\* pass the guard together, retries and restarts all stop at the unique row
\* before they announce anything.
ToldOnce == \A m \in Inbound : told[m] <= 1

\* A message adds one to the unread count, however often Meta delivers it,
\* unless its handling broke off in the window between the count and the row
\* or its copies ran outside the lane.
UnreadOnce == \A m \in Inbound : unread[m] > 1 => m \in cut \/ Unordered(m)

\* A stored message has been announced, or is about to be by the slot that
\* stored it, unless that run broke off: the guard then hides it for ever.
StoredIsTold ==
    \A m \in stored \ cut :
        told[m] = 1 \/ \E s \in Slot : pc[s] = "tell" /\ Event(s).id = m

\* All of p's webhooks do not share a lane.
Mixed(p) ==
    \E n \in JobId : /\ state[n] # "none" /\ Cardinality(Participants(payload[n])) > 1
                     /\ p \in Participants(payload[n])

\* A participant has one contact as long as all their webhooks ran in one lane,
\* whatever failed or restarted on the way; nothing in the schema says so.  They
\* also have one conversation unless a broadcast was opening one while a webhook,
\* or another broadcast, was: the broadcast worker is in no lane of theirs.
OneThread ==
    \A p \in Person : /\ people[p] > 1 => Mixed(p)
                      /\ chats[p] > 1 => Mixed(p) \/ p \in raced

\* The counter of a status x has reached has counted it, or is about to.
Reckoned(x, c) ==
    counted[x][c] > 0 \/ \E s \in Slot : pc[s] = "count" /\ Event(s).id = x /\ Event(s).to = c

\* A broadcast's delivered and read counters count a message once each,
\* through duplicates, late statuses and retries, as long as its statuses came
\* in its lane; and until something fails none is missed, in a lane or not.  A
\* failure between the status and the counter loses the count: the retry finds
\* the status written.
CountedOnce ==
    \A x \in Bulk : \A c \in {"delivered", "read"} :
        /\ counted[x][c] > 1 => Unordered(x)
        /\ status[x] = c /\ faults + crashes = 0 => Reckoned(x, c)

\* A status never moves back down the ladder, although it is computed from a
\* value read in an earlier statement, as long as its statuses came in its lane.
\* The one exception is the failure send-media writes about a message Meta has
\* accepted: that worker is in no lane, and a status in flight overwrites it.
ForwardOnly ==
    [][\A x \in Outbound :
        status[x] # "none" => \/ Rank[status'[x]] >= Rank[status[x]]
                              \/ Unordered(x)
                              \/ x \in Media /\ status[x] = "failed" /\ faults > 0]_vars

\* Meta is asked for a message only while its row says sending, so no restart
\* and no webhook that overtakes the worker leads to a second message once an
\* outcome has been recorded.  It is asked once, and once more for each restart and
\* each call of the cleanup endpoint that found the job left running: "Never re-sends
\* automatically ... so a customer can't receive duplicates" (inbox.service.ts:
\* 1357-1359) does not hold where the outcome could not be recorded.
NeverResent ==
    [][\A x \in Media : accepted'[x] # accepted[x] =>
           status[x] = "sending" /\ accepted'[x] <= 1 + crashes + cleanups]_vars
=============================================================================
