------------------------- MODULE MessageFlow_proofs -------------------------
(***************************************************************************)
(* Proofs about MessageFlow for any participants, messages, webhook bodies, *)
(* worker slots, jobs, attempts and failures.                               *)
(***************************************************************************)
EXTENDS MessageFlow, FiniteSetTheorems, TLAPS

InboundStep == {"guard", "contact", "addContact", "chat", "open", "bump", "store", "tell"}
StatusStep  == {"look", "set", "count"}
Fresh       == {"guard", "look", "end", "idle"}
Busy(s)     == pc[s] \notin {"idle", "end"}

QueueTypeOK ==
    /\ state \in [JobId -> State] /\ tries \in [JobId -> 0..MaxAttempts]
    /\ payload \in [JobId -> Batch \cup {<<>>}]

SlotTypeOK ==
    /\ pc \in [Slot -> InboundStep \cup StatusStep \cup {"idle", "end"}]
    /\ job \in [Slot -> JobId \cup {NoJob}]
    /\ at \in [Slot -> Nat] /\ seen \in [Slot -> DOMAIN Rank]

\* A job that was ever stored has a body, and is in the body's lane.
Queued == \A n \in JobId : state[n] # "none" => payload[n] \in Batch /\ n[1] = Lane(payload[n])

\* A job that may run again has an attempt left.
Attempts == \A n \in JobId : state[n] \in {"none", "waiting", "running"} => tries[n] < MaxAttempts

\* A handler under way has a running job, and is at an event of its body.
Holding ==
    \A s \in Slot :
        /\ pc[s] # "idle" <=> job[s] # NoJob
        /\ pc[s] # "idle" => state[job[s]] = "running"
        /\ Busy(s) => at[s] \in DOMAIN payload[job[s]]
        /\ pc[s] \in InboundStep => Event(s).kind = "message"
        /\ pc[s] \in StatusStep => Event(s).kind = "status"

\* Slots have jobs of their own, and lanes run one job at a time.
Alone  == \A s, t \in Slot : job[s] = job[t] /\ job[s] # NoJob => s = t
Serial ==
    \A n, m \in JobId :
        n # m /\ n[1] = m[1] /\ n[1] # "none" /\ state[n] = "running" => state[m] # "running"

OutTypeOK ==
    /\ status \in [Outbound -> DOMAIN Rank \cup {"none"}] /\ wamid \in [Outbound -> 0..MaxSends]
    /\ counted \in [Bulk -> [{"delivered", "read"} -> Nat]] /\ accepted \in [Outbound -> 0..MaxSends]

JobInv == QueueTypeOK /\ SlotTypeOK /\ Queued /\ Attempts /\ Holding /\ Alone /\ Serial

-----------------------------------------------------------------------------
(* Bodies and events.                                                       *)

\* A body has a first event.
LEMMA BodyFacts ==
    ASSUME NEW b \in Batch
    PROVE  /\ 1 \in DOMAIN b /\ Len(b) \in Nat /\ DOMAIN b = 1..Len(b)
           /\ \A i \in DOMAIN b : b[i] \in EventOf
BY MessageConstAssumption

\* An event is a message in, or the status of a message out.
LEMMA EventFacts ==
    ASSUME NEW e \in EventOf
    PROVE  /\ e.kind \in {"message", "status"} /\ e.id \in Inbound \cup Outbound
           /\ Chat[e.id] \in Person
           /\ e.kind = "message" => e.id \in Inbound
           /\ e.kind = "status" => e.id \in Outbound /\ e.send \in 1..MaxSends /\ e.to \in Reported
BY MessageConstAssumption DEF EventOf

\* The ladder of statuses.
LEMMA RankFacts ==
    /\ DOMAIN Rank = {"sending", "sent", "delivered", "read", "failed"}
    /\ Rank["sending"] = 0 /\ Rank["sent"] = 1 /\ Rank["delivered"] = 2 /\ Rank["read"] = 3
    /\ Rank["failed"] = 4
BY DEF Rank

\* A body concerns finitely many participants.
LEMMA FewParticipants == \A b \in Batch : IsFiniteSet(Participants(b))
<1> SUFFICES ASSUME NEW b \in Batch PROVE IsFiniteSet(Participants(b))
  OBVIOUS
<1>1. IsFiniteSet(DOMAIN b)
  BY BodyFacts, FS_Interval
<1> DEFINE who == [i \in DOMAIN b |-> Chat[b[i].id]]
<1>2. who \in Surjection(DOMAIN b, Participants(b))
  BY DEF Surjection, Participants
<1> HIDE DEF who
<1> QED
  BY <1>1, <1>2, FS_Surjection

\* The lane of a body that concerns one participant is that participant.
LEMMA LaneFacts ==
    ASSUME NEW b \in Batch, ~(Cardinality(Participants(b)) > 1), NEW i \in DOMAIN b
    PROVE  Lane(b) = Chat[b[i].id] /\ Lane(b) # "none"
<1>1. Chat[b[i].id] \in Participants(b) /\ Chat[b[i].id] \in Person
  BY BodyFacts, EventFacts DEF Participants
<1>2. IsFiniteSet(Participants(b))
  BY FewParticipants
<1>3. Cardinality(Participants(b)) \in Nat /\ Cardinality(Participants(b)) # 0
  BY <1>1, <1>2, FS_CardinalityType, FS_EmptySet
<1>4. Cardinality(Participants(b)) = 1
  BY <1>3
<1>5. PICK p : Participants(b) = {p}
  BY <1>2, <1>4, FS_Singleton
<1> QED
  BY <1>1, <1>4, <1>5, MessageConstAssumption DEF Lane

\* NoJob is no job.
LEMMA NoJobFacts == \A n \in JobId : n # NoJob
BY DEF JobId, NoJob

\* What a busy slot works on.
LEMMA BusyFacts ==
    ASSUME JobInv, NEW s \in Slot, pc[s] # "idle"
    PROVE  /\ job[s] \in JobId /\ state[job[s]] = "running" /\ payload[job[s]] \in Batch
           /\ Busy(s) => /\ Event(s) \in EventOf /\ at[s] \in 1..Len(payload[job[s]])
           /\ pc[s] \in InboundStep => Event(s).id \in Inbound /\ Event(s).kind = "message"
           /\ pc[s] \in StatusStep => /\ Event(s).id \in Outbound /\ Event(s).send \in 1..MaxSends
                                      /\ Event(s).to \in Reported /\ Event(s).kind = "status"
<1>1. job[s] \in JobId /\ state[job[s]] = "running" /\ payload[job[s]] \in Batch
  BY DEF JobInv, Holding, SlotTypeOK, Queued
<1>2. Busy(s) => at[s] \in DOMAIN payload[job[s]] /\ Event(s) \in EventOf
  BY <1>1, BodyFacts DEF JobInv, Holding, Event
<1>3. (pc[s] \in InboundStep => Event(s).kind = "message") /\ (pc[s] \in StatusStep => Event(s).kind = "status")
  BY DEF JobInv, Holding
<1>4. pc[s] \in InboundStep \cup StatusStep => Busy(s)
  BY DEF InboundStep, StatusStep, Busy
<1> QED
  BY <1>1, <1>2, <1>3, <1>4, BodyFacts, EventFacts

\* Two slots that work for one participant, each on a body of its own lane,
\* are one.
LEMMA LaneMates ==
    ASSUME JobInv, NEW s \in Slot, NEW t \in Slot, Busy(s), Busy(t),
           Chat[Event(s).id] = Chat[Event(t).id],
           ~(Cardinality(Participants(payload[job[s]])) > 1),
           ~(Cardinality(Participants(payload[job[t]])) > 1)
    PROVE  s = t
<1>1. /\ job[s] \in JobId /\ state[job[s]] = "running" /\ payload[job[s]] \in Batch
      /\ at[s] \in DOMAIN payload[job[s]]
  BY BusyFacts DEF Busy, JobInv, Holding
<1>2. /\ job[t] \in JobId /\ state[job[t]] = "running" /\ payload[job[t]] \in Batch
      /\ at[t] \in DOMAIN payload[job[t]]
  BY BusyFacts DEF Busy, JobInv, Holding
<1>3. Lane(payload[job[s]]) = Lane(payload[job[t]]) /\ Lane(payload[job[s]]) # "none"
  BY <1>1, <1>2, LaneFacts DEF Event
<1>4. job[s][1] = job[t][1] /\ job[s][1] # "none"
  BY <1>1, <1>2, <1>3 DEF JobInv, Queued
<1>5. job[s] = job[t]
  BY <1>1, <1>2, <1>4 DEF JobInv, Serial
<1> QED
  BY <1>1, <1>5, NoJobFacts DEF JobInv, Alone

-----------------------------------------------------------------------------
(* Slots and jobs.                                                          *)

\* The slots other than s, and what they work on, stay.
Beside(s) ==
    \A t \in Slot \ {s} : /\ pc'[t] = pc[t] /\ seen'[t] = seen[t]
                          /\ Busy(t) => Event(t)' = Event(t)

\* What a slot is at after a step of its own: a fresh event, or the same one.
SameEvent(s) == Busy(s) /\ Event(s)' = Event(s)

\* A slot goes on with its event.
LEMMA GoStep ==
    ASSUME JobInv, NEW s \in Slot, NEW from \in InboundStep \cup StatusStep, NEW to, Goto(s, from, to),
           \/ from \in InboundStep /\ to \in InboundStep
           \/ from \in StatusStep /\ to \in StatusStep,
           UNCHANGED <<queueVars, job, at>>, seen' \in [Slot -> DOMAIN Rank],
           \A t \in Slot \ {s} : seen'[t] = seen[t]
    PROVE  JobInv' /\ Beside(s) /\ SameEvent(s)
<1> USE DEF queueVars
<1>1. QueueTypeOK' /\ SlotTypeOK' /\ Queued' /\ Attempts' /\ Alone' /\ Serial'
  BY DEF JobInv, QueueTypeOK, SlotTypeOK, Queued, Attempts, Alone, Serial, Goto
<1>2. \A t \in Slot : pc'[t] = IF t = s THEN to ELSE pc[t]
  BY DEF JobInv, SlotTypeOK, Goto
<1>3. \A t \in Slot : Event(t)' = Event(t)
  BY DEF Event
<1>4. Busy(s) /\ to \notin {"idle", "end"} /\ from = pc[s]
  BY DEF Busy, Goto, InboundStep, StatusStep
<1>5. Holding'
  BY <1>2, <1>3, <1>4 DEF JobInv, Holding, Busy, InboundStep, StatusStep
<1> QED
  BY <1>1, <1>2, <1>3, <1>4, <1>5 DEF JobInv, Beside, SameEvent

\* A slot is done with an event.
LEMMA ReturnStep ==
    ASSUME JobInv, NEW s \in Slot, Busy(s), Return(s), UNCHANGED queueVars
    PROVE  JobInv' /\ Beside(s) /\ pc'[s] \in Fresh
<1> USE DEF queueVars
<1> DEFINE body == payload[job[s]]
<1>1. body \in Batch /\ at[s] \in 1..Len(body) /\ Len(body) \in Nat /\ DOMAIN body = 1..Len(body)
  BY BusyFacts, BodyFacts DEF Busy
<1>2. /\ at' = [at EXCEPT ![s] = at[s] + 1] /\ UNCHANGED <<job, seen>>
      /\ pc' = [pc EXCEPT ![s] = IF at[s] < Len(body) THEN FirstStep(body[at[s] + 1]) ELSE "end"]
  BY DEF Return
<1>3. ASSUME at[s] < Len(body)
      PROVE  /\ at[s] + 1 \in DOMAIN body /\ body[at[s] + 1] \in EventOf
             /\ body[at[s] + 1].kind \in {"message", "status"}
  BY <1>1, <1>3, BodyFacts, EventFacts
<1>4. \A t \in Slot : /\ at'[t] = IF t = s THEN at[s] + 1 ELSE at[t]
                      /\ pc'[t] = IF t # s THEN pc[t] ELSE
                                  IF at[s] < Len(body) THEN FirstStep(body[at[s] + 1]) ELSE "end"
  BY <1>2 DEF JobInv, SlotTypeOK
<1>5. pc'[s] \in Fresh \ {"idle"}
  BY <1>4, <1>3 DEF FirstStep, Fresh
<1>6. SlotTypeOK'
  BY <1>1, <1>2, <1>5 DEF JobInv, SlotTypeOK, Fresh, InboundStep, StatusStep
<1>7. QueueTypeOK' /\ Queued' /\ Attempts' /\ Alone' /\ Serial'
  BY <1>2 DEF JobInv, QueueTypeOK, Queued, Attempts, Alone, Serial
<1>8. \A t \in Slot \ {s} : Event(t)' = Event(t)
  BY <1>2, <1>4 DEF Event
<1>9. Holding'
  <2> SUFFICES ASSUME NEW t \in Slot
               PROVE  /\ pc'[t] # "idle" <=> job[t] # NoJob
                      /\ pc'[t] # "idle" => state[job[t]] = "running"
                      /\ Busy(t)' => at'[t] \in DOMAIN payload[job[t]]
                      /\ pc'[t] \in InboundStep => Event(t)'.kind = "message"
                      /\ pc'[t] \in StatusStep => Event(t)'.kind = "status"
    BY <1>2 DEF Holding, InboundStep, StatusStep
  <2>1. CASE t # s
    BY <1>4, <1>8, <2>1 DEF JobInv, Holding, Busy
  <2>2. CASE t = s /\ at[s] < Len(body)
    <3>1. Event(t)' = body[at[s] + 1] /\ pc'[t] = FirstStep(body[at[s] + 1])
      BY <1>2, <1>4, <2>2 DEF Event
    <3>2. pc'[t] = IF Event(t)'.kind = "message" THEN "guard" ELSE "look"
      BY <3>1 DEF FirstStep
    <3> QED
      BY <1>3, <1>4, <2>2, <3>1, <3>2 DEF JobInv, Holding, Busy, InboundStep, StatusStep
  <2>3. CASE t = s /\ ~(at[s] < Len(body))
    BY <1>4, <2>3 DEF JobInv, Holding, Busy, InboundStep, StatusStep
  <2> QED
    BY <2>1, <2>2, <2>3
<1> QED
  BY <1>2, <1>4, <1>5, <1>6, <1>7, <1>8, <1>9 DEF JobInv, Beside

\* A slot is done with its job.
LEMMA FreeStep ==
    ASSUME JobInv, NEW s \in Slot, pc[s] # "idle", FreeSlot(s), UNCHANGED payload,
           Queue!Finish(job[s]) \/ Queue!Err(job[s])
    PROVE  JobInv' /\ Beside(s) /\ pc'[s] \in Fresh
<1> DEFINE n == job[s]
<1>1. n \in JobId /\ state[n] = "running" /\ tries[n] \in 0..MaxAttempts /\ tries[n] < MaxAttempts
  BY BusyFacts DEF JobInv, QueueTypeOK, Attempts
<1>2. /\ pc' = [pc EXCEPT ![s] = "idle"] /\ job' = [job EXCEPT ![s] = NoJob]
      /\ at' = [at EXCEPT ![s] = 0] /\ seen' = [seen EXCEPT ![s] = "sending"]
  BY DEF FreeSlot
<1>3. /\ \A m \in JobId \ {n} : state'[m] = state[m] /\ tries'[m] = tries[m]
      /\ state' \in [JobId -> State] /\ tries' \in [JobId -> 0..MaxAttempts]
      /\ state'[n] = "waiting" => tries'[n] < MaxAttempts
      /\ state'[n] \in {"waiting", "done", "dead"}
  <2>1. CASE Queue!Finish(n)
    BY <1>1, <2>1 DEF Queue!Finish, Queue!Set, JobInv, QueueTypeOK, State
  <2>2. CASE Queue!Err(n)
    <3>1. tries' = [tries EXCEPT ![n] = tries[n] + 1] /\ tries[n] + 1 \in 0..MaxAttempts
      BY <1>1, <2>2, MessageConstAssumption DEF Queue!Err
    <3>2. tries'[n] = tries[n] + 1 /\ tries' \in [JobId -> 0..MaxAttempts]
      BY <1>1, <3>1 DEF JobInv, QueueTypeOK
    <3>3. state' = [state EXCEPT ![n] = IF tries[n] + 1 = MaxAttempts THEN "dead" ELSE "waiting"]
      BY <2>2 DEF Queue!Err, Queue!Set
    <3>4. state' \in [JobId -> State]
      BY <3>3 DEF JobInv, QueueTypeOK, State
    <3>5. state'[n] = IF tries[n] + 1 = MaxAttempts THEN "dead" ELSE "waiting"
      BY <1>1, <3>3 DEF JobInv, QueueTypeOK
    <3>6. \A m \in JobId \ {n} : state'[m] = state[m] /\ tries'[m] = tries[m]
      BY <3>1, <3>3 DEF JobInv, QueueTypeOK
    <3> QED
      BY <1>1, <3>2, <3>4, <3>5, <3>6, MessageConstAssumption
  <2> QED
    BY <2>1, <2>2
<1>4. QueueTypeOK' /\ SlotTypeOK'
  BY <1>2, <1>3, RankFacts DEF JobInv, QueueTypeOK, SlotTypeOK
<1>5. Queued' /\ Attempts' /\ Serial'
  BY <1>1, <1>3 DEF JobInv, Queued, Attempts, Serial
<1>6. \A t \in Slot \ {s} : /\ pc'[t] = pc[t] /\ job'[t] = job[t] /\ at'[t] = at[t] /\ seen'[t] = seen[t]
                            /\ Event(t)' = Event(t)
                            /\ job[t] # NoJob => job[t] # n /\ job[t] \in JobId
  BY <1>1, <1>2, NoJobFacts DEF JobInv, SlotTypeOK, Alone, Event
<1>7. pc'[s] = "idle" /\ job'[s] = NoJob
  BY <1>2 DEF JobInv, SlotTypeOK
<1>8. Holding'
  BY <1>3, <1>6, <1>7 DEF JobInv, Holding, Busy, InboundStep, StatusStep
<1>9. Alone'
  BY <1>6, <1>7 DEF JobInv, Alone
<1> QED
  BY <1>4, <1>5, <1>6, <1>7, <1>8, <1>9 DEF JobInv, Beside, Fresh

\* A slot takes a job.
LEMMA ClaimStep ==
    ASSUME JobInv, NEW s \in Slot, Claim(s)
    PROVE  JobInv' /\ Beside(s) /\ pc'[s] \in Fresh
<1>1. PICK n \in JobId : /\ Queue!Begin(n)
                         /\ job' = [job EXCEPT ![s] = n] /\ at' = [at EXCEPT ![s] = 1]
                         /\ pc' = [pc EXCEPT ![s] = FirstStep(payload[n][1])]
  BY DEF Claim
<1>2. /\ state[n] = "waiting" /\ state' = [state EXCEPT ![n] = "running"]
      /\ \A m \in JobId : m # n /\ n[1] = m[1] /\ n[1] # "none" => state[m] # "running"
      /\ UNCHANGED <<tries, payload, seen>> /\ pc[s] = "idle" /\ job[s] = NoJob
  BY <1>1 DEF Claim, Queue!Begin, Queue!Set, Queue!Same, JobInv, Holding
<1>3. payload[n] \in Batch /\ payload[n][1] \in EventOf /\ 1 \in DOMAIN payload[n]
      /\ payload[n][1].kind \in {"message", "status"} /\ n # NoJob
  BY <1>2, BodyFacts, EventFacts, NoJobFacts DEF JobInv, Queued
<1>4. FirstStep(payload[n][1]) = IF payload[n][1].kind = "message" THEN "guard" ELSE "look"
  BY DEF FirstStep
<1>5. \A t \in Slot : /\ pc'[t] = IF t = s THEN FirstStep(payload[n][1]) ELSE pc[t]
                      /\ job'[t] = IF t = s THEN n ELSE job[t]
                      /\ at'[t] = IF t = s THEN 1 ELSE at[t]
  BY <1>1 DEF JobInv, SlotTypeOK
<1>6. \A t \in Slot \ {s} : Event(t)' = Event(t)
  BY <1>2, <1>5 DEF Event
<1>7. Event(s)' = payload[n][1]
  BY <1>2, <1>5 DEF Event
<1>8. QueueTypeOK' /\ Queued' /\ Attempts'
  <2>1. QueueTypeOK'
    BY <1>2 DEF JobInv, QueueTypeOK, State
  <2>2. \A m \in JobId : /\ state'[m] # "none" => state[m] # "none"
                         /\ state'[m] \in {"none", "waiting", "running"} =>
                                state[m] \in {"none", "waiting", "running"}
    BY <1>2 DEF JobInv, QueueTypeOK
  <2>3. Queued'
    BY <1>2, <2>2 DEF JobInv, Queued
  <2>4. Attempts'
    BY <1>2, <2>2 DEF JobInv, Attempts
  <2> QED
    BY <2>1, <2>3, <2>4
<1>9. SlotTypeOK'
  BY <1>1, <1>2, <1>4 DEF JobInv, SlotTypeOK, InboundStep, StatusStep
<1>10. Serial'
  BY <1>2 DEF JobInv, Serial, QueueTypeOK
<1>11. \A t \in Slot : job[t] # NoJob => job[t] # n /\ job[t] \in JobId /\ state[job[t]] = "running"
  BY <1>2 DEF JobInv, Holding, SlotTypeOK
<1>12. Alone'
  BY <1>5, <1>11 DEF JobInv, Alone
<1>13. Holding'
  <2> SUFFICES ASSUME NEW t \in Slot
               PROVE  /\ pc'[t] # "idle" <=> job'[t] # NoJob
                      /\ pc'[t] # "idle" => state'[job'[t]] = "running"
                      /\ Busy(t)' => at'[t] \in DOMAIN payload[job'[t]]
                      /\ pc'[t] \in InboundStep => Event(t)'.kind = "message"
                      /\ pc'[t] \in StatusStep => Event(t)'.kind = "status"
    BY <1>2 DEF Holding, InboundStep, StatusStep
  <2>1. CASE t # s
    BY <1>2, <1>5, <1>6, <1>11, <2>1 DEF JobInv, Holding, Busy, QueueTypeOK
  <2>2. CASE t = s
    BY <1>2, <1>3, <1>4, <1>5, <1>7, <2>2 DEF InboundStep, StatusStep, JobInv, QueueTypeOK
  <2> QED
    BY <2>1, <2>2
<1> QED
  BY <1>2, <1>4, <1>5, <1>6, <1>8, <1>9, <1>10, <1>12, <1>13 DEF JobInv, Beside, Fresh

\* Whatever a slot does, the other slots stay, and it is at its event or at a
\* fresh one.
LEMMA SlotStep ==
    ASSUME OutTypeOK, JobInv, NEW s \in Slot, Handle(s)
    PROVE  JobInv' /\ Beside(s) /\ (SameEvent(s) \/ pc'[s] \in Fresh)
<1>1. seen \in [Slot -> DOMAIN Rank] /\ pc \in [Slot -> InboundStep \cup StatusStep \cup {"idle", "end"}]
  BY DEF JobInv, SlotTypeOK
<1>2. CASE Claim(s)
  BY <1>2, ClaimStep
<1>3. CASE Finish(s)
  BY <1>3, FreeStep DEF Finish
<1>4. CASE HandlerFails(s) \/ StoreRefused(s)
  BY <1>4, FreeStep DEF HandlerFails, StoreRefused, Throw
<1>5. CASE Return(s) /\ UNCHANGED queueVars /\ Busy(s)
  BY <1>5, ReturnStep
<1>6. ASSUME NEW from \in InboundStep \cup StatusStep, NEW to, Goto(s, from, to),
             \/ from \in InboundStep /\ to \in InboundStep
             \/ from \in StatusStep /\ to \in StatusStep,
             UNCHANGED <<queueVars, job, at>>, seen' = seen
      PROVE  JobInv' /\ Beside(s) /\ SameEvent(s)
  BY <1>1, <1>6, GoStep
<1>7. CASE Guard(s)
  <2>1. CASE Duplicate(s)
    BY <1>5, <1>7, <2>1 DEF Guard, Busy
  <2>2. CASE ~Duplicate(s)
    BY <1>6, <1>7, <2>2 DEF Guard, InboundStep
  <2> QED
    BY <2>1, <2>2
<1>8. CASE FindContact(s)
  BY <1>6, <1>8 DEF FindContact, InboundStep
<1>9. CASE AddContact(s)
  BY <1>6, <1>9 DEF AddContact, InboundStep
<1>10. CASE FindChat(s)
  BY <1>6, <1>10 DEF FindChat, InboundStep
<1>11. CASE OpenChat(s) \/ BumpChat(s)
  BY <1>6, <1>11 DEF OpenChat, BumpChat, InboundStep
<1>12. CASE Store(s)
  BY <1>6, <1>12 DEF Store, InboundStep
<1>13. CASE Tell(s) \/ Count(s)
  BY <1>5, <1>13 DEF Tell, Count, Busy
<1>14. CASE Look(s)
  <2>1. CASE Return(s)
    BY <1>5, <1>14, <2>1 DEF Look, Busy
  <2>2. CASE ~Return(s)
    <3>1. /\ Goto(s, "look", "set") /\ seen' = [seen EXCEPT ![s] = status[Event(s).id]]
          /\ UNCHANGED <<queueVars, job, at>>
      BY <1>14, <2>2 DEF Look
    <3>2. status[Event(s).id] \in DOMAIN Rank
      BY <1>14, <2>2, BusyFacts DEF Look, OutTypeOK, StatusStep
    <3>3. seen' \in [Slot -> DOMAIN Rank] /\ \A t \in Slot \ {s} : seen'[t] = seen[t]
      BY <1>1, <3>1, <3>2
    <3> QED
      BY <3>1, <3>3, GoStep DEF StatusStep
  <2> QED
    BY <2>1, <2>2
<1>15. CASE SetStatus(s)
  <2>1. CASE Counts(s)
    BY <1>6, <1>15, <2>1 DEF SetStatus, StatusStep
  <2>2. CASE ~Counts(s)
    BY <1>5, <1>15, <2>2 DEF SetStatus, Busy
  <2> QED
    BY <2>1, <2>2
<1> QED
  BY <1>2, <1>3, <1>4, <1>7, <1>8, <1>9, <1>10, <1>11, <1>12, <1>13, <1>14, <1>15 DEF Handle

\* What is not a slot's step or a restart leaves all of them where they are.
Still == \A t \in Slot : pc'[t] = pc[t] /\ seen'[t] = seen[t] /\ (Busy(t) => Event(t)' = Event(t))

\* A webhook becomes a job of its lane.
LEMMA ReceiveStep ==
    ASSUME JobInv, NEW b \in Batch, Receive(b)
    PROVE  JobInv' /\ Still
<1>1. PICK n \in JobId : /\ Queue!Submit(n) /\ n[1] = Lane(b)
                         /\ payload' = [payload EXCEPT ![n] = b]
  BY DEF Receive
<1>2. /\ state[n] = "none" /\ state' = [state EXCEPT ![n] = "waiting"]
      /\ UNCHANGED <<tries, pc, job, at, seen>>
  BY <1>1 DEF Receive, Queue!Submit, Queue!Set, slotVars
<1>3. \A m \in JobId : /\ state'[m] = IF m = n THEN "waiting" ELSE state[m]
                       /\ payload'[m] = IF m = n THEN b ELSE payload[m]
  BY <1>1, <1>2 DEF JobInv, QueueTypeOK
<1>4. QueueTypeOK' /\ SlotTypeOK' /\ Alone'
  BY <1>1, <1>2 DEF JobInv, QueueTypeOK, SlotTypeOK, Alone, State
<1>5. Queued'
  BY <1>1, <1>3 DEF JobInv, Queued
<1>6. Attempts' /\ Serial'
  BY <1>2, <1>3 DEF JobInv, Attempts, Serial
<1>7. \A t \in Slot : pc[t] # "idle" => job[t] \in JobId /\ job[t] # n
  BY <1>2, BusyFacts
<1>8. \A t \in Slot : pc[t] # "idle" => payload'[job[t]] = payload[job[t]] /\ Event(t)' = Event(t)
  BY <1>2, <1>3, <1>7 DEF Event
<1>9. Holding'
  BY <1>2, <1>3, <1>7, <1>8 DEF JobInv, Holding, Busy, InboundStep, StatusStep
<1> QED
  BY <1>2, <1>4, <1>5, <1>6, <1>8, <1>9 DEF JobInv, Still, Busy

\* The senders use neither the slots nor their jobs.
LEMMA IdleStep ==
    ASSUME JobInv, UNCHANGED <<queueVars, slotVars>>
    PROVE  JobInv' /\ Still
<1> USE DEF queueVars, slotVars
<1>1. QueueTypeOK' /\ SlotTypeOK' /\ Queued' /\ Attempts' /\ Alone' /\ Serial'
  BY DEF JobInv, QueueTypeOK, SlotTypeOK, Queued, Attempts, Alone, Serial
<1>2. \A t \in Slot : Event(t)' = Event(t)
  BY DEF Event
<1>3. Holding'
  BY <1>2 DEF JobInv, Holding, Busy
<1> QED
  BY <1>1, <1>2, <1>3 DEF JobInv, Still

\* After a restart every slot is idle and the jobs wait.
LEMMA CrashStep ==
    ASSUME JobInv, Crash
    PROVE  JobInv' /\ \A t \in Slot : pc'[t] = "idle"
<1>1. /\ state' = [n \in JobId |-> IF state[n] = "running" THEN "waiting" ELSE state[n]]
      /\ UNCHANGED <<tries, payload>>
  BY DEF Crash, Queue!Interrupt
<1>2. /\ pc' = [s \in Slot |-> "idle"] /\ job' = [s \in Slot |-> NoJob]
      /\ at' = [s \in Slot |-> 0] /\ seen' = [s \in Slot |-> "sending"]
  BY DEF Crash
<1>3. QueueTypeOK'
  BY <1>1 DEF JobInv, QueueTypeOK, State
<1>4. Queued' /\ Attempts' /\ Serial'
  BY <1>1 DEF JobInv, Queued, Attempts, Serial
<1>5. SlotTypeOK' /\ Holding' /\ Alone'
  BY <1>2, RankFacts DEF SlotTypeOK, Holding, Busy, Alone, InboundStep, StatusStep
<1> QED
  BY <1>2, <1>3, <1>4, <1>5 DEF JobInv

SendStep ==
    \/ \E x \in Bulk : Broadcast(x)
    \/ \E x \in Media : Deliver(x)
    \/ Cleanup \/ UNCHANGED vars

\* A sender leaves the webhooks' side alone, but for the conversations.
LEMMA SendAside ==
    ASSUME SendStep
    PROVE  UNCHANGED <<queueVars, slotVars, people, stored, unread, told, cut, counted>>
<1>1. ASSUME NEW x \in Media, Deliver(x) PROVE UNCHANGED <<queueVars, slotVars, inVars, cut, counted>>
  BY <1>1 DEF Deliver, MediaStep, DraftMedia, EnqueueMedia, BeginMedia, LookMedia, MediaJobFails, Send,
              Mark, Catch, MarkFailed, EndMedia, MediaOutage
<1>2. ASSUME NEW x \in Bulk, Broadcast(x)
      PROVE  UNCHANGED <<queueVars, slotVars, people, stored, unread, told, cut, counted>>
  BY <1>2 DEF Broadcast, SendBulk, FindBulkChat, OpenBulkChat, RecordBulk, BulkStep
<1> QED
  BY <1>1, <1>2 DEF SendStep, Cleanup, MediaStep, vars, inVars, outVars

\* The four kinds of step.
LEMMA NextSteps ==
    ASSUME [Next]_vars
    PROVE  \/ \E b \in Batch : Receive(b)
           \/ \E s \in Slot : Handle(s)
           \/ SendStep \/ Crash
BY DEF Next, SendStep

\* The invariant of the worker is inductive.
LEMMA JobsStep == OutTypeOK /\ JobInv /\ [Next]_vars => JobInv'
BY NextSteps, ReceiveStep, SlotStep, SendAside, IdleStep, CrashStep

-----------------------------------------------------------------------------
(* Types.                                                                   *)

InTypeOK ==
    /\ people \in [Person -> Nat] /\ chats \in [Person -> Nat]
    /\ raced \subseteq Person /\ stored \subseteq Inbound /\ cut \subseteq Inbound
    /\ unread \in [Inbound -> Nat] /\ told \in [Inbound -> Nat]
    /\ faults \in 0..MaxTroubles /\ crashes \in 0..MaxTroubles /\ cleanups \in Nat

MediaTypeOK ==
    /\ mstate \in [Media -> State] /\ mtries \in [Media -> 0..1]
    /\ mpc \in [Media -> {"idle", "enqueue", "look", "send", "mark", "rest", "fail", "end"}]
    /\ \A x \in Media : mstate[x] \in {"none", "waiting", "running"} => mtries[x] = 0
    /\ bpc \in [Bulk -> {"idle", "find", "open", "record", "end"}]

DataTypeOK == InTypeOK /\ MediaTypeOK /\ OutTypeOK

\* A slot writes values of the columns.
LEMMA HandleTypes ==
    ASSUME DataTypeOK, JobInv, NEW s \in Slot, Handle(s)
    PROVE  DataTypeOK'
<1> USE DEF DataTypeOK, envVars
<1>1. MediaTypeOK'
  <2>1. UNCHANGED sendVars
    BY DEF Handle, Claim, Finish, HandlerFails, Throw, Guard, FindContact, AddContact, FindChat, OpenChat,
           BumpChat, Store, StoreRefused, Tell, Look, SetStatus, Count
  <2> QED
    BY <2>1 DEF sendVars, MediaTypeOK
<1>2. pc[s] \in InboundStep =>
          Event(s).id \in Inbound /\ Who(s) \in Person
  BY BusyFacts, MessageConstAssumption DEF Who, InboundStep
<1>3. CASE AddContact(s) \/ OpenChat(s) \/ BumpChat(s) \/ Store(s) \/ Tell(s)
  <2>1. Event(s).id \in Inbound /\ Who(s) \in Person
    BY <1>2, <1>3 DEF AddContact, OpenChat, BumpChat, Store, Tell, Goto, InboundStep
  <2>2. OutTypeOK' /\ UNCHANGED <<cut, faults, crashes, cleanups, raced>>
    BY <1>3 DEF AddContact, OpenChat, BumpChat, Store, Tell, outVars, OutTypeOK
  <2>3. \A p \in Person : people[p] + 1 \in Nat /\ chats[p] + 1 \in Nat
    BY DEF InTypeOK
  <2>4. \A m \in Inbound : unread[m] + 1 \in Nat /\ told[m] + 1 \in Nat
    BY DEF InTypeOK
  <2>5. people' \in [Person -> Nat] /\ chats' \in [Person -> Nat]
    <3>1. people' = people \/ people' = [people EXCEPT ![Who(s)] = people[Who(s)] + 1]
      BY <1>3 DEF AddContact, OpenChat, BumpChat, Store, Tell
    <3>2. chats' = chats \/ chats' = [chats EXCEPT ![Who(s)] = chats[Who(s)] + 1]
      BY <1>3 DEF AddContact, OpenChat, BumpChat, Store, Tell
    <3> QED
      BY <2>1, <2>3, <3>1, <3>2 DEF InTypeOK
  <2>6. unread' \in [Inbound -> Nat] /\ told' \in [Inbound -> Nat]
    <3>1. unread' = unread \/ unread' = [unread EXCEPT ![Event(s).id] = unread[Event(s).id] + 1]
      BY <1>3 DEF AddContact, OpenChat, BumpChat, Store, Tell, CountUnread
    <3>2. told' = told \/ told' = [told EXCEPT ![Event(s).id] = told[Event(s).id] + 1]
      BY <1>3 DEF AddContact, OpenChat, BumpChat, Store, Tell
    <3> QED
      BY <2>1, <2>4, <3>1, <3>2 DEF InTypeOK
  <2>7. stored' \subseteq Inbound
    BY <1>3, <2>1 DEF AddContact, OpenChat, BumpChat, Store, Tell, InTypeOK
  <2> QED
    BY <1>1, <2>2, <2>5, <2>6, <2>7 DEF InTypeOK
<1>4. CASE HandlerFails(s) \/ StoreRefused(s)
  <2>1. OutTypeOK' /\ UNCHANGED inVars /\ cut' = cut \cup HalfDone({s})
    BY <1>4 DEF HandlerFails, StoreRefused, Throw, outVars, OutTypeOK
  <2>2. HalfDone({s}) \subseteq Inbound
    BY <1>2 DEF HalfDone, InboundStep
  <2>3. faults' \in 0..MaxTroubles /\ crashes' \in 0..MaxTroubles /\ cleanups' = cleanups
    BY <1>4, MessageConstAssumption DEF HandlerFails, StoreRefused, Fault, InTypeOK
  <2> QED
    BY <1>1, <2>1, <2>2, <2>3 DEF inVars, InTypeOK
<1>8. CASE FindChat(s)
  <2>1. Who(s) \in Person
    BY <1>2, <1>8 DEF FindChat, Goto, InboundStep
  <2>2. raced' \subseteq Person
    BY <1>8, <2>1 DEF FindChat, InTypeOK
  <2> QED
    BY <1>1, <1>8, <2>2 DEF FindChat, outVars, InTypeOK, OutTypeOK
<1>5. CASE Claim(s) \/ Finish(s) \/ Guard(s) \/ FindContact(s) \/ Look(s)
  <2>1. UNCHANGED <<inVars, outVars, cut, envVars>>
    BY <1>5 DEF Claim, Finish, Guard, FindContact, Look
  <2> QED
    BY <1>1, <2>1 DEF inVars, outVars, InTypeOK, OutTypeOK
<1>6. CASE SetStatus(s)
  <2>1. Event(s).id \in Outbound /\ Event(s).to \in Reported /\ seen[s] \in DOMAIN Rank
    BY <1>6, BusyFacts DEF SetStatus, StatusStep, JobInv, SlotTypeOK
  <2>2. NewStatus(seen[s], Event(s).to) \in DOMAIN Rank
    BY <2>1, RankFacts DEF NewStatus, Reported
  <2>3. OutTypeOK'
    BY <1>6, <2>1, <2>2 DEF SetStatus, OutTypeOK
  <2> QED
    BY <1>1, <1>6, <2>3 DEF SetStatus, inVars, InTypeOK
<1>7. CASE Count(s)
  <2>1. Event(s).id \in Outbound /\ Event(s).to \in Reported
    BY <1>7, BusyFacts DEF Count, StatusStep
  <2>2. counted' \in [Bulk -> [{"delivered", "read"} -> Nat]]
    <3> DEFINE x == Event(s).id
               c == Event(s).to
               row == [counted[x] EXCEPT ![c] = counted[x][c] + 1]
    <3>1. counted' = [counted EXCEPT ![x] = row]
      BY <1>7 DEF Count
    <3>2. ASSUME x \in Bulk PROVE row \in [{"delivered", "read"} -> Nat]
      <4>1. counted[x] \in [{"delivered", "read"} -> Nat]
        BY <3>2 DEF OutTypeOK
      <4>2. c \in {"delivered", "read"} => counted[x][c] + 1 \in Nat
        BY <4>1
      <4> QED
        BY <4>1, <4>2
    <3> HIDE DEF row
    <3> QED
      BY <3>1, <3>2 DEF OutTypeOK
  <2> QED
    BY <1>1, <1>7, <2>2 DEF Count, inVars, InTypeOK, OutTypeOK
<1> QED
  BY <1>3, <1>4, <1>5, <1>6, <1>7, <1>8 DEF Handle

\* So do the senders.
LEMMA SendTypes ==
    ASSUME DataTypeOK, SendStep
    PROVE  DataTypeOK'
<1> USE MessageConstAssumption DEF DataTypeOK, envVars
<1>1. UNCHANGED <<people, stored, unread, told, cut, counted>>
  BY SendAside
<1>2. CASE UNCHANGED vars
  BY <1>1, <1>2 DEF vars, inVars, outVars, sendVars, InTypeOK, MediaTypeOK, OutTypeOK
<1>3. ASSUME NEW x \in Bulk, Broadcast(x) PROVE DataTypeOK'
  <2>1. x \in Outbound /\ Chat[x] \in Person /\ "sent" \in DOMAIN Rank /\ 1 \in 0..MaxSends
    BY RankFacts DEF Outbound
  <2>2. MediaTypeOK'
    <3>1. \E to \in {"find", "open", "record", "end"} : bpc' = [bpc EXCEPT ![x] = to]
      BY <1>3 DEF Broadcast, SendBulk, FindBulkChat, OpenBulkChat, RecordBulk, BGoto
    <3>2. UNCHANGED <<mstate, mtries, mpc>>
      BY <1>3 DEF Broadcast, SendBulk, FindBulkChat, OpenBulkChat, RecordBulk, BulkStep
    <3> QED
      BY <3>1, <3>2 DEF MediaTypeOK
  <2>3. InTypeOK'
    <3>1. chats' = chats \/ chats' = [chats EXCEPT ![Chat[x]] = chats[Chat[x]] + 1]
      BY <1>3 DEF Broadcast, SendBulk, FindBulkChat, OpenBulkChat, RecordBulk
    <3>2. raced' \subseteq Person /\ UNCHANGED envVars
      BY <1>3, <2>1 DEF Broadcast, SendBulk, FindBulkChat, OpenBulkChat, RecordBulk, BulkStep, InTypeOK
    <3>3. chats[Chat[x]] + 1 \in Nat
      BY <2>1 DEF InTypeOK
    <3> QED
      BY <1>1, <2>1, <3>1, <3>2, <3>3 DEF InTypeOK
  <2>4. OutTypeOK'
    <3>1. /\ accepted' = accepted \/ accepted' = [accepted EXCEPT ![x] = 1]
          /\ \/ status' = [status EXCEPT ![x] = "sent"] /\ wamid' = [wamid EXCEPT ![x] = 1]
             \/ UNCHANGED <<status, wamid>>
      BY <1>3 DEF Broadcast, SendBulk, FindBulkChat, OpenBulkChat, RecordBulk
    <3> HIDE MessageConstAssumption
    <3> QED
      BY <1>1, <2>1, <3>1 DEF OutTypeOK
  <2> QED
    BY <2>2, <2>3, <2>4
<1>5. CASE Cleanup
  <2>1. /\ mstate' = [x \in Media |-> IF x \in Left THEN "waiting" ELSE mstate[x]] /\ mtries' = mtries
        /\ \A x \in Left : mstate[x] = "running"
    BY <1>5 DEF Cleanup, MediaQueue!Interrupt
  <2>2. UNCHANGED <<mpc, bpc, inVars, outVars, cut, faults, crashes>> /\ cleanups' = cleanups + 1
    BY <1>5 DEF Cleanup, MediaStep, outVars
  <2>3. MediaTypeOK'
    BY <2>1, <2>2 DEF MediaTypeOK, State
  <2> QED
    BY <2>2, <2>3 DEF InTypeOK, OutTypeOK, inVars, outVars
<1>4. ASSUME NEW x \in Media, Deliver(x) PROVE DataTypeOK'
  <2>1. x \in Outbound /\ accepted[x] \in 0..MaxSends
    BY DEF Outbound, OutTypeOK
  <2>2. OutTypeOK'
    <3>1. CASE Send(x)
      BY <1>1, <2>1, <3>1 DEF Send, OutTypeOK
    <3>2. CASE ~Send(x)
      <4>1. status' = status \/ \E to \in DOMAIN Rank : status' = [status EXCEPT ![x] = to]
        BY <1>4, <3>2, RankFacts DEF Deliver, DraftMedia, EnqueueMedia, BeginMedia, LookMedia, MediaJobFails, MediaOutage,
              Mark, Catch, MarkFailed, EndMedia
      <4>2. wamid' = wamid \/ wamid' = [wamid EXCEPT ![x] = accepted[x]]
        BY <1>4, <3>2 DEF Deliver, DraftMedia, EnqueueMedia, BeginMedia, LookMedia, MediaJobFails, MediaOutage,
              Mark, Catch, MarkFailed, EndMedia
      <4>3. accepted' = accepted
        BY <1>4, <3>2 DEF Deliver, DraftMedia, EnqueueMedia, BeginMedia, LookMedia, MediaJobFails, MediaOutage,
              Mark, Catch, MarkFailed, EndMedia
      <4> QED
        BY <1>1, <2>1, <4>1, <4>2, <4>3 DEF OutTypeOK
    <3> QED
      BY <3>1, <3>2
  <2>3. /\ faults' \in 0..MaxTroubles /\ crashes' \in 0..MaxTroubles /\ cleanups' = cleanups
        /\ UNCHANGED <<inVars, bpc>>
    BY <1>4 DEF Deliver, MediaStep, DraftMedia, EnqueueMedia, BeginMedia, LookMedia, MediaJobFails, MediaOutage, Send,
              Mark, Catch, MarkFailed, EndMedia, Fault, InTypeOK
  <2>4. InTypeOK'
    BY <1>1, <2>3 DEF inVars, InTypeOK
  <2>5. mpc' \in [Media -> {"idle", "enqueue", "look", "send", "mark", "rest", "fail", "end"}]
    BY <1>4 DEF Deliver, DraftMedia, EnqueueMedia, BeginMedia, LookMedia, MediaJobFails, MediaOutage, Send,
              Mark, Catch, MarkFailed, EndMedia, MGoto, MediaTypeOK
  <2>6. /\ mstate' \in [Media -> State] /\ mtries' \in [Media -> 0..1]
        /\ \A y \in Media : mstate'[y] \in {"none", "waiting", "running"} => mtries'[y] = 0
    <3>1. CASE EnqueueMedia(x) \/ BeginMedia(x) \/ EndMedia(x)
      <4>1. /\ mtries' = mtries /\ mstate[x] \in {"none", "waiting", "running"}
            /\ \E to \in {"waiting", "running", "done"} : mstate' = [mstate EXCEPT ![x] = to]
        BY <3>1 DEF EnqueueMedia, BeginMedia, EndMedia, MediaQueue!Submit, MediaQueue!Begin,
                    MediaQueue!Finish, MediaQueue!Set
      <4> QED
        BY <4>1 DEF MediaTypeOK, State
    <3>2. CASE MediaJobFails(x)
      <4>1. /\ mtries' = [mtries EXCEPT ![x] = @ + 1] /\ mstate[x] = "running"
            /\ mstate' = [mstate EXCEPT ![x] = IF mtries[x] + 1 = 1 THEN "dead" ELSE "waiting"]
        BY <3>2 DEF MediaJobFails, MediaQueue!Err, MediaQueue!Set
      <4>2. mtries[x] = 0
        BY <4>1 DEF MediaTypeOK
      <4> QED
        BY <4>1, <4>2 DEF MediaTypeOK, State
    <3>3. CASE UNCHANGED <<mstate, mtries>>
      BY <3>3 DEF MediaTypeOK
    <3> QED
      BY <1>4, <3>1, <3>2, <3>3 DEF Deliver, DraftMedia, LookMedia, Send, Mark, Catch, MarkFailed,
                                         MediaOutage
  <2> QED
    BY <2>2, <2>3, <2>4, <2>5, <2>6 DEF MediaTypeOK
<1> QED
  BY <1>2, <1>3, <1>4, <1>5 DEF SendStep

\* Every step keeps the types.
LEMMA TypesStep == DataTypeOK /\ JobInv /\ [Next]_vars => DataTypeOK'
<1> SUFFICES ASSUME DataTypeOK, JobInv, [Next]_vars PROVE DataTypeOK'
  OBVIOUS
<1>1. ASSUME NEW b \in Batch, Receive(b) PROVE DataTypeOK'
  BY <1>1 DEF Receive, DataTypeOK, sendVars, inVars, outVars, envVars, InTypeOK, MediaTypeOK, OutTypeOK
<1>2. CASE Crash
  <2>1. HalfDone(Slot) \subseteq Inbound
    BY BusyFacts DEF HalfDone, InboundStep
  <2>2. crashes' \in 0..MaxTroubles /\ UNCHANGED <<inVars, outVars, faults, cleanups>> /\ cut' = cut \cup HalfDone(Slot)
    BY <1>2, MessageConstAssumption DEF Crash, DataTypeOK, InTypeOK
  <2>3. /\ mstate' = [x \in Media |-> IF x \in {y \in Media : mstate[y] = "running"} THEN "waiting" ELSE mstate[x]]
        /\ mtries' = mtries /\ mpc' = [x \in Media |-> "idle"]
        /\ bpc' = [x \in Bulk |-> IF bpc[x] = "idle" THEN "idle" ELSE "end"]
    BY <1>2 DEF Crash, MediaQueue!Interrupt
  <2>4. MediaTypeOK'
    BY <2>3 DEF DataTypeOK, MediaTypeOK, State
  <2> QED
    BY <2>1, <2>2, <2>4 DEF DataTypeOK, inVars, outVars, InTypeOK, OutTypeOK
<1> QED
  BY <1>1, <1>2, NextSteps, HandleTypes, SendTypes

-----------------------------------------------------------------------------
(* A message is announced once.                                             *)

\* Slots about to announce hold different messages, all stored and untold.
ToldInv ==
    /\ \A m \in Inbound : told[m] <= 1 /\ (told[m] > 0 => m \in stored)
    /\ \A s \in Slot : pc[s] = "tell" => Event(s).id \in stored /\ told[Event(s).id] = 0
    /\ \A s, t \in Slot : pc[s] = "tell" /\ pc[t] = "tell" /\ Event(s).id = Event(t).id => s = t
    /\ StoredIsTold

\* Nobody comes to announce, and who leaves without announcing is cut off.
LEMMA ToldSame ==
    ASSUME ToldInv, UNCHANGED <<stored, told>>, cut \subseteq cut',
           \A t \in Slot : pc'[t] = "tell" => pc[t] = "tell",
           \A t \in Slot : pc[t] = "tell" => /\ Event(t)' = Event(t) \/ pc'[t] # "tell"
                                             /\ pc'[t] = "tell" \/ Event(t).id \in cut'
    PROVE  ToldInv'
<1>1. \A m \in Inbound : told'[m] <= 1 /\ (told'[m] > 0 => m \in stored')
  BY DEF ToldInv
<1>2. \A s \in Slot : pc'[s] = "tell" => Event(s)'.id \in stored' /\ told'[Event(s)'.id] = 0
  BY DEF ToldInv
<1>3. \A s, t \in Slot : pc'[s] = "tell" /\ pc'[t] = "tell" /\ Event(s)'.id = Event(t)'.id => s = t
  BY DEF ToldInv
<1>4. StoredIsTold'
  <2> SUFFICES ASSUME NEW m \in stored' \ cut', told'[m] # 1
               PROVE  \E s \in Slot : pc'[s] = "tell" /\ Event(s)'.id = m
    BY DEF StoredIsTold
  <2>1. PICK s \in Slot : pc[s] = "tell" /\ Event(s).id = m
    BY DEF ToldInv, StoredIsTold
  <2> QED
    BY <2>1
<1> QED
  BY <1>1, <1>2, <1>3, <1>4 DEF ToldInv

\* The unique row lets one slot through to the announcement, once.
LEMMA ToldStep == DataTypeOK /\ JobInv /\ ToldInv /\ [Next]_vars => ToldInv'
<1> SUFFICES ASSUME DataTypeOK, JobInv, ToldInv, [Next]_vars PROVE ToldInv'
  OBVIOUS
<1>1. ASSUME NEW b \in Batch, Receive(b) PROVE ToldInv'
  <2>1. UNCHANGED <<stored, told, cut>>
    BY <1>1 DEF Receive, inVars
  <2> QED
    BY <1>1, <2>1, ReceiveStep, ToldSame DEF Still, Busy
<1>2. CASE SendStep
  <2>1. UNCHANGED <<stored, told, cut>> /\ UNCHANGED <<queueVars, slotVars>>
    BY <1>2, SendAside DEF inVars
  <2> QED
    BY <2>1, IdleStep, ToldSame DEF Still, Busy
<1>3. CASE Crash
  <2>1. UNCHANGED <<stored, told>> /\ cut' = cut \cup HalfDone(Slot)
    BY <1>3 DEF Crash, inVars
  <2>2. \A t \in Slot : pc[t] = "tell" => Event(t).id \in HalfDone(Slot)
    BY DEF HalfDone
  <2> QED
    BY <1>3, <2>1, <2>2, CrashStep, ToldSame
<1>4. ASSUME NEW s \in Slot, Handle(s) PROVE ToldInv'
  <2>1. \A t \in Slot \ {s} : pc'[t] = pc[t] /\ (pc[t] = "tell" => Event(t)' = Event(t))
    BY <1>4, SlotStep DEF Beside, Busy, DataTypeOK
  <2>2. CASE HandlerFails(s) \/ StoreRefused(s)
    <3>1. UNCHANGED <<stored, told>> /\ cut' = cut \cup HalfDone({s})
      BY <2>2 DEF HandlerFails, StoreRefused, Throw, inVars
    <3>2. pc[s] = "tell" => Event(s).id \in HalfDone({s})
      BY DEF HalfDone
    <3>3. pc'[s] # "tell"
      BY <2>2 DEF HandlerFails, StoreRefused, Throw, FreeSlot, JobInv, SlotTypeOK
    <3> QED
      BY <2>1, <3>1, <3>2, <3>3, ToldSame
  <2>3. CASE Store(s)
    <3> DEFINE m == Event(s).id
    <3>1. /\ pc[s] = "store" /\ pc'[s] = "tell" /\ m \in Inbound /\ m \notin stored
          /\ stored' = stored \cup {m} /\ UNCHANGED <<told, cut>> /\ Event(s)' = Event(s)
      BY <2>3, BusyFacts DEF Store, Goto, JobInv, SlotTypeOK, InboundStep, Taken, Event, queueVars
    <3>2. told[m] = 0
      BY <3>1 DEF ToldInv, DataTypeOK, InTypeOK
    <3>3. \A t \in Slot \ {s} : pc'[t] = "tell" => Event(t)'.id # m
      BY <2>1, <3>1 DEF ToldInv
    <3>4. \A t \in Slot : pc'[t] = "tell" => Event(t)'.id \in stored' /\ told'[Event(t)'.id] = 0
      BY <2>1, <3>1, <3>2 DEF ToldInv
    <3>5. \A t, u \in Slot : pc'[t] = "tell" /\ pc'[u] = "tell" /\ Event(t)'.id = Event(u)'.id => t = u
      BY <2>1, <3>1, <3>3 DEF ToldInv
    <3>6. StoredIsTold'
      <4> SUFFICES ASSUME NEW k \in stored' \ cut', told'[k] # 1
                   PROVE  \E t \in Slot : pc'[t] = "tell" /\ Event(t)'.id = k
        BY DEF StoredIsTold
      <4>1. CASE k = m
        BY <3>1, <4>1
      <4>2. CASE k # m
        BY <2>1, <3>1, <4>2 DEF ToldInv, StoredIsTold
      <4> QED
        BY <4>1, <4>2
    <3> QED
      BY <3>1, <3>4, <3>5, <3>6 DEF ToldInv
  <2>4. CASE Tell(s)
    <3> DEFINE m == Event(s).id
    <3>1. /\ pc[s] = "tell" /\ m \in Inbound /\ UNCHANGED <<stored, cut>>
          /\ told' = [told EXCEPT ![m] = told[m] + 1]
      BY <2>4, BusyFacts DEF Tell, InboundStep
    <3>2. told[m] = 0 /\ m \in stored
      BY <3>1 DEF ToldInv
    <3>3. \A k \in Inbound : told'[k] = IF k = m THEN 1 ELSE told[k]
      BY <3>1, <3>2 DEF DataTypeOK, InTypeOK
    <3>4. pc'[s] # "tell"
      BY <2>4, <3>1, ReturnStep DEF Tell, Busy, Fresh
    <3>5. \A t \in Slot : pc'[t] = "tell" => /\ t # s /\ pc[t] = "tell" /\ Event(t)' = Event(t)
                                             /\ Event(t).id # m /\ Event(t).id \in Inbound
      BY <2>1, <3>1, <3>4, BusyFacts DEF ToldInv, InboundStep
    <3>6. \A k \in Inbound : told'[k] <= 1 /\ (told'[k] > 0 => k \in stored')
      BY <3>1, <3>2, <3>3 DEF ToldInv
    <3>7. StoredIsTold'
      <4> SUFFICES ASSUME NEW k \in stored' \ cut', told'[k] # 1
                   PROVE  \E t \in Slot : pc'[t] = "tell" /\ Event(t)'.id = k
        BY DEF StoredIsTold
      <4>1. k # m /\ told[k] # 1 /\ k \in stored \ cut
        BY <3>1, <3>3 DEF DataTypeOK, InTypeOK
      <4>2. PICK t \in Slot : pc[t] = "tell" /\ Event(t).id = k
        BY <4>1 DEF ToldInv, StoredIsTold
      <4> QED
        BY <2>1, <4>1, <4>2
    <3>8. \A t \in Slot : pc'[t] = "tell" => Event(t)'.id \in stored' /\ told'[Event(t)'.id] = 0
      BY <3>1, <3>3, <3>5 DEF ToldInv
    <3>9. \A t, u \in Slot : pc'[t] = "tell" /\ pc'[u] = "tell" /\ Event(t)'.id = Event(u)'.id => t = u
      BY <3>5 DEF ToldInv
    <3> QED
      BY <3>6, <3>7, <3>8, <3>9 DEF ToldInv
  <2>5. ASSUME ~HandlerFails(s), ~StoreRefused(s), ~Store(s), ~Tell(s) PROVE ToldInv'
    <3>1. UNCHANGED <<stored, told, cut>> /\ pc[s] # "tell"
      BY <1>4, <2>5 DEF Handle, Claim, Finish, Guard, FindContact, AddContact, FindChat, OpenChat, BumpChat,
                        Look, SetStatus, Count, Goto, inVars
    <3>2. pc'[s] # "tell"
      <4>1. CASE pc'[s] \in Fresh
        BY <4>1 DEF Fresh
      <4>2. CASE ~(pc'[s] \in Fresh)
        BY <1>4, <2>5, <4>2, ReturnStep, ClaimStep, FreeStep
           DEF Handle, Finish, Guard, FindContact, AddContact, FindChat, OpenChat,
               BumpChat, Look, SetStatus, Count, Goto, JobInv, SlotTypeOK, Busy
      <4> QED
        BY <4>1, <4>2
    <3> QED
      BY <2>1, <3>1, <3>2, ToldSame
  <2> QED
    BY <2>2, <2>3, <2>4, <2>5
<1> QED
  BY <1>1, <1>2, <1>3, <1>4, NextSteps

-----------------------------------------------------------------------------
(* A row is sent while it says sending.                                     *)

\* A row with an id of Meta's has an outcome; webhooks write only such rows, so
\* the one send-media is about to send still says sending.
StatusInv ==
    /\ \A x \in Outbound : wamid[x] > 0 => status[x] \notin {"none", "sending"}
    /\ \A s \in Slot : pc[s] \in {"set", "count"} => wamid[Event(s).id] > 0
    /\ \A s \in Slot : pc[s] = "set" => seen[s] # "sending"
    /\ \A x \in Media : mpc[x] \in {"send", "mark"} => status[x] = "sending"
    /\ \A x \in Media : mpc[x] = "fail" => faults > 0

\* A step that leaves the rows alone and lets no slot come to write one.
LEMMA StatusSame ==
    ASSUME StatusInv, DataTypeOK, UNCHANGED <<status, wamid, mpc>>, faults' \in Nat, faults' >= faults,
           \A t \in Slot : pc'[t] \in {"set", "count"} =>
               /\ wamid[Event(t)'.id] > 0
               /\ pc'[t] = "set" => seen'[t] # "sending"
    PROVE  StatusInv'
<1>1. \A x \in Media : mpc[x] = "fail" => faults' > 0
  BY MessageConstAssumption DEF StatusInv, DataTypeOK, InTypeOK
<1> QED
  BY <1>1 DEF StatusInv

\* The order of send-media's steps, and the ladder, keep the outcome.
LEMMA HandleStatus ==
    ASSUME DataTypeOK, JobInv, StatusInv, NEW s \in Slot, Handle(s)
    PROVE  StatusInv'
<1>1. \A t \in Slot \ {s} : /\ pc'[t] = pc[t] /\ seen'[t] = seen[t]
                            /\ pc[t] \in {"set", "count"} => Event(t)' = Event(t)
  BY SlotStep DEF Beside, Busy, DataTypeOK
<1>2. faults \in Nat /\ MaxTroubles \in Nat
  BY MessageConstAssumption DEF DataTypeOK, InTypeOK
<1>3. CASE SetStatus(s)
  <2> DEFINE x == Event(s).id
             to == NewStatus(seen[s], Event(s).to)
  <2>1. x \in Outbound /\ Event(s).to \in Reported /\ seen[s] \in DOMAIN Rank \ {"sending"} /\ wamid[x] > 0
    BY <1>3, BusyFacts DEF SetStatus, StatusStep, JobInv, SlotTypeOK, StatusInv
  <2>2. to \notin {"none", "sending"}
    BY <2>1, RankFacts DEF NewStatus, Reported
  <2>3. status' = [status EXCEPT ![x] = to] /\ UNCHANGED <<wamid, mpc, faults>>
    BY <1>3 DEF SetStatus, sendVars, envVars
  <2>4. \A y \in Media : mpc[y] \in {"send", "mark"} => y # x
    BY <2>1 DEF StatusInv
  <2>5. pc'[s] # "set" /\ (pc'[s] = "count" => Event(s)' = Event(s))
    <3>1. CASE Counts(s)
      BY <1>3, <3>1, SlotStep DEF SetStatus, Goto, JobInv, SlotTypeOK, SameEvent, Fresh, DataTypeOK
    <3>2. CASE ~Counts(s)
      BY <1>3, <3>2, ReturnStep DEF SetStatus, Busy, Fresh
    <3> QED
      BY <3>1, <3>2
  <2>6. \A t \in Slot : pc'[t] \in {"set", "count"} => wamid[Event(t)'.id] > 0
    BY <1>1, <2>1, <2>5 DEF StatusInv
  <2>7. \A t \in Slot : pc'[t] = "set" => seen'[t] # "sending"
    BY <1>1, <2>5 DEF StatusInv
  <2>8. \A y \in Outbound : wamid[y] > 0 => status'[y] \notin {"none", "sending"}
    BY <2>2, <2>3 DEF StatusInv, DataTypeOK, OutTypeOK
  <2>9. \A y \in Media : mpc[y] \in {"send", "mark"} => status'[y] = "sending"
    BY <2>3, <2>4 DEF StatusInv, DataTypeOK, OutTypeOK
  <2> QED
    BY <2>3, <2>6, <2>7, <2>8, <2>9 DEF StatusInv
<1>4. CASE Look(s)
  <2>1. UNCHANGED <<status, wamid, mpc, faults>>
    BY <1>4 DEF Look, outVars, sendVars, envVars
  <2>2. pc'[s] \in {"set", "count"} => wamid[Event(s)'.id] > 0 /\ seen'[s] # "sending"
    <3>1. CASE Return(s)
      BY <1>4, <3>1, ReturnStep DEF Look, Busy, Fresh
    <3>2. CASE ~Return(s)
      <4>1. /\ wamid[Event(s).id] = Event(s).send /\ seen' = [seen EXCEPT ![s] = status[Event(s).id]]
            /\ Event(s)' = Event(s)
        BY <1>4, <3>2 DEF Look, Event, queueVars
      <4>2. Event(s).id \in Outbound /\ Event(s).send > 0
        BY <1>4, BusyFacts, MessageConstAssumption DEF Look, StatusStep
      <4> QED
        BY <4>1, <4>2 DEF StatusInv, JobInv, SlotTypeOK
    <3> QED
      BY <3>1, <3>2
  <2> QED
    BY <1>1, <1>2, <2>1, <2>2, StatusSame DEF StatusInv
<1>5. ASSUME ~SetStatus(s), ~Look(s) PROVE StatusInv'
  <2>1. UNCHANGED <<status, wamid, mpc>> /\ faults' \in Nat /\ faults' >= faults
    BY <1>2, <1>5 DEF Handle, Claim, Finish, HandlerFails, StoreRefused, Throw, Fault, Guard, FindContact,
          AddContact, FindChat, OpenChat, BumpChat, Store, Tell, Count, outVars, sendVars, envVars
  <2>2. pc'[s] \notin {"set", "count"}
    <3>1. CASE pc'[s] \in Fresh
      BY <3>1 DEF Fresh
    <3>2. CASE ~(pc'[s] \in Fresh)
      BY <1>5, <3>2, ReturnStep, ClaimStep, FreeStep
         DEF Handle, Finish, HandlerFails, StoreRefused, Throw, Guard, FindContact, AddContact, FindChat,
             OpenChat, BumpChat, Store, Tell, Count, Goto, JobInv, SlotTypeOK, Busy
    <3> QED
      BY <3>1, <3>2
  <2> QED
    BY <1>1, <2>1, <2>2, StatusSame DEF StatusInv
<1> QED
  BY <1>3, <1>4, <1>5

\* The senders write a row's outcome with its id, or before it has one.
LEMMA SendStatus ==
    ASSUME DataTypeOK, JobInv, StatusInv, SendStep
    PROVE  StatusInv'
<1>1. /\ \A t \in Slot : /\ pc'[t] = pc[t] /\ seen'[t] = seen[t]
                         /\ pc[t] \in {"set", "count"} => Event(t)' = Event(t) /\ Event(t).id \in Outbound
  BY SendAside, IdleStep, BusyFacts DEF Still, Busy, StatusStep
<1>2. faults \in Nat /\ MaxTroubles \in Nat
  BY MessageConstAssumption DEF DataTypeOK, InTypeOK
<1>3. ASSUME UNCHANGED <<status, wamid, mpc, faults>> PROVE StatusInv'
  BY <1>1, <1>2, <1>3, StatusSame DEF StatusInv
<1>4. ASSUME NEW x \in Outbound, wamid[x] > 0 => wamid'[x] > 0,
             \A y \in Outbound \ {x} : status'[y] = status[y] /\ wamid'[y] = wamid[y],
             wamid'[x] > 0 => status'[x] \notin {"none", "sending"},
             \A y \in Media \ {x} : mpc'[y] = mpc[y],
             x \in Media /\ mpc'[x] \in {"send", "mark"} => status'[x] = "sending",
             x \in Media /\ mpc'[x] = "fail" => faults' > 0,
             faults' \in Nat, faults' >= faults
      PROVE  StatusInv'
  <2>1. \A t \in Slot : pc'[t] \in {"set", "count"} => wamid'[Event(t)'.id] > 0
    BY <1>1, <1>4 DEF StatusInv
  <2>2. \A y \in Media : mpc'[y] \in {"send", "mark"} => status'[y] = "sending"
    BY <1>4 DEF StatusInv, Outbound
  <2>3. \A y \in Media : mpc'[y] = "fail" => faults' > 0
    BY <1>2, <1>4 DEF StatusInv
  <2> QED
    BY <1>1, <1>4, <2>1, <2>2, <2>3 DEF StatusInv
<1>5. CASE UNCHANGED vars
  BY <1>3, <1>5 DEF vars, outVars, sendVars, envVars
<1>6. ASSUME NEW x \in Bulk, SendBulk(x) \/ FindBulkChat(x) \/ OpenBulkChat(x) PROVE StatusInv'
  BY <1>3, <1>6 DEF SendBulk, FindBulkChat, OpenBulkChat, BulkStep, envVars
<1>9. CASE Cleanup
  BY <1>3, <1>9 DEF Cleanup, MediaStep
<1>7. ASSUME NEW x \in Bulk, RecordBulk(x) PROVE StatusInv'
  <2>1. /\ status' = [status EXCEPT ![x] = "sent"] /\ wamid' = [wamid EXCEPT ![x] = 1]
        /\ UNCHANGED <<mpc, faults>> /\ x \in Outbound /\ x \notin Media
    BY <1>7, MessageConstAssumption DEF RecordBulk, BulkStep, envVars, Outbound
  <2> QED
    BY <1>2, <1>4, <2>1 DEF DataTypeOK, OutTypeOK
<1>8. ASSUME NEW x \in Media, Deliver(x) PROVE StatusInv'
  <2>1. x \in Outbound /\ wamid[x] \in Nat /\ faults' \in Nat /\ faults' >= faults
    BY <1>2, <1>8 DEF Outbound, DataTypeOK, OutTypeOK, Deliver, DraftMedia, EnqueueMedia, BeginMedia, LookMedia,
          MediaJobFails, MediaOutage, Send, Mark, Catch, MarkFailed, EndMedia, Fault, envVars
  <2>2. \A y \in Media \ {x} : mpc'[y] = mpc[y]
    BY <1>8 DEF Deliver, DraftMedia, EnqueueMedia, BeginMedia, LookMedia, MediaJobFails, MediaOutage, Send, Mark, Catch,
          MarkFailed, EndMedia, MGoto, DataTypeOK, MediaTypeOK
  <2>3. /\ status' = status \/ \E to \in DOMAIN Rank : status' = [status EXCEPT ![x] = to]
        /\ wamid' = wamid \/ wamid' = [wamid EXCEPT ![x] = accepted[x]]
    BY <1>8, RankFacts DEF Deliver, DraftMedia, EnqueueMedia, BeginMedia, LookMedia, MediaJobFails, MediaOutage, Send, Mark,
          Catch, MarkFailed, EndMedia
  <2>4. \A y \in Outbound \ {x} : status'[y] = status[y] /\ wamid'[y] = wamid[y]
    BY <2>3 DEF DataTypeOK, OutTypeOK
  <2>5. CASE Mark(x)
    <3>1. mpc'[x] = "rest" /\ status'[x] = "sent" /\ status[x] = "sending"
      BY <1>8, <2>1, <2>5 DEF Mark, MGoto, DataTypeOK, MediaTypeOK, OutTypeOK, StatusInv
    <3>2. ~(wamid[x] > 0)
      BY <2>1, <3>1 DEF StatusInv
    <3> QED
      BY <1>4, <2>1, <2>2, <2>4, <3>1, <3>2
  <2>6. CASE MarkFailed(x)
    <3>1. mpc'[x] = "end" /\ wamid' = wamid /\ (status'[x] = status[x] \/ status'[x] = "failed")
      BY <1>8, <2>1, <2>6 DEF MarkFailed, MGoto, DataTypeOK, MediaTypeOK, OutTypeOK
    <3>2. wamid'[x] > 0 => status'[x] \notin {"none", "sending"}
      BY <2>1, <3>1 DEF StatusInv
    <3> QED
      BY <1>4, <2>1, <2>2, <2>4, <3>1, <3>2
  <2>7. CASE DraftMedia(x)
    <3>1. mpc'[x] = "enqueue" /\ wamid' = wamid /\ status'[x] = "sending" /\ status[x] = "none"
      BY <1>8, <2>1, <2>7 DEF DraftMedia, MGoto, DataTypeOK, MediaTypeOK, OutTypeOK
    <3>2. ~(wamid[x] > 0)
      BY <2>1, <3>1 DEF StatusInv
    <3> QED
      BY <1>4, <2>1, <2>2, <2>4, <3>1, <3>2
  <2>8. CASE LookMedia(x) \/ Send(x)
    <3>1. /\ UNCHANGED <<status, wamid>> /\ (mpc'[x] \in {"send", "mark"} => status[x] = "sending")
          /\ mpc'[x] = "fail" => faults' > 0
      BY <1>2, <1>8, <2>1, <2>8 DEF LookMedia, StillSending, Send, MGoto, Fault, DataTypeOK, MediaTypeOK, StatusInv
    <3>2. wamid'[x] > 0 => status'[x] \notin {"none", "sending"}
      BY <2>1, <3>1 DEF StatusInv
    <3> QED
      BY <1>4, <2>1, <2>2, <2>4, <3>1, <3>2
  <2>9. CASE EnqueueMedia(x) \/ BeginMedia(x) \/ Catch(x) \/ EndMedia(x) \/ MediaJobFails(x) \/ MediaOutage(x)
    <3>1. /\ UNCHANGED <<status, wamid>> /\ mpc'[x] \notin {"send", "mark"}
          /\ mpc'[x] = "fail" => faults' > 0
      BY <1>2, <1>8, <2>9 DEF EnqueueMedia, BeginMedia, MediaJobFails, MediaOutage, Catch, EndMedia, MGoto, Fault,
                              DataTypeOK, MediaTypeOK
    <3>2. wamid'[x] > 0 => status'[x] \notin {"none", "sending"}
      BY <2>1, <3>1 DEF StatusInv
    <3> QED
      BY <1>4, <2>1, <2>2, <2>4, <3>1, <3>2
  <2> QED
    BY <1>8, <2>5, <2>6, <2>7, <2>8, <2>9 DEF Deliver
<1> QED
  BY <1>5, <1>6, <1>7, <1>8, <1>9 DEF SendStep, Broadcast

\* And everybody together.
LEMMA StatusKept == DataTypeOK /\ JobInv /\ StatusInv /\ [Next]_vars => StatusInv'
<1> SUFFICES ASSUME DataTypeOK, JobInv, StatusInv, [Next]_vars PROVE StatusInv'
  OBVIOUS
<1>1. faults \in Nat
  BY MessageConstAssumption DEF DataTypeOK, InTypeOK
<1>2. ASSUME NEW b \in Batch, Receive(b) PROVE StatusInv'
  <2>1. UNCHANGED <<status, wamid, mpc, faults>>
    BY <1>2 DEF Receive, outVars, sendVars, envVars
  <2> QED
    BY <1>1, <1>2, <2>1, ReceiveStep, StatusSame DEF Still, Busy, StatusInv
<1>3. CASE Crash
  <2>1. UNCHANGED <<status, wamid, faults>> /\ \A x \in Media : mpc'[x] = "idle"
    BY <1>3 DEF Crash, outVars
  <2> QED
    BY <1>3, <2>1, CrashStep DEF StatusInv
<1> QED
  BY <1>2, <1>3, NextSteps, HandleStatus, SendStatus

-----------------------------------------------------------------------------
(* A message of send-media goes out once, and once for each time the job is  *)
(* put back.                                                                *)

\* A worker has the job it runs; a job that may still send has not been sent
\* since the last restart or cleanup.
SendInv ==
    \A x \in Media :
        /\ mpc[x] \notin {"idle", "enqueue"} => mstate[x] = "running"
        /\ accepted[x] <= 1 + crashes + cleanups
        /\ mstate[x] \in {"none", "waiting"} \/ mpc[x] \in {"look", "send"} =>
              accepted[x] <= crashes + cleanups

\* Only a restart or a cleanup gives a job back after its one attempt.
LEMMA SendInvStep == DataTypeOK /\ SendInv /\ [Next]_vars => SendInv'
<1> SUFFICES ASSUME DataTypeOK, SendInv, [Next]_vars PROVE SendInv'
  OBVIOUS
<1>1. /\ mstate \in [Media -> State] /\ mtries \in [Media -> 0..1] /\ crashes \in Nat /\ cleanups \in Nat
      /\ mpc \in [Media -> {"idle", "enqueue", "look", "send", "mark", "rest", "fail", "end"}]
      /\ \A x \in Media : accepted[x] \in Nat
      /\ accepted \in [Outbound -> 0..MaxSends] /\ Media \subseteq Outbound
  BY MessageConstAssumption DEF DataTypeOK, InTypeOK, MediaTypeOK, OutTypeOK, Outbound
<1>2. ASSUME UNCHANGED <<mstate, mpc, crashes, cleanups>>, \A x \in Media : accepted'[x] = accepted[x]
      PROVE  SendInv'
  BY <1>2 DEF SendInv
<1>3. ASSUME NEW s \in Slot, Handle(s) PROVE UNCHANGED <<mstate, mpc, crashes, cleanups, accepted>>
  BY <1>3 DEF Handle, Claim, Finish, HandlerFails, StoreRefused, Throw, Fault, Guard, FindContact, AddContact,
        FindChat, OpenChat, BumpChat, Store, Tell, Look, SetStatus, Count, outVars, sendVars, envVars
<1>4. ASSUME NEW y \in Bulk, Broadcast(y) PROVE SendInv'
  <2>1. /\ accepted' = accepted \/ accepted' = [accepted EXCEPT ![y] = 1]
        /\ UNCHANGED <<mstate, mpc, crashes, cleanups>>
    BY <1>4 DEF Broadcast, SendBulk, FindBulkChat, OpenBulkChat, RecordBulk, BulkStep, envVars
  <2>2. \A x \in Media : accepted'[x] = accepted[x]
    BY <1>1, <2>1, MessageConstAssumption
  <2> QED
    BY <1>2, <2>1, <2>2
<1>5. ASSUME NEW y \in Media, Deliver(y) PROVE SendInv'
  <2> USE <1>1 DEF MGoto
  <2>1. crashes' = crashes /\ cleanups' = cleanups
    BY <1>5 DEF Deliver, DraftMedia, EnqueueMedia, BeginMedia, LookMedia, MediaJobFails, MediaOutage, Send, Mark, Catch,
                MarkFailed, EndMedia, Fault, envVars
  <2>2. \A x \in Media \ {y} : mpc'[x] = mpc[x] /\ mstate'[x] = mstate[x] /\ accepted'[x] = accepted[x]
    BY <1>5 DEF Deliver, DraftMedia, EnqueueMedia, BeginMedia, LookMedia, MediaJobFails, MediaOutage, Send, Mark, Catch,
                MarkFailed, EndMedia, MediaQueue!Submit, MediaQueue!Begin, MediaQueue!Err,
                MediaQueue!Finish, MediaQueue!Set
  <2>3. /\ mpc'[y] \notin {"idle", "enqueue"} => mstate'[y] = "running"
        /\ accepted'[y] <= 1 + crashes + cleanups
        /\ mstate'[y] \in {"none", "waiting"} \/ mpc'[y] \in {"look", "send"} =>
              accepted'[y] <= crashes + cleanups
    <3>1. CASE DraftMedia(y)
      BY <3>1 DEF DraftMedia, SendInv
    <3>2. CASE EnqueueMedia(y)
      BY <3>2 DEF EnqueueMedia, MediaQueue!Submit, MediaQueue!Set, SendInv
    <3>3. CASE BeginMedia(y)
      BY <3>3 DEF BeginMedia, MediaQueue!Begin, MediaQueue!Set, SendInv
    <3>4. CASE LookMedia(y)
      BY <3>4 DEF LookMedia, SendInv
    <3>11. CASE MediaOutage(y)
      BY <3>11 DEF MediaOutage, SendInv
    <3>5. CASE MediaJobFails(y)
      BY <3>5 DEF MediaJobFails, MediaQueue!Err, MediaQueue!Set, DataTypeOK, MediaTypeOK, SendInv
    <3>6. CASE Send(y)
      BY <3>6 DEF Send, SendInv
    <3>7. CASE Mark(y)
      BY <3>7 DEF Mark, SendInv
    <3>8. CASE Catch(y)
      BY <3>8 DEF Catch, SendInv
    <3>9. CASE MarkFailed(y)
      BY <3>9 DEF MarkFailed, SendInv
    <3>10. CASE EndMedia(y)
      BY <3>10 DEF EndMedia, MediaQueue!Finish, MediaQueue!Set, SendInv
    <3> QED
      BY <1>5, <3>1, <3>2, <3>3, <3>4, <3>5, <3>6, <3>7, <3>8, <3>9, <3>10, <3>11 DEF Deliver
  <2> QED
    BY <2>1, <2>2, <2>3 DEF SendInv
<1>6. CASE Crash
  <2>1. /\ mstate' = [x \in Media |-> IF mstate[x] = "running" THEN "waiting" ELSE mstate[x]]
        /\ mpc' = [x \in Media |-> "idle"] /\ accepted' = accepted /\ crashes' = crashes + 1
        /\ cleanups' = cleanups
    BY <1>6 DEF Crash, MediaQueue!Interrupt, outVars
  <2> QED
    BY <1>1, <2>1 DEF SendInv
<1>9. CASE Cleanup
  <2>1. /\ mstate' = [x \in Media |-> IF x \in Left THEN "waiting" ELSE mstate[x]]
        /\ UNCHANGED <<mpc, accepted, crashes>> /\ cleanups' = cleanups + 1
    BY <1>9 DEF Cleanup, MediaQueue!Interrupt
  <2>2. \A x \in Left : mpc[x] = "idle"
    BY DEF Left
  <2> QED
    BY <1>1, <2>1, <2>2 DEF SendInv
<1>7. ASSUME NEW b \in Batch, Receive(b) PROVE SendInv'
  BY <1>2, <1>7 DEF Receive, sendVars, outVars, envVars
<1>8. CASE UNCHANGED vars
  BY <1>2, <1>8 DEF vars, sendVars, outVars, envVars
<1> QED
  BY <1>2, <1>3, <1>4, <1>5, <1>6, <1>7, <1>8, <1>9, NextSteps DEF SendStep

-----------------------------------------------------------------------------
(* What the lane serialises.                                                *)

\* A body stays with its job for good.
LEMMA JobsStay ==
    ASSUME JobInv, OutTypeOK, [Next]_vars
    PROVE  \A n \in JobId : state[n] # "none" => state'[n] # "none" /\ payload'[n] = payload[n]
<1>1. ASSUME NEW b \in Batch, Receive(b)
      PROVE  \A n \in JobId : state[n] # "none" => state'[n] # "none" /\ payload'[n] = payload[n]
  BY <1>1 DEF Receive, Queue!Submit, Queue!Set, JobInv, QueueTypeOK
<1>2. ASSUME NEW s \in Slot, Handle(s)
      PROVE  \A n \in JobId : state[n] # "none" => state'[n] # "none" /\ payload'[n] = payload[n]
  <2>1. CASE Claim(s)
    BY <2>1 DEF Claim, Queue!Begin, Queue!Set, JobInv, QueueTypeOK
  <2>2. CASE Finish(s) \/ HandlerFails(s) \/ StoreRefused(s)
    BY <2>2 DEF Finish, HandlerFails, StoreRefused, Throw, Queue!Finish, Queue!Err, Queue!Set, JobInv, QueueTypeOK
  <2>3. CASE UNCHANGED queueVars
    BY <2>3 DEF queueVars
  <2> QED
    BY <1>2, <2>1, <2>2, <2>3 DEF Handle, Guard, FindContact, AddContact, FindChat, OpenChat, BumpChat, Store,
          Tell, Look, SetStatus, Count
<1>3. CASE SendStep
  BY <1>3, SendAside DEF queueVars
<1>4. CASE Crash
  BY <1>4 DEF Crash, Queue!Interrupt
<1> QED
  BY <1>1, <1>2, <1>3, <1>4, NextSteps

\* What has once run outside a lane has done so for good.
LEMMA OrderStays ==
    ASSUME JobInv, OutTypeOK, [Next]_vars
    PROVE  /\ \A id : Unordered(id) => Unordered(id)'
           /\ \A p : Mixed(p) => Mixed(p)'
BY JobsStay DEF Unordered, Mixed

\* Two slots at work for one participant in the participant's lane are one.
LEMMA SameThread ==
    ASSUME JobInv, NEW p, ~Mixed(p), NEW s \in Slot, NEW t \in Slot, Busy(s), Busy(t),
           Chat[Event(s).id] = p, Chat[Event(t).id] = p
    PROVE  s = t
<1>1. ASSUME NEW u \in Slot, Busy(u), Chat[Event(u).id] = p
      PROVE  ~(Cardinality(Participants(payload[job[u]])) > 1)
  <2>1. job[u] \in JobId /\ state[job[u]] # "none" /\ at[u] \in DOMAIN payload[job[u]]
    BY <1>1, BusyFacts DEF Busy, JobInv, Holding
  <2>2. p \in Participants(payload[job[u]])
    BY <1>1, <2>1 DEF Participants, Event
  <2> QED
    BY <2>1, <2>2 DEF Mixed
<1> QED
  BY <1>1, LaneMates

\* Two slots at work for one message in its lane are one.
LEMMA SameMessage ==
    ASSUME JobInv, NEW s \in Slot, NEW t \in Slot, Busy(s), Busy(t),
           Event(s).id = Event(t).id, ~Unordered(Event(s).id)
    PROVE  s = t
<1>1. ASSUME NEW u \in Slot, Busy(u), Event(u).id = Event(s).id
      PROVE  ~(Cardinality(Participants(payload[job[u]])) > 1)
  <2>1. job[u] \in JobId /\ state[job[u]] # "none" /\ at[u] \in DOMAIN payload[job[u]]
    BY <1>1, BusyFacts DEF Busy, JobInv, Holding
  <2> QED
    BY <1>1, <2>1 DEF Unordered, Event
<1> QED
  BY <1>1, LaneMates

-----------------------------------------------------------------------------
(* One contact, one conversation.                                           *)

\* Whoever is about to create a contact or a conversation creates the first, and
\* nobody else is.
OneContact(p) ==
    /\ people[p] <= 1
    /\ \A s \in Slot : pc[s] = "addContact" /\ Who(s) = p => people[p] = 0

OneChat(p) ==
    /\ chats[p] <= 1 /\ (AnybodyOpens(p) => chats[p] = 0)
    /\ \A x, y \in Bulk : bpc[x] = "open" /\ bpc[y] = "open" /\ Chat[x] = p /\ Chat[y] = p => x = y
    /\ \A s \in Slot : pc[s] = "open" /\ Who(s) = p => ~BulkOpens(p)

ThreadInv == \A p \in Person : ~Mixed(p) => OneContact(p) /\ (p \in raced \/ OneChat(p))

\* Nobody comes to create a contact.
LEMMA ContactSame ==
    ASSUME NEW p \in Person, OneContact(p), UNCHANGED people,
           \A t \in Slot : pc'[t] = "addContact" => pc[t] = "addContact" /\ Event(t)' = Event(t)
    PROVE  OneContact(p)'
BY DEF OneContact, Who

\* Nobody comes to create a conversation.
LEMMA ChatSame ==
    ASSUME NEW p \in Person, OneChat(p), UNCHANGED chats,
           \A t \in Slot : pc'[t] = "open" => pc[t] = "open" /\ Event(t)' = Event(t),
           \A x \in Bulk : bpc'[x] = "open" => bpc[x] = "open"
    PROVE  OneChat(p)'
BY DEF OneChat, AnybodyOpens, BulkOpens, Who

\* A broadcast opens a conversation alone, or the participant is raced.
LEMMA BulkThread ==
    ASSUME DataTypeOK, JobInv, NEW p \in Person, OneContact(p), p \in raced \/ OneChat(p),
           NEW x \in Bulk, Broadcast(x)
    PROVE  OneContact(p)' /\ (p \in raced' \/ OneChat(p)')
<1>1. /\ UNCHANGED <<people, pc>> /\ \A t \in Slot : pc[t] \in {"addContact", "open"} => Event(t)' = Event(t)
  <2>1. UNCHANGED <<people, queueVars, slotVars>>
    BY DEF Broadcast, SendBulk, FindBulkChat, OpenBulkChat, RecordBulk, BulkStep
  <2> QED
    BY <2>1 DEF Event, queueVars, slotVars
<1>2. OneContact(p)'
  BY <1>1, ContactSame
<1>3. raced \subseteq raced'
  BY DEF Broadcast, SendBulk, FindBulkChat, OpenBulkChat, RecordBulk
<1>4. bpc \in [Bulk -> {"idle", "find", "open", "record", "end"}] /\ chats \in [Person -> Nat]
  BY DEF DataTypeOK, InTypeOK, MediaTypeOK
<1> SUFFICES ASSUME OneChat(p), p \notin raced' PROVE OneChat(p)'
  BY <1>2, <1>3
<1>5. CASE UNCHANGED chats /\ bpc'[x] # "open"
  <2>1. \A y \in Bulk : bpc'[y] = "open" => bpc[y] = "open"
    BY <1>4, <1>5 DEF Broadcast, SendBulk, FindBulkChat, OpenBulkChat, RecordBulk, BGoto
  <2> QED
    BY <1>1, <1>5, <2>1, ChatSame
<1>6. CASE FindBulkChat(x) /\ bpc'[x] = "open"
  <2>1. /\ UNCHANGED chats /\ Misses(Chat[x]) /\ bpc' = [bpc EXCEPT ![x] = "open"]
        /\ raced' = raced \cup {q \in {Chat[x]} : AnybodyOpens(q)}
    BY <1>4, <1>6 DEF FindBulkChat, BGoto
  <2>2. CASE Chat[x] # p
    <3>1. \A y \in Bulk : bpc'[y] = "open" /\ Chat[y] = p => bpc[y] = "open"
      BY <1>4, <2>1, <2>2
    <3> QED
      BY <1>1, <2>1, <3>1 DEF OneChat, AnybodyOpens, BulkOpens, Who
  <2>3. CASE Chat[x] = p
    <3>1. ~AnybodyOpens(p) /\ chats[p] = 0
      BY <1>4, <2>1, <2>3 DEF Misses, OneContact, DataTypeOK, InTypeOK
    <3>2. \A y \in Bulk : bpc'[y] = "open" /\ Chat[y] = p => y = x
      BY <1>4, <2>1, <3>1 DEF AnybodyOpens, BulkOpens
    <3>3. \A t \in Slot : ~(pc'[t] = "open" /\ Who(t)' = p)
      BY <1>1, <3>1 DEF AnybodyOpens, Who
    <3> QED
      BY <2>1, <3>1, <3>2, <3>3 DEF OneChat, AnybodyOpens, BulkOpens
  <2> QED
    BY <2>2, <2>3
<1>7. CASE OpenBulkChat(x)
  <2>1. /\ bpc[x] = "open" /\ bpc' = [bpc EXCEPT ![x] = "record"]
        /\ chats' = [chats EXCEPT ![Chat[x]] = chats[Chat[x]] + 1]
    BY <1>7 DEF OpenBulkChat, BGoto
  <2>2. \A y \in Bulk : bpc'[y] = "open" => bpc[y] = "open" /\ y # x
    BY <1>4, <2>1
  <2>3. CASE Chat[x] # p
    <3>1. chats'[p] = chats[p]
      BY <1>4, <2>1, <2>3
    <3> QED
      BY <1>1, <2>2, <3>1 DEF OneChat, AnybodyOpens, BulkOpens, Who
  <2>4. CASE Chat[x] = p
    <3>1. chats[p] = 0 /\ chats'[p] = 1 /\ BulkOpens(p)
      BY <1>4, <2>1, <2>4 DEF OneChat, AnybodyOpens, BulkOpens
    <3>2. ~AnybodyOpens(p)'
      BY <1>1, <2>1, <2>2, <2>4, <3>1 DEF OneChat, AnybodyOpens, BulkOpens, Who
    <3> QED
      BY <1>1, <3>1, <3>2 DEF OneChat, AnybodyOpens, BulkOpens
  <2> QED
    BY <2>3, <2>4
<1>8. CASE SendBulk(x) \/ RecordBulk(x)
  <2>1. bpc'[x] # "open" /\ UNCHANGED chats
    BY <1>4, <1>8 DEF SendBulk, RecordBulk, BGoto
  <2> QED
    BY <1>5, <2>1
<1>9. CASE FindBulkChat(x) /\ bpc'[x] # "open"
  BY <1>5, <1>9 DEF FindBulkChat
<1> QED
  BY <1>6, <1>7, <1>8, <1>9 DEF Broadcast

\* The lane keeps others from creating what a slot has found missing.
LEMMA ThreadStep == DataTypeOK /\ JobInv /\ ThreadInv /\ [Next]_vars => ThreadInv'
<1> SUFFICES ASSUME DataTypeOK, JobInv, ThreadInv, [Next]_vars, NEW p \in Person, ~Mixed(p)'
             PROVE  OneContact(p)' /\ (p \in raced' \/ OneChat(p)')
  BY DEF ThreadInv
<1>1. ~Mixed(p) /\ OneContact(p) /\ (p \in raced \/ OneChat(p))
  BY OrderStays DEF DataTypeOK, ThreadInv
<1>2. ASSUME UNCHANGED <<people, chats, raced>>, \A x \in Bulk : bpc'[x] = "open" => bpc[x] = "open",
             \A t \in Slot : pc'[t] \in {"addContact", "open"} => pc'[t] = pc[t] /\ Event(t)' = Event(t)
      PROVE  OneContact(p)' /\ (p \in raced' \/ OneChat(p)')
  BY <1>1, <1>2, ContactSame, ChatSame
<1>3. ASSUME NEW b \in Batch, Receive(b) PROVE OneContact(p)' /\ (p \in raced' \/ OneChat(p)')
  BY <1>2, <1>3, ReceiveStep DEF Receive, inVars, sendVars, Still, Busy
<1>4. CASE SendStep
  <2>1. ASSUME UNCHANGED <<inVars, bpc>> PROVE OneContact(p)' /\ (p \in raced' \/ OneChat(p)')
    BY <1>2, <1>4, <2>1, SendAside, IdleStep DEF inVars, Still, Busy
  <2>2. ASSUME NEW x \in Media, Deliver(x) PROVE UNCHANGED <<inVars, bpc>>
    BY <2>2 DEF Deliver, MediaStep, DraftMedia, EnqueueMedia, BeginMedia, LookMedia, MediaJobFails, Send,
                Mark, Catch, MarkFailed, EndMedia, MediaOutage
  <2> QED
    BY <1>1, <1>4, <2>1, <2>2, BulkThread DEF SendStep, Cleanup, MediaStep, vars, sendVars
<1>5. CASE Crash
  <2>1. UNCHANGED inVars /\ bpc' = [x \in Bulk |-> IF bpc[x] = "idle" THEN "idle" ELSE "end"]
    BY <1>5 DEF Crash
  <2> QED
    BY <1>2, <1>5, <2>1, CrashStep DEF inVars
<1>6. ASSUME NEW s \in Slot, Handle(s) PROVE OneContact(p)' /\ (p \in raced' \/ OneChat(p)')
  <2>1. \A t \in Slot \ {s} : /\ pc'[t] = pc[t]
                              /\ pc[t] \in {"addContact", "open"} => Event(t)' = Event(t)
    BY <1>6, SlotStep DEF Beside, Busy, DataTypeOK
  <2>2. people \in [Person -> Nat] /\ chats \in [Person -> Nat] /\ UNCHANGED bpc
    BY <1>6 DEF DataTypeOK, InTypeOK, Handle, Claim, Finish, HandlerFails, Throw, Guard, FindContact, AddContact,
           FindChat, OpenChat, BumpChat, Store, StoreRefused, Tell, Look, SetStatus, Count, sendVars
  <2>3. \A t \in Slot \ {s} : pc[s] \in InboundStep /\ Who(s) = p /\ pc[t] \in {"addContact", "open"} => Who(t) # p
    BY <1>1, SameThread DEF Busy, Who, InboundStep
  <2>4. CASE AddContact(s)
    <3>1. /\ pc[s] = "addContact" /\ pc'[s] = "chat" /\ UNCHANGED <<chats, raced>>
          /\ people' = [people EXCEPT ![Who(s)] = people[Who(s)] + 1]
      BY <2>4 DEF AddContact, Goto, JobInv, SlotTypeOK
    <3>2. OneContact(p)'
      BY <1>1, <2>1, <2>2, <2>3, <3>1 DEF OneContact, Who, InboundStep
    <3> QED
      BY <1>1, <2>1, <2>2, <3>1, <3>2, ChatSame
  <2>5. CASE OpenChat(s)
    <3>1. /\ pc[s] = "open" /\ pc'[s] = "store" /\ UNCHANGED <<people, raced>>
          /\ chats' = [chats EXCEPT ![Who(s)] = chats[Who(s)] + 1]
      BY <2>5 DEF OpenChat, Goto, JobInv, SlotTypeOK
    <3>2. OneContact(p)'
      BY <1>1, <2>1, <3>1, ContactSame
    <3>3. CASE OneChat(p)
      <4>1. CASE Who(s) # p
        <5>1. chats'[p] = chats[p]
          BY <2>2, <3>1, <4>1
        <5> QED
          BY <2>1, <2>2, <3>1, <3>2, <3>3, <5>1 DEF OneChat, AnybodyOpens, BulkOpens, Who
      <4>2. CASE Who(s) = p
        <5>1. chats[p] = 0 /\ chats'[p] = 1 /\ ~BulkOpens(p)
          BY <2>2, <3>1, <3>3, <4>2 DEF OneChat, AnybodyOpens
        <5>2. ~AnybodyOpens(p)'
          BY <2>1, <2>2, <2>3, <3>1, <4>2, <5>1 DEF AnybodyOpens, BulkOpens, Who, InboundStep
        <5> QED
          BY <2>2, <3>2, <3>3, <5>1, <5>2 DEF OneChat, AnybodyOpens
      <4> QED
        BY <4>1, <4>2
    <3> QED
      BY <1>1, <3>1, <3>2, <3>3
  <2>6. CASE FindContact(s)
    <3>1. /\ UNCHANGED <<people, chats, raced>> /\ Event(s)' = Event(s) /\ pc[s] = "contact" /\ pc'[s] # "open"
          /\ pc'[s] = "addContact" /\ Who(s) = p => people[p] = 0
      BY <2>2, <2>6 DEF FindContact, inVars, Event, queueVars, Goto, JobInv, SlotTypeOK
    <3>2. OneContact(p)'
      BY <1>1, <2>1, <3>1 DEF OneContact, Who
    <3> QED
      BY <1>1, <2>1, <2>2, <3>1, <3>2, ChatSame
  <2>7. CASE FindChat(s)
    <3>1. /\ UNCHANGED <<people, chats>> /\ Event(s)' = Event(s) /\ pc[s] = "chat" /\ pc'[s] # "addContact"
          /\ raced \subseteq raced'
          /\ pc'[s] = "open" => Misses(Who(s)) /\ raced' = raced \cup {q \in {Who(s)} : BulkOpens(q)}
      BY <2>2, <2>7 DEF FindChat, Event, queueVars, Goto, JobInv, SlotTypeOK
    <3>2. OneContact(p)'
      BY <1>1, <2>1, <3>1, ContactSame
    <3>3. CASE ~(pc'[s] = "open" /\ Who(s) = p) /\ OneChat(p)
      BY <2>1, <2>2, <3>1, <3>2, <3>3 DEF OneChat, AnybodyOpens, BulkOpens, Who
    <3>4. CASE pc'[s] = "open" /\ Who(s) = p /\ OneChat(p) /\ p \notin raced'
      <4>1. chats[p] = 0 /\ ~BulkOpens(p)
        BY <1>1, <2>2, <3>1, <3>4 DEF OneContact, Misses
      <4> QED
        BY <2>1, <2>2, <3>1, <3>2, <3>4, <4>1 DEF OneChat, AnybodyOpens, BulkOpens, Who
    <3> QED
      BY <1>1, <3>1, <3>2, <3>3, <3>4
  <2>8. ASSUME ~AddContact(s), ~OpenChat(s), ~FindContact(s), ~FindChat(s)
        PROVE  OneContact(p)' /\ (p \in raced' \/ OneChat(p)')
    <3>1. UNCHANGED <<people, chats, raced>>
      BY <1>6, <2>8 DEF Handle, Claim, Finish, HandlerFails, StoreRefused, Throw, Guard, BumpChat, Store, Tell,
            Look, SetStatus, Count, inVars
    <3>2. pc'[s] \notin {"addContact", "open"}
      <4>1. CASE pc'[s] \in Fresh
        BY <4>1 DEF Fresh
      <4>2. CASE ~(pc'[s] \in Fresh)
        BY <1>6, <2>8, <4>2, ReturnStep, ClaimStep, FreeStep
           DEF Handle, Finish, HandlerFails, StoreRefused, Throw, Guard, BumpChat, Store, Tell,
               Look, SetStatus, Count, Goto, JobInv, SlotTypeOK, Busy
      <4> QED
        BY <4>1, <4>2
    <3> QED
      BY <1>2, <2>1, <2>2, <3>1, <3>2
  <2> QED
    BY <2>4, <2>5, <2>6, <2>7, <2>8
<1> QED
  BY <1>3, <1>4, <1>5, <1>6, NextSteps

-----------------------------------------------------------------------------
(* Unread counts.                                                           *)

Before == {"contact", "addContact", "chat", "open", "bump"}

\* A message is counted when it is stored, or when a slot is about to store it.
UnreadWell(m) ==
    /\ unread[m] <= 1
    /\ \A s \in Slot : pc[s] \in Before /\ Event(s).id = m => m \notin stored /\ unread[m] = 0
    /\ \A s \in Slot : pc[s] = "store" /\ Event(s).id = m => m \notin stored
    /\ m \in stored \/ unread[m] = 0 \/ \E s \in Slot : pc[s] = "store" /\ Event(s).id = m

UnreadInv == \A m \in Inbound : m \in cut \/ Unordered(m) \/ UnreadWell(m)

\* Nobody comes near the message, and who was about to store it stays.
LEMMA UnreadSame ==
    ASSUME NEW m \in Inbound, UnreadWell(m), unread'[m] = unread[m], m \in stored' <=> m \in stored,
           \A t \in Slot : pc'[t] \in Before \cup {"store"} /\ Event(t)'.id = m =>
                               /\ pc[t] \in Before \cup {"store"} /\ Event(t).id = m
                               /\ pc'[t] = "store" <=> pc[t] = "store",
           \A t \in Slot : pc[t] = "store" /\ Event(t).id = m => pc'[t] = "store" /\ Event(t)'.id = m
    PROVE  UnreadWell(m)'
<1>1. \A t \in Slot : pc'[t] \in Before /\ Event(t)'.id = m => pc[t] \in Before /\ Event(t).id = m
  BY DEF Before
<1>2. \A t \in Slot : pc'[t] = "store" /\ Event(t)'.id = m => pc[t] = "store" /\ Event(t).id = m
  OBVIOUS
<1> QED
  BY <1>1, <1>2 DEF UnreadWell

\* The guard, the count and the row of a message are one slot's in its lane.
LEMMA UnreadStep == DataTypeOK /\ JobInv /\ UnreadInv /\ [Next]_vars => UnreadInv'
<1> SUFFICES ASSUME DataTypeOK, JobInv, UnreadInv, [Next]_vars, NEW m \in Inbound, m \notin cut',
                    ~Unordered(m)'
             PROVE  UnreadWell(m)'
  BY DEF UnreadInv
<1>1. ~Unordered(m)
  BY OrderStays DEF DataTypeOK
<1>2. ASSUME m \notin cut PROVE UnreadWell(m)
  BY <1>1, <1>2 DEF UnreadInv
<1>3. ASSUME NEW b \in Batch, Receive(b) PROVE UnreadWell(m)'
  BY <1>2, <1>3, ReceiveStep, UnreadSame DEF Receive, inVars, Still, Busy, Before
<1>4. CASE SendStep
  BY <1>2, <1>4, SendAside, IdleStep, UnreadSame DEF inVars, Still, Busy, Before
<1>5. CASE Crash
  <2>1. UNCHANGED inVars /\ cut' = cut \cup HalfDone(Slot) /\ \A t \in Slot : pc'[t] = "idle"
    BY <1>5, CrashStep DEF Crash
  <2>2. \A t \in Slot : pc[t] = "store" => Event(t).id # m
    BY <2>1 DEF HalfDone
  <2> QED
    BY <1>2, <2>1, <2>2, UnreadSame DEF inVars, Before
<1>6. ASSUME NEW s \in Slot, Handle(s) PROVE UnreadWell(m)'
  <2>1. \A t \in Slot \ {s} : pc'[t] = pc[t] /\ (pc[t] \in Before \cup {"store"} => Event(t)' = Event(t))
    BY <1>6, SlotStep DEF Beside, Busy, Before, DataTypeOK
  <2>2. cut \subseteq cut' /\ m \notin cut /\ UnreadWell(m)
    <3>1. cut \subseteq cut'
      BY <1>6 DEF Handle, Claim, Finish, HandlerFails, StoreRefused, Throw, Guard, FindContact, AddContact,
            FindChat, OpenChat, BumpChat, Store, Tell, Look, SetStatus, Count
    <3> QED
      BY <1>2, <3>1
  <2>3. ASSUME Busy(s), Event(s).id = m
        PROVE  \A t \in Slot \ {s} : pc[t] \in Before \cup {"store"} => Event(t).id # m
    BY <1>1, <2>3, SameMessage DEF Busy, Before
  <2>4. unread[m] \in Nat
    BY DEF DataTypeOK, InTypeOK
  <2>5. CASE HandlerFails(s) \/ StoreRefused(s)
    <3>1. UNCHANGED <<unread, stored>> /\ cut' = cut \cup HalfDone({s})
      BY <2>5 DEF HandlerFails, StoreRefused, Throw, inVars
    <3>2. pc[s] = "store" => Event(s).id # m
      BY <3>1 DEF HalfDone
    <3>3. pc'[s] = "idle"
      BY <2>5 DEF HandlerFails, StoreRefused, Throw, FreeSlot, JobInv, SlotTypeOK
    <3> QED
      BY <2>1, <2>2, <3>1, <3>2, <3>3, UnreadSame DEF Before
  <2>6. CASE Guard(s)
    <3>1. UNCHANGED <<unread, stored>> /\ pc[s] = "guard" /\ Busy(s)
      BY <2>6 DEF Guard, inVars, Busy
    <3>2. CASE Duplicate(s)
      <4>1. pc'[s] \notin Before \cup {"store"}
        BY <2>6, <3>1, <3>2, ReturnStep DEF Guard, Fresh, Before
      <4> QED
        BY <2>1, <2>2, <3>1, <4>1, UnreadSame DEF Before
    <3>3. CASE ~Duplicate(s) /\ Event(s).id # m
      <4>1. Event(s)' = Event(s)
        BY <2>6, <3>3 DEF Guard, Event, queueVars
      <4> QED
        BY <2>1, <2>2, <3>1, <3>3, <4>1, UnreadSame DEF Before
    <3>4. CASE ~Duplicate(s) /\ Event(s).id = m
      <4>1. m \notin stored /\ pc'[s] = "contact"
        BY <2>6, <3>4 DEF Guard, Duplicate, Goto, JobInv, SlotTypeOK
      <4>2. \A t \in Slot : pc[t] \in Before \cup {"store"} => Event(t).id # m
        BY <2>3, <3>1, <3>4 DEF Before
      <4>3. unread[m] = 0
        BY <2>2, <4>1, <4>2 DEF UnreadWell
      <4>4. \A t \in Slot : pc'[t] = "store" => Event(t)'.id # m
        BY <2>1, <4>1, <4>2
      <4> QED
        BY <3>1, <4>1, <4>3, <4>4 DEF UnreadWell
    <3> QED
      BY <3>2, <3>3, <3>4
  <2>7. CASE FindContact(s) \/ AddContact(s) \/ FindChat(s)
    <3>1. /\ UNCHANGED <<unread, stored>> /\ pc[s] \in Before /\ pc'[s] \in Before /\ Event(s)' = Event(s)
      BY <2>7 DEF FindContact, AddContact, FindChat, inVars, Goto, JobInv, SlotTypeOK, Before, Event, queueVars
    <3> QED
      BY <2>1, <2>2, <3>1, UnreadSame DEF Before
  <2>8. CASE OpenChat(s) \/ BumpChat(s)
    <3>1. /\ pc[s] \in Before /\ pc'[s] = "store" /\ Event(s)' = Event(s) /\ stored' = stored
          /\ unread' = [unread EXCEPT ![Event(s).id] = unread[Event(s).id] + 1]
      BY <2>8 DEF OpenChat, BumpChat, CountUnread, Goto, JobInv, SlotTypeOK, Before, Event, queueVars
    <3>2. CASE Event(s).id # m
      <4>1. unread'[m] = unread[m]
        BY <3>1, <3>2 DEF DataTypeOK, InTypeOK
      <4> QED
        BY <2>1, <2>2, <3>1, <3>2, <4>1, UnreadSame DEF Before
    <3>3. CASE Event(s).id = m
      <4>1. m \notin stored /\ unread[m] = 0
        BY <2>2, <3>1, <3>3 DEF UnreadWell
      <4>2. unread'[m] = 1
        BY <3>1, <3>3, <4>1 DEF DataTypeOK, InTypeOK
      <4>3. \A t \in Slot \ {s} : pc'[t] \in Before \cup {"store"} => Event(t)'.id # m
        BY <2>1, <2>3, <3>1, <3>3 DEF Busy, Before
      <4> QED
        BY <3>1, <3>3, <4>1, <4>2, <4>3 DEF UnreadWell, Before
    <3> QED
      BY <3>2, <3>3
  <2>9. CASE Store(s)
    <3>1. /\ pc[s] = "store" /\ pc'[s] = "tell" /\ stored' = stored \cup {Event(s).id} /\ unread' = unread
      BY <2>9 DEF Store, Goto, JobInv, SlotTypeOK
    <3>2. CASE Event(s).id # m
      BY <2>1, <2>2, <3>1, <3>2, UnreadSame DEF Before
    <3>3. CASE Event(s).id = m
      <4>1. \A t \in Slot : pc'[t] \in Before \cup {"store"} => Event(t)'.id # m
        BY <2>1, <2>3, <3>1, <3>3 DEF Busy, Before
      <4> QED
        BY <2>2, <3>1, <3>3, <4>1 DEF UnreadWell, Before
    <3> QED
      BY <3>2, <3>3
  <2>10. ASSUME ~HandlerFails(s), ~StoreRefused(s), ~Guard(s), ~FindContact(s), ~AddContact(s), ~FindChat(s),
                ~OpenChat(s), ~BumpChat(s), ~Store(s)
         PROVE  UnreadWell(m)'
    <3>1. UNCHANGED <<unread, stored>> /\ pc[s] \notin Before \cup {"store"}
      BY <1>6, <2>10 DEF Handle, Claim, Finish, Tell, Look, SetStatus, Count, inVars, Before, Goto
    <3>2. pc'[s] \notin Before \cup {"store"}
      <4>1. CASE pc'[s] \in Fresh
        BY <4>1 DEF Fresh, Before
      <4>2. CASE ~(pc'[s] \in Fresh)
        BY <1>6, <2>10, <4>2, ReturnStep, ClaimStep, FreeStep
           DEF Handle, Finish, Tell, Look, SetStatus, Count, Goto, JobInv, SlotTypeOK, Busy, Before
      <4> QED
        BY <4>1, <4>2
    <3> QED
      BY <2>1, <2>2, <3>1, <3>2, UnreadSame
  <2> QED
    BY <2>5, <2>6, <2>7, <2>8, <2>9, <2>10
<1> QED
  BY <1>3, <1>4, <1>5, <1>6, NextSteps

-----------------------------------------------------------------------------
(* Statuses and counters.                                                   *)

Counter == {"delivered", "read"}
Up(old, new) == Rank[new] >= Rank[old]

\* What a slot has read is still the status, unless send-media has failed the
\* message since; what has been counted, or is about to be, is behind the status.
StatusWell(x) ==
    /\ \A s \in Slot : pc[s] = "set" /\ Event(s).id = x =>
           seen[s] = status[x] \/ (x \in Media /\ status[x] = "failed" /\ faults > 0)
    /\ \A s \in Slot : x \in Bulk /\ pc[s] = "count" /\ Event(s).id = x =>
           /\ Event(s).to \in Counter /\ status[x] # "none" /\ Up(Event(s).to, status[x])
           /\ counted[x][Event(s).to] = 0
    /\ x \in Bulk => \A c \in Counter :
           counted[x][c] <= 1 /\ (counted[x][c] > 0 => status[x] # "none" /\ Up(c, status[x]))

LadderInv == \A x \in Outbound : Unordered(x) \/ StatusWell(x)

\* Nobody comes near the message's row.
LEMMA LadderSame ==
    ASSUME NEW x \in Outbound, StatusWell(x), status'[x] = status[x], faults > 0 => faults' > 0,
           x \in Bulk => counted'[x] = counted[x],
           \A t \in Slot : pc'[t] \in {"set", "count"} /\ Event(t)'.id = x =>
               pc'[t] = pc[t] /\ Event(t)' = Event(t) /\ seen'[t] = seen[t]
    PROVE  StatusWell(x)'
BY DEF StatusWell, Up

\* The faults only grow.
LEMMA FaultsGrow ==
    ASSUME DataTypeOK, [Next]_vars
    PROVE  faults > 0 => faults' > 0
<1>1. faults \in Nat
  BY MessageConstAssumption DEF DataTypeOK, InTypeOK
<1>2. faults' = faults \/ faults' = faults + 1
  <2>1. ASSUME NEW s \in Slot, Handle(s) PROVE faults' = faults \/ faults' = faults + 1
    BY <2>1 DEF Handle, Claim, Finish, HandlerFails, StoreRefused, Guard, FindContact, AddContact, FindChat,
          OpenChat, BumpChat, Store, Tell, Look, SetStatus, Count, Fault, envVars
  <2>2. CASE SendStep
    BY <2>2 DEF SendStep, Broadcast, SendBulk, FindBulkChat, OpenBulkChat, RecordBulk, BulkStep, Cleanup,
            Deliver, DraftMedia, EnqueueMedia, BeginMedia, LookMedia,
          MediaJobFails, MediaOutage, Send, Mark, Catch, MarkFailed, EndMedia, Fault, envVars, vars
  <2> QED
    BY <2>1, <2>2, NextSteps DEF Receive, Crash, envVars
<1> QED
  BY <1>1, <1>2

\* A slot writes a status that is no lower than what it has read.
LEMMA NewStatusUp ==
    ASSUME NEW old \in DOMAIN Rank, NEW to \in Reported
    PROVE  /\ NewStatus(old, to) \in DOMAIN Rank /\ Up(old, NewStatus(old, to))
           /\ \A c \in Counter : Up(c, old) => Up(c, NewStatus(old, to))
           /\ NewStatus(old, to) # old /\ to \in Counter => NewStatus(old, to) = to /\ ~Up(to, old)
BY RankFacts DEF NewStatus, Reported, Up, Counter

\* The lane keeps the status from changing between a slot's read and its count.
LEMMA HandleLadder ==
    ASSUME DataTypeOK, JobInv, StatusInv, NEW x \in Outbound, ~Unordered(x), StatusWell(x),
           faults > 0 => faults' > 0, NEW s \in Slot, Handle(s)
    PROVE  StatusWell(x)'
<1>1. \A t \in Slot \ {s} : /\ pc'[t] = pc[t] /\ seen'[t] = seen[t]
                            /\ pc[t] \in {"set", "count"} => Event(t)' = Event(t)
  BY SlotStep DEF Beside, Busy, DataTypeOK
<1>2. ASSUME Busy(s), Event(s).id = x
      PROVE  \A t \in Slot \ {s} : pc[t] \in {"set", "count"} => Event(t).id # x
  BY <1>2, SameMessage DEF Busy
<1>3. CASE Look(s)
  <2>1. status' = status /\ counted' = counted
    BY <1>3 DEF Look, outVars
  <2>2. CASE Return(s)
    <3>1. pc'[s] \notin {"set", "count"}
      BY <1>3, <2>2, ReturnStep DEF Look, Busy, Fresh
    <3> QED
      BY <1>1, <2>1, <3>1, LadderSame
  <2>3. CASE ~Return(s)
    <3>1. /\ pc[s] = "look" /\ pc'[s] = "set" /\ seen'[s] = status[Event(s).id] /\ Event(s)' = Event(s)
      BY <1>3, <2>3 DEF Look, Goto, Event, queueVars, JobInv, SlotTypeOK
    <3>2. CASE Event(s).id # x
      BY <1>1, <2>1, <3>1, <3>2, LadderSame
    <3>3. CASE Event(s).id = x
      <4>1. \A t \in Slot \ {s} : pc'[t] \in {"set", "count"} => Event(t)'.id # x
        BY <1>1, <1>2, <3>1, <3>3 DEF Busy
      <4> QED
        BY <2>1, <3>1, <3>3, <4>1 DEF StatusWell, Up
    <3> QED
      BY <3>2, <3>3
  <2> QED
    BY <2>2, <2>3
<1>4. CASE SetStatus(s)
  <2> DEFINE to == NewStatus(seen[s], Event(s).to)
  <2>1. /\ pc[s] = "set" /\ Event(s).id \in Outbound /\ Event(s).to \in Reported /\ seen[s] \in DOMAIN Rank
    BY <1>4, BusyFacts DEF SetStatus, StatusStep, JobInv, SlotTypeOK
  <2>2. /\ status' = [status EXCEPT ![Event(s).id] = to] /\ counted' = counted
    BY <1>4 DEF SetStatus
  <2>3. /\ pc'[s] \notin {"set"}
        /\ pc'[s] = "count" => Counts(s) /\ Event(s)' = Event(s)
    <3>1. CASE Counts(s)
      BY <1>4, <3>1 DEF SetStatus, Goto, JobInv, SlotTypeOK, Event, queueVars
    <3>2. CASE ~Counts(s)
      BY <1>4, <3>2, ReturnStep DEF SetStatus, Busy, Fresh
    <3> QED
      BY <3>1, <3>2
  <2>4. CASE Event(s).id # x
    <3>1. status'[x] = status[x]
      BY <2>1, <2>2, <2>4 DEF DataTypeOK, OutTypeOK
    <3> QED
      BY <1>1, <2>2, <2>3, <2>4, <3>1, LadderSame
  <2>5. CASE Event(s).id = x
    <3>1. \A t \in Slot \ {s} : pc'[t] \in {"set", "count"} => Event(t)'.id # x
      BY <1>1, <1>2, <2>1, <2>5 DEF Busy
    <3>2. status'[x] = to /\ to \in DOMAIN Rank
      BY <2>1, <2>2, <2>5, NewStatusUp DEF DataTypeOK, OutTypeOK
    <3>3. "none" \notin DOMAIN Rank
      BY RankFacts
    <3>4. ASSUME x \in Bulk
          PROVE  \A c \in Counter : counted[x][c] <= 1 /\ (counted[x][c] > 0 => status'[x] # "none" /\ Up(c, status'[x]))
      <4>1. seen[s] = status[x]
        BY <2>1, <2>5, <3>4, MessageConstAssumption DEF StatusWell
      <4> QED
        BY <2>1, <3>2, <3>3, <3>4, <4>1, NewStatusUp DEF StatusWell
    <3>5. ASSUME x \in Bulk, pc'[s] = "count"
          PROVE  /\ Event(s).to \in Counter /\ status'[x] # "none" /\ Up(Event(s).to, status'[x])
                 /\ counted[x][Event(s).to] = 0
      <4>1. Event(s).to \in Counter /\ to # seen[s]
        BY <2>3, <3>5 DEF Counts, Counter
      <4>2. to = Event(s).to /\ ~Up(to, seen[s]) /\ Rank[to] \in Nat
        BY <2>1, <4>1, NewStatusUp, RankFacts DEF Counter
      <4>3. seen[s] = status[x]
        BY <2>1, <2>5, <3>5, MessageConstAssumption DEF StatusWell
      <4>4. counted[x][to] <= 1 /\ ~(counted[x][to] > 0) /\ counted[x][to] \in Nat
        BY <3>5, <4>1, <4>2, <4>3 DEF StatusWell, DataTypeOK, OutTypeOK, Counter
      <4> QED
        BY <3>2, <3>3, <4>1, <4>2, <4>4 DEF Up
    <3>6. \A t \in Slot : ~(pc'[t] = "set" /\ Event(t)'.id = x)
      BY <2>3, <3>1
    <3>7. \A t \in Slot : pc'[t] = "count" /\ Event(t)'.id = x => t = s /\ Event(t)' = Event(s)
      BY <2>3, <3>1
    <3> QED
      BY <2>2, <3>4, <3>5, <3>6, <3>7 DEF StatusWell
  <2> QED
    BY <2>4, <2>5
<1>5. CASE Count(s)
  <2> DEFINE y == Event(s).id
             to == Event(s).to
  <2>1. /\ pc[s] = "count" /\ y \in Outbound /\ to \in Reported /\ status' = status
        /\ counted' = [counted EXCEPT ![y] = [counted[y] EXCEPT ![to] = counted[y][to] + 1]]
    BY <1>5, BusyFacts DEF Count, StatusStep
  <2>2. pc'[s] \notin {"set", "count"}
    BY <1>5, ReturnStep DEF Count, Busy, Fresh
  <2>3. CASE y # x
    <3>1. x \in Bulk => counted'[x] = counted[x]
      BY <2>1, <2>3 DEF DataTypeOK, OutTypeOK
    <3> QED
      BY <1>1, <2>1, <2>2, <3>1, LadderSame
  <2>4. CASE y = x
    <3>1. \A t \in Slot : pc'[t] \in {"set", "count"} => Event(t)'.id # x
      BY <1>1, <1>2, <2>1, <2>2, <2>4 DEF Busy
    <3>2. ASSUME x \in Bulk
          PROVE  \A c \in Counter : counted'[x][c] <= 1 /\ (counted'[x][c] > 0 => status[x] # "none" /\ Up(c, status[x]))
      <4>1. to \in Counter /\ status[x] # "none" /\ Up(to, status[x]) /\ counted[x][to] = 0
        BY <2>1, <2>4, <3>2 DEF StatusWell
      <4>2. \A c \in Counter : counted'[x][c] = IF c = to THEN 1 ELSE counted[x][c]
        BY <2>1, <2>4, <3>2, <4>1 DEF DataTypeOK, OutTypeOK, Counter
      <4> QED
        BY <3>2, <4>1, <4>2 DEF StatusWell
    <3> QED
      BY <2>1, <3>1, <3>2 DEF StatusWell
  <2> QED
    BY <2>3, <2>4
<1>6. ASSUME ~Look(s), ~SetStatus(s), ~Count(s) PROVE StatusWell(x)'
  <2>1. UNCHANGED <<status, counted>>
    BY <1>6 DEF Handle, Claim, Finish, HandlerFails, StoreRefused, Throw, Guard, FindContact, AddContact,
          FindChat, OpenChat, BumpChat, Store, Tell, outVars
  <2>2. pc'[s] \notin {"set", "count"}
    <3>1. CASE pc'[s] \in Fresh
      BY <3>1 DEF Fresh
    <3>2. CASE ~(pc'[s] \in Fresh)
      BY <1>6, <3>2, ReturnStep, ClaimStep, FreeStep
         DEF Handle, Finish, HandlerFails, StoreRefused, Throw, Guard, FindContact, AddContact, FindChat,
             OpenChat, BumpChat, Store, Tell, Goto, JobInv, SlotTypeOK, Busy
    <3> QED
      BY <3>1, <3>2
  <2> QED
    BY <1>1, <2>1, <2>2, LadderSame
<1> QED
  BY <1>3, <1>4, <1>5, <1>6

\* The senders write the status of a row no webhook can find yet, or a failure.
LEMMA SendLadder ==
    ASSUME DataTypeOK, JobInv, StatusInv, NEW x \in Outbound, StatusWell(x),
           faults > 0 => faults' > 0, SendStep
    PROVE  StatusWell(x)'
<1>1. counted' = counted /\ \A t \in Slot : /\ pc'[t] = pc[t] /\ seen'[t] = seen[t]
                                            /\ pc[t] \in {"set", "count"} => Event(t)' = Event(t)
  BY SendAside, IdleStep DEF Still, Busy
<1>2. CASE status'[x] = status[x]
  BY <1>1, <1>2, LadderSame
<1>3. ASSUME status[x] \in {"none", "sending"}
      PROVE  \A t \in Slot : pc'[t] \in {"set", "count"} => Event(t)'.id # x
  BY <1>1, <1>3 DEF StatusInv
<1>4. CASE x \in Bulk /\ status'[x] # status[x]
  <2>1. status[x] = "none"
    <3>1. ASSUME NEW y \in Media, Deliver(y) PROVE status'[x] = status[x]
      <4>1. status' = status \/ \E to : status' = [status EXCEPT ![y] = to]
        BY <3>1 DEF Deliver, DraftMedia, EnqueueMedia, BeginMedia, LookMedia, MediaJobFails, MediaOutage, Send, Mark,
              Catch, MarkFailed, EndMedia
      <4>2. x # y
        BY <1>4, MessageConstAssumption
      <4> QED
        BY <4>1, <4>2 DEF DataTypeOK, OutTypeOK
    <3>2. PICK y \in Bulk : RecordBulk(y)
      BY <1>4, <3>1 DEF SendStep, Broadcast, SendBulk, FindBulkChat, OpenBulkChat, Cleanup, vars, outVars
    <3> QED
      BY <1>4, <3>2 DEF RecordBulk, DataTypeOK, OutTypeOK
  <2> QED
    BY <1>1, <1>3, <1>4, <2>1 DEF StatusWell
<1>5. CASE x \in Media /\ status'[x] # status[x]
  <2>1. PICK y \in Media : DraftMedia(y) \/ Mark(y) \/ MarkFailed(y)
    <3>1. ASSUME NEW y \in Bulk, RecordBulk(y) PROVE status'[x] = status[x]
      BY <1>5, <3>1, MessageConstAssumption DEF RecordBulk, DataTypeOK, OutTypeOK
    <3> QED
      BY <1>5, <3>1 DEF SendStep, Broadcast, SendBulk, FindBulkChat, OpenBulkChat, Cleanup, vars, outVars,
            Deliver, EnqueueMedia, BeginMedia, LookMedia, MediaJobFails, MediaOutage, Send, Catch, EndMedia
  <2>2. y = x
    BY <1>5, <2>1 DEF DraftMedia, Mark, MarkFailed, DataTypeOK, OutTypeOK
  <2>3. CASE DraftMedia(x) \/ Mark(x)
    <3>1. status[x] \in {"none", "sending"}
      BY <1>5, <2>3 DEF DraftMedia, Mark, MGoto, StatusInv
    <3> QED
      BY <1>3, <1>5, <3>1, MessageConstAssumption DEF StatusWell
  <2>4. CASE MarkFailed(x)
    <3>1. status'[x] = "failed" /\ faults > 0
      BY <1>5, <2>4 DEF MarkFailed, MGoto, StatusInv, DataTypeOK, OutTypeOK
    <3>2. x \notin Bulk
      BY <1>5, MessageConstAssumption
    <3> QED
      BY <1>1, <1>5, <3>1, <3>2 DEF StatusWell
  <2> QED
    BY <2>1, <2>2, <2>3, <2>4
<1> QED
  BY <1>2, <1>4, <1>5 DEF Outbound

\* No step takes the ladder away from a message in its lane.
LEMMA LadderStep == DataTypeOK /\ JobInv /\ StatusInv /\ LadderInv /\ [Next]_vars => LadderInv'
<1> SUFFICES ASSUME DataTypeOK, JobInv, StatusInv, LadderInv, [Next]_vars,
                    NEW x \in Outbound, ~Unordered(x)'
             PROVE  StatusWell(x)'
  BY DEF LadderInv
<1>1. ~Unordered(x) /\ StatusWell(x) /\ (faults > 0 => faults' > 0)
  BY OrderStays, FaultsGrow DEF DataTypeOK, LadderInv
<1>2. ASSUME NEW b \in Batch, Receive(b) PROVE StatusWell(x)'
  BY <1>1, <1>2, ReceiveStep, LadderSame DEF Receive, outVars, Still, Busy
<1>3. CASE Crash
  BY <1>1, <1>3, CrashStep, LadderSame DEF Crash, outVars
<1> QED
  BY <1>1, <1>2, <1>3, NextSteps, HandleLadder, SendLadder

-----------------------------------------------------------------------------
(* Until something fails no count is missed.                                *)

\* A slot about to write has found the status it read reckoned with.
Reached(x, c) ==
    status[x] = c \/ \E s \in Slot : pc[s] = "set" /\ Event(s).id = x /\ seen[s] = c

ReckonInv ==
    faults + crashes = 0 => \A x \in Bulk : \A c \in Counter : Reached(x, c) => Reckoned(x, c)

\* As long as nothing fails a slot that is about to count does count.
LEMMA ReckonedStays ==
    ASSUME DataTypeOK, JobInv, NEW s \in Slot, Handle(s), faults' = faults,
           NEW x \in Bulk, NEW c \in Counter, Reckoned(x, c)
    PROVE  Reckoned(x, c)'
<1>1. \A t \in Slot \ {s} : pc[t] = "count" => pc'[t] = "count" /\ Event(t)' = Event(t)
  BY SlotStep DEF Beside, Busy, StatusStep, DataTypeOK
<1>2. counted[x][c] \in Nat /\ faults \in Nat
  BY MessageConstAssumption DEF DataTypeOK, InTypeOK, OutTypeOK, Counter
<1>3. CASE Count(s)
  <2>1. /\ pc[s] = "count"
        /\ counted' = [counted EXCEPT ![Event(s).id] =
                          [counted[Event(s).id] EXCEPT ![Event(s).to] = counted[Event(s).id][Event(s).to] + 1]]
    BY <1>3 DEF Count
  <2>2. CASE Event(s).id = x /\ Event(s).to = c
    BY <1>2, <2>1, <2>2 DEF DataTypeOK, OutTypeOK, Counter, Reckoned
  <2>3. CASE ~(Event(s).id = x /\ Event(s).to = c)
    <3>1. counted'[x][c] = counted[x][c]
      BY <2>1, <2>3 DEF DataTypeOK, OutTypeOK, Counter
    <3> QED
      BY <1>1, <2>1, <2>3, <3>1 DEF Reckoned
  <2> QED
    BY <2>2, <2>3
<1>4. CASE ~Count(s)
  <2>1. counted' = counted
    BY <1>4 DEF Handle, Claim, Finish, HandlerFails, StoreRefused, Throw, Guard, FindContact, AddContact,
          FindChat, OpenChat, BumpChat, Store, Tell, Look, SetStatus, outVars
  <2>2. pc[s] # "count"
    BY <1>2, <1>4 DEF Handle, Claim, Finish, HandlerFails, Fault, StoreRefused, Guard, FindContact, AddContact,
          FindChat, OpenChat, BumpChat, Store, Tell, Look, SetStatus, Goto
  <2> QED
    BY <1>1, <2>1, <2>2 DEF Reckoned
<1> QED
  BY <1>3, <1>4

\* What a slot reads is reckoned with; what it writes it has read, or will count.
LEMMA HandleReckon ==
    ASSUME DataTypeOK, JobInv, ReckonInv, NEW s \in Slot, Handle(s), faults + crashes = 0, faults' = faults,
           NEW x \in Bulk, NEW c \in Counter, Reached(x, c)'
    PROVE  Reckoned(x, c)'
<1>1. \A t \in Slot \ {s} : /\ pc'[t] = pc[t] /\ seen'[t] = seen[t]
                            /\ pc[t] = "set" => Event(t)' = Event(t)
  BY SlotStep DEF Beside, Busy, StatusStep, DataTypeOK
<1>2. Reached(x, c) => Reckoned(x, c)'
  BY ReckonedStays DEF ReckonInv
<1>3. CASE Look(s)
  <2>1. status' = status
    BY <1>3 DEF Look, outVars
  <2>2. CASE Return(s)
    <3>1. pc'[s] # "set"
      BY <1>3, <2>2, ReturnStep DEF Look, Busy, Fresh
    <3> QED
      BY <1>1, <1>2, <2>1, <3>1 DEF Reached
  <2>3. CASE ~Return(s)
    <3>1. seen'[s] = status[Event(s).id] /\ Event(s)' = Event(s)
      BY <1>3, <2>3 DEF Look, Goto, Event, queueVars, JobInv, SlotTypeOK
    <3> QED
      BY <1>1, <1>2, <2>1, <3>1 DEF Reached
  <2> QED
    BY <2>2, <2>3
<1>4. CASE SetStatus(s)
  <2> DEFINE to == NewStatus(seen[s], Event(s).to)
  <2>1. /\ pc[s] = "set" /\ Event(s).id \in Outbound /\ Event(s).to \in Reported /\ seen[s] \in DOMAIN Rank
    BY <1>4, BusyFacts DEF SetStatus, StatusStep, JobInv, SlotTypeOK
  <2>2. status' = [status EXCEPT ![Event(s).id] = to]
    BY <1>4 DEF SetStatus
  <2>3. pc'[s] # "set" /\ (Counts(s) => pc'[s] = "count" /\ Event(s)' = Event(s))
    <3>1. CASE Counts(s)
      BY <1>4, <3>1 DEF SetStatus, Goto, JobInv, SlotTypeOK, Event, queueVars
    <3>2. CASE ~Counts(s)
      BY <1>4, <3>2, ReturnStep DEF SetStatus, Busy, Fresh
    <3> QED
      BY <3>1, <3>2
  <2>4. CASE Event(s).id # x \/ status'[x] # c
    <3>1. status'[x] = c => status[x] = c
      BY <2>1, <2>2, <2>4 DEF DataTypeOK, OutTypeOK
    <3> QED
      BY <1>1, <1>2, <2>3, <3>1 DEF Reached
  <2>5. CASE Event(s).id = x /\ status'[x] = c
    <3>1. to = c
      BY <2>1, <2>2, <2>5 DEF DataTypeOK, OutTypeOK
    <3>2. CASE to = seen[s]
      BY <1>2, <2>1, <2>5, <3>1, <3>2 DEF Reached
    <3>3. CASE to # seen[s]
      <4>1. Event(s).to = c
        BY <3>1, <3>3 DEF NewStatus
      <4>2. Counts(s)
        BY <2>5, <3>3, <4>1 DEF Counts, Counter
      <4> QED
        BY <2>3, <2>5, <4>1, <4>2 DEF Reckoned
    <3> QED
      BY <3>2, <3>3
  <2> QED
    BY <2>4, <2>5
<1>5. CASE ~Look(s) /\ ~SetStatus(s)
  <2>1. status' = status
    BY <1>5 DEF Handle, Claim, Finish, HandlerFails, StoreRefused, Throw, Guard, FindContact, AddContact,
          FindChat, OpenChat, BumpChat, Store, Tell, Count, outVars
  <2>2. pc'[s] # "set"
    <3>1. CASE pc'[s] \in Fresh
      BY <3>1 DEF Fresh
    <3>2. CASE ~(pc'[s] \in Fresh)
      BY <1>5, <3>2, ReturnStep, ClaimStep, FreeStep
         DEF Handle, Finish, HandlerFails, StoreRefused, Throw, Guard, FindContact, AddContact, FindChat,
             OpenChat, BumpChat, Store, Tell, Count, Goto, JobInv, SlotTypeOK, Busy
    <3> QED
      BY <3>1, <3>2
  <2> QED
    BY <1>1, <1>2, <2>1, <2>2 DEF Reached
<1> QED
  BY <1>3, <1>4, <1>5

\* A broadcast records its message as sent, which no counter is about.
LEMMA ReckonStep == DataTypeOK /\ JobInv /\ ReckonInv /\ [Next]_vars => ReckonInv'
<1> SUFFICES ASSUME DataTypeOK, JobInv, ReckonInv, [Next]_vars, faults' + crashes' = 0,
                    NEW x \in Bulk, NEW c \in Counter, Reached(x, c)'
             PROVE  Reckoned(x, c)'
  BY DEF ReckonInv
<1>1. /\ faults \in Nat /\ crashes \in Nat
      /\ faults' \in Nat /\ faults' >= faults /\ (crashes' = crashes \/ crashes' = crashes + 1)
  <2>1. faults \in Nat /\ crashes \in Nat
    BY MessageConstAssumption DEF DataTypeOK, InTypeOK
  <2>2. faults' \in {faults, faults + 1} /\ crashes' \in {crashes, crashes + 1}
    <3>1. ASSUME NEW s \in Slot, Handle(s) PROVE faults' \in {faults, faults + 1} /\ crashes' = crashes
      BY <3>1 DEF Handle, Claim, Finish, HandlerFails, StoreRefused, Guard, FindContact, AddContact, FindChat,
            OpenChat, BumpChat, Store, Tell, Look, SetStatus, Count, Fault, envVars
    <3>2. CASE SendStep
      BY <3>2 DEF SendStep, Broadcast, SendBulk, FindBulkChat, OpenBulkChat, RecordBulk, BulkStep, Cleanup,
            Deliver, DraftMedia, EnqueueMedia, BeginMedia, LookMedia,
            MediaJobFails, MediaOutage, Send, Mark, Catch, MarkFailed, EndMedia, Fault, envVars, vars
    <3> QED
      BY <3>1, <3>2, NextSteps DEF Receive, Crash, envVars
  <2> QED
    BY <2>1, <2>2
<1>2. faults' = faults /\ crashes' = crashes /\ faults + crashes = 0
  BY <1>1
<1>3. ASSUME UNCHANGED counted, Still, status'[x] = c => status[x] = c PROVE Reckoned(x, c)'
  <2>1. Reached(x, c)
    BY <1>3 DEF Reached, Still, Busy
  <2>2. Reckoned(x, c)
    BY <1>2, <2>1 DEF ReckonInv
  <2> QED
    BY <1>3, <2>2 DEF Reckoned, Still, Busy
<1>4. ASSUME NEW b \in Batch, Receive(b) PROVE Reckoned(x, c)'
  BY <1>3, <1>4, ReceiveStep DEF Receive, outVars
<1>5. CASE SendStep
  <2>1. UNCHANGED counted /\ Still
    BY <1>5, SendAside, IdleStep
  <2>2. status'[x] = c => status[x] = c
    <3>1. ASSUME NEW y \in Media, Deliver(y) PROVE status'[x] = status[x]
      <4>1. status' = status \/ \E to : status' = [status EXCEPT ![y] = to]
        BY <3>1 DEF Deliver, DraftMedia, EnqueueMedia, BeginMedia, LookMedia, MediaJobFails, MediaOutage, Send, Mark,
              Catch, MarkFailed, EndMedia
      <4>2. x # y
        BY MessageConstAssumption
      <4> QED
        BY <4>1, <4>2 DEF DataTypeOK, OutTypeOK, Outbound
    <3>2. ASSUME NEW y \in Bulk, RecordBulk(y) PROVE status'[x] = c => status[x] = c
      <4>1. status' = [status EXCEPT ![y] = "sent"] /\ c # "sent"
        BY <3>2 DEF RecordBulk, Counter
      <4> QED
        BY <4>1 DEF DataTypeOK, OutTypeOK
    <3> QED
      BY <1>5, <3>1, <3>2 DEF SendStep, Broadcast, SendBulk, FindBulkChat, OpenBulkChat, Cleanup, vars, outVars
  <2> QED
    BY <1>3, <2>1, <2>2
<1>6. CASE Crash
  BY <1>1, <1>2, <1>6 DEF Crash
<1> QED
  BY <1>2, <1>4, <1>5, <1>6, NextSteps, HandleReckon

-----------------------------------------------------------------------------
(* The theorems.                                                            *)

FlowInv ==
    /\ DataTypeOK /\ JobInv /\ ToldInv /\ StatusInv /\ ThreadInv /\ UnreadInv /\ LadderInv
    /\ SendInv /\ ReckonInv

\* At first there is nothing.
LEMMA FlowInit == Init => FlowInv
<1> SUFFICES ASSUME Init PROVE FlowInv
  OBVIOUS
<1> USE DEF Init
<1>1. \A t \in Slot : pc[t] = "idle"
  OBVIOUS
<1>2. DataTypeOK
  <2>1. InTypeOK
    BY MessageConstAssumption DEF InTypeOK
  <2>2. MediaTypeOK
    BY DEF MediaTypeOK, MediaQueue!Init, State
  <2>3. OutTypeOK
    BY MessageConstAssumption DEF OutTypeOK
  <2> QED
    BY <2>1, <2>2, <2>3 DEF DataTypeOK
<1>3. JobInv
  <2>1. QueueTypeOK /\ Queued /\ Attempts /\ Serial
    <3>1. MaxAttempts \in Nat /\ 0 < MaxAttempts
      BY MessageConstAssumption
    <3>2. /\ state = [n \in JobId |-> "none"] /\ tries = [n \in JobId |-> 0]
          /\ payload = [n \in JobId |-> <<>>]
      BY DEF Queue!Init
    <3> HIDE DEF Init
    <3>3. QueueTypeOK
      BY <3>1, <3>2 DEF QueueTypeOK, State
    <3>4. Attempts
      BY <3>1, <3>2 DEF Attempts
    <3>5. \A n \in JobId : state[n] = "none"
      BY <3>2
    <3>6. Queued /\ Serial
      BY <3>5 DEF Queued, Serial
    <3> QED
      BY <3>3, <3>4, <3>6
  <2>2. SlotTypeOK /\ Holding /\ Alone
    BY RankFacts DEF SlotTypeOK, Holding, Alone, Busy, InboundStep, StatusStep
  <2> QED
    BY <2>1, <2>2 DEF JobInv
<1>4. ToldInv
  BY <1>1 DEF ToldInv, StoredIsTold
<1>5. StatusInv
  BY <1>1 DEF StatusInv
<1>6. ThreadInv
  BY <1>1 DEF ThreadInv, OneContact, OneChat, AnybodyOpens, BulkOpens
<1>7. UnreadInv
  BY <1>1 DEF UnreadInv, UnreadWell, Before
<1>8. LadderInv
  BY <1>1 DEF LadderInv, StatusWell, Counter
<1>9. SendInv
  BY DEF SendInv, MediaQueue!Init, Outbound
<1>10. ReckonInv
  BY <1>1 DEF ReckonInv, Reached, Counter, Outbound
<1> QED
  BY <1>2, <1>3, <1>4, <1>5, <1>6, <1>7, <1>8, <1>9, <1>10 DEF FlowInv

\* The invariant holds in every reachable state.
THEOREM FlowInvariant == Spec => []FlowInv
<1>1. FlowInv /\ [Next]_vars => FlowInv'
  BY TypesStep, JobsStep, ToldStep, StatusKept, ThreadStep, UnreadStep, LadderStep, SendInvStep, ReckonStep
     DEF FlowInv, DataTypeOK
<1> QED
  BY <1>1, FlowInit, PTL DEF Spec

\* Every variable keeps its type, and a slot under way is at an event of its
\* job's body.
THEOREM MessageTypes == Spec => []TypeOK
<1>1. FlowInv => TypeOK
  <2> SUFFICES ASSUME FlowInv PROVE TypeOK
    OBVIOUS
  <2>1. \A s \in Slot : /\ pc[s] # "idle" <=> job[s] # NoJob
                        /\ pc[s] \notin {"idle", "end"} => at[s] \in DOMAIN payload[job[s]]
    BY DEF FlowInv, JobInv, Holding, Busy
  <2>2. pc \in [Slot -> {"idle", "guard", "contact", "addContact", "chat", "open", "bump",
                         "store", "tell", "look", "set", "count", "end"}]
    BY DEF FlowInv, JobInv, SlotTypeOK, InboundStep, StatusStep
  <2> QED
    BY <2>1, <2>2 DEF FlowInv, DataTypeOK, InTypeOK, MediaTypeOK, OutTypeOK, JobInv, QueueTypeOK, SlotTypeOK,
                      TypeOK, Counter
<1> QED
  BY <1>1, FlowInvariant, PTL

\* Whatever is delivered twice, retried or restarted, bots, webhooks and agents
\* hear of a message at most once.
THEOREM Announcements == Spec => []ToldOnce
<1>1. FlowInv => ToldOnce
  BY DEF FlowInv, ToldInv, ToldOnce
<1> QED
  BY <1>1, FlowInvariant, PTL

\* And they do hear of a stored message, unless its first run broke off.
THEOREM NothingHidden == Spec => []StoredIsTold
<1>1. FlowInv => StoredIsTold
  BY DEF FlowInv, ToldInv
<1> QED
  BY <1>1, FlowInvariant, PTL

\* In its lane, and unless a run broke off in between, a message is counted
\* unread once.
THEOREM UnreadCounts == Spec => []UnreadOnce
<1>1. FlowInv => UnreadOnce
  <2> SUFFICES ASSUME FlowInv, NEW m \in Inbound, unread[m] > 1 PROVE m \in cut \/ Unordered(m)
    BY DEF UnreadOnce
  <2>1. unread[m] \in Nat
    BY DEF FlowInv, DataTypeOK, InTypeOK
  <2> QED
    BY <2>1 DEF FlowInv, UnreadInv, UnreadWell
<1> QED
  BY <1>1, FlowInvariant, PTL

\* A participant whose webhooks ran in one lane has one contact, and one
\* conversation if no broadcast was opening one beside them.
THEOREM Threads == Spec => []OneThread
<1>1. FlowInv => OneThread
  <2> SUFFICES ASSUME FlowInv, NEW p \in Person, ~Mixed(p)
               PROVE  ~(people[p] > 1) /\ (chats[p] > 1 => p \in raced)
    BY DEF OneThread
  <2>1. people[p] \in Nat /\ chats[p] \in Nat
    BY DEF FlowInv, DataTypeOK, InTypeOK
  <2> QED
    BY <2>1 DEF FlowInv, ThreadInv, OneContact, OneChat
<1> QED
  BY <1>1, FlowInvariant, PTL

\* In its lane a broadcast's message is counted delivered and read once each,
\* and no count is missed before something fails.
THEOREM BroadcastCounts == Spec => []CountedOnce
<1>1. FlowInv => CountedOnce
  <2> SUFFICES ASSUME FlowInv, NEW x \in Bulk, NEW c \in Counter
               PROVE  /\ counted[x][c] > 1 => Unordered(x)
                      /\ status[x] = c /\ faults + crashes = 0 => Reckoned(x, c)
    BY DEF CountedOnce, Counter
  <2>1. counted[x][c] \in Nat /\ x \in Outbound
    BY DEF FlowInv, DataTypeOK, OutTypeOK, Outbound, Counter
  <2>2. counted[x][c] > 1 => Unordered(x)
    BY <2>1 DEF FlowInv, LadderInv, StatusWell
  <2>3. status[x] = c /\ faults + crashes = 0 => Reckoned(x, c)
    BY DEF FlowInv, ReckonInv, Reached
  <2> QED
    BY <2>2, <2>3
<1> QED
  BY <1>1, FlowInvariant, PTL

\* In its lane a status never moves back, but for a failure that send-media has
\* written of a message Meta had accepted.
THEOREM LadderClimbs == Spec => ForwardOnly
<1> DEFINE Forward ==
        \A x \in Outbound :
            status[x] # "none" => \/ Rank[status'[x]] >= Rank[status[x]]
                                  \/ Unordered(x)
                                  \/ x \in Media /\ status[x] = "failed" /\ faults > 0
<1>1. FlowInv /\ [Next]_vars => Forward
  <2> SUFFICES ASSUME FlowInv, [Next]_vars, NEW x \in Outbound, status[x] # "none", ~Unordered(x),
                      ~(x \in Media /\ status[x] = "failed" /\ faults > 0)
               PROVE  Rank[status'[x]] >= Rank[status[x]]
    OBVIOUS
  <2>0. CASE status'[x] = status[x]
    <3>1. Rank[status[x]] \in Nat
      BY RankFacts DEF FlowInv, DataTypeOK, OutTypeOK
    <3> QED
      BY <2>0, <3>1
  <2>1. ASSUME NEW s \in Slot, Handle(s), status'[x] # status[x] PROVE Rank[status'[x]] >= Rank[status[x]]
    <3>1. SetStatus(s)
      BY <2>1 DEF Handle, Claim, Finish, HandlerFails, StoreRefused, Throw, Guard, FindContact, AddContact,
            FindChat, OpenChat, BumpChat, Store, Tell, Look, Count, outVars
    <3>2. status' = [status EXCEPT ![Event(s).id] = NewStatus(seen[s], Event(s).to)] /\ pc[s] = "set"
      BY <3>1 DEF SetStatus
    <3>3. Event(s).id = x /\ status'[x] = NewStatus(seen[s], Event(s).to)
      BY <2>1, <3>2 DEF FlowInv, DataTypeOK, OutTypeOK
    <3>4. Event(s).to \in Reported /\ seen[s] \in DOMAIN Rank
      BY <3>2, BusyFacts DEF FlowInv, StatusStep, JobInv, SlotTypeOK
    <3>5. seen[s] = status[x]
      BY <3>2, <3>3 DEF FlowInv, LadderInv, StatusWell
    <3> QED
      BY <3>3, <3>4, <3>5, NewStatusUp DEF Up
  <2>2. CASE SendStep /\ status'[x] # status[x]
    <3>1. ASSUME NEW y \in Bulk, RecordBulk(y) PROVE FALSE
      BY <2>2, <3>1 DEF RecordBulk, FlowInv, DataTypeOK, OutTypeOK
    <3>2. PICK y \in Media : DraftMedia(y) \/ Mark(y) \/ MarkFailed(y)
      BY <2>2, <3>1 DEF SendStep, Broadcast, SendBulk, FindBulkChat, OpenBulkChat, Cleanup, vars, outVars,
            Deliver, EnqueueMedia, BeginMedia, LookMedia, MediaJobFails, MediaOutage, Send, Catch, EndMedia
    <3>3. y = x
      BY <2>2, <3>2 DEF DraftMedia, Mark, MarkFailed, FlowInv, DataTypeOK, OutTypeOK
    <3>4. CASE Mark(x)
      <4>1. status[x] = "sending" /\ status'[x] = "sent"
        BY <3>3, <3>4 DEF Mark, MGoto, FlowInv, StatusInv, DataTypeOK, OutTypeOK
      <4> QED
        BY <4>1, RankFacts
    <3>5. CASE MarkFailed(x)
      <4>1. status'[x] = "failed" /\ status[x] \in DOMAIN Rank
        BY <2>2, <3>3, <3>5 DEF MarkFailed, FlowInv, DataTypeOK, OutTypeOK
      <4> QED
        BY <4>1, RankFacts
    <3> QED
      BY <3>2, <3>3, <3>4, <3>5 DEF DraftMedia
  <2> QED
    BY <2>0, <2>1, <2>2, NextSteps DEF Receive, Crash, outVars
<1> QED
  BY <1>1, FlowInvariant, PTL DEF Spec, ForwardOnly

\* Meta is asked for a message of send-media only while its row says sending, and
\* only once more for each restart and each cleanup that puts its job back.
THEOREM SentWhileSending == Spec => NeverResent
<1>1. FlowInv /\ [Next]_vars =>
      \A x \in Media : accepted'[x] # accepted[x] =>
          status[x] = "sending" /\ accepted'[x] <= 1 + crashes + cleanups
  <2> SUFFICES ASSUME FlowInv, [Next]_vars, NEW x \in Media, accepted'[x] # accepted[x]
               PROVE  status[x] = "sending" /\ accepted'[x] <= 1 + crashes + cleanups
    OBVIOUS
  <2>1. ASSUME NEW s \in Slot, Handle(s) PROVE accepted' = accepted
    BY <2>1 DEF Handle, Claim, Finish, HandlerFails, StoreRefused, Throw, Guard, FindContact, AddContact,
          FindChat, OpenChat, BumpChat, Store, Tell, Look, SetStatus, Count, outVars
  <2>2. ASSUME NEW y \in Bulk, Broadcast(y) PROVE accepted'[x] = accepted[x]
    <3>1. x # y
      BY MessageConstAssumption
    <3>2. accepted' = accepted \/ accepted' = [accepted EXCEPT ![y] = 1]
      BY <2>2 DEF Broadcast, SendBulk, FindBulkChat, OpenBulkChat, RecordBulk
    <3> QED
      BY <3>1, <3>2 DEF FlowInv, DataTypeOK, OutTypeOK, Outbound
  <2>3. PICK y \in Media : Deliver(y)
    BY <2>1, <2>2, NextSteps DEF SendStep, Cleanup, Receive, Crash, vars, outVars
  <2>4. Send(y)
    BY <2>3 DEF Deliver, DraftMedia, EnqueueMedia, BeginMedia, LookMedia, MediaJobFails, MediaOutage, Mark, Catch,
                MarkFailed, EndMedia
  <2>5. y = x
    BY <2>4 DEF Send, FlowInv, DataTypeOK, OutTypeOK
  <2>6. accepted'[x] <= 1 + crashes + cleanups
    <3>1. crashes' = crashes /\ cleanups' = cleanups
      BY <2>4 DEF Send, Fault, envVars
    <3> QED
      BY <3>1, SendInvStep DEF FlowInv, SendInv
  <2> QED
    BY <2>4, <2>5, <2>6 DEF Send, MGoto, FlowInv, StatusInv
<1> QED
  BY <1>1, FlowInvariant, PTL DEF Spec, NeverResent
=============================================================================
