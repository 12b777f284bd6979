----------------------- MODULE CourierBooking_proofs -----------------------
(***************************************************************************)
(* Proofs about CourierBooking for any number of couriers, requests,       *)
(* worker slots, attempts, rows, parcels, failures and restarts.           *)
(***************************************************************************)
EXTENDS CourierBooking, TLAPS

RowTypeOK ==
    /\ row \in Row
    /\ shop \in {"open", "fulfilled", "closed"}
    /\ parcel \in [Parcel -> {"none", "live", "dead"}]
    /\ maker \in [Parcel -> {NoJob} \cup Carrier \X (1..MaxRows)]
    /\ stray \subseteq Parcel /\ refused \subseteq Parcel /\ blind \subseteq Parcel
    /\ dropped \subseteq 1..MaxRows /\ blank \subseteq 0..MaxRows
    /\ events \in 0..MaxEvents

ActorTypeOK ==
    /\ pc \in [Actor -> RequestStep \cup SlotStep] /\ seen \in [Actor -> Row]
    /\ job \in [Slot -> JobId \cup {NoJob}] /\ open \in [Slot -> BOOLEAN]
    /\ hand \in [Slot -> {NoParcel} \cup Parcel]
    /\ flaw \in [Slot -> {"none", "permanent", "transient"}]
    /\ \A r \in Request : pc[r] \in RequestStep
    /\ \A s \in Slot : pc[s] \in SlotStep

QueueTypeOK ==
    /\ state \in [JobId -> {"none", "waiting", "running", "done", "dead"}]
    /\ tries \in [JobId -> 0..MaxAttempts]

\* A job that may run again has an attempt left.
Attempts == \A j \in JobId : state[j] \in {"none", "waiting", "running"} => tries[j] < MaxAttempts

\* A slot under way has a running job of its own, and no other of its lane runs.
Holding ==
    \A s \in Slot : /\ pc[s] # "idle" <=> job[s] # NoJob
                    /\ pc[s] # "idle" => state[job[s]] = "running"
Alone  == \A s, t \in Slot : job[s] = job[t] /\ job[s] # NoJob => s = t
Serial ==
    \A j, k \in JobId :
        state[j] = "running" /\ state[k] = "running" /\ Lane(j) = Lane(k) => j = k

JobInv == QueueTypeOK /\ ActorTypeOK /\ Attempts /\ Holding /\ Alone /\ Serial

\* A number stands for a parcel that was booked.
Numbered(copy) == copy.track # NoParcel => parcel[copy.track] # "none"

\* Ids grow: copies and jobs are of this row or of an earlier one.
CopyInv ==
    /\ Numbered(row) /\ (~Exists => row.track = NoParcel) /\ (Exists => row.id > 0)
    /\ \A a \in Actor : Numbered(seen[a]) /\ seen[a].id <= row.id
    /\ \A j \in JobId : state[j] # "none" => RowOf(j) <= row.id
    /\ \A p \in Parcel : parcel[p] # "none" => maker[p] # NoJob /\ maker[p][2] <= row.id
    /\ \A p \in blind : parcel[p] # "none"

\* What the requests and the job rely on in what they read.
Booking  == {"order", "call", "persist", "fulfil", "gid", "affirm", "catch"}
SlotPlace(s) ==
    /\ pc[s] \in Booking => seen[s].id = RowOf(job[s])
    /\ pc[s] = "revert" => seen[s].id = RowOf(job[s]) \/ seen[s].status = "none"
    /\ pc[s] \in {"call", "persist"} => seen[s].track = NoParcel
    /\ hand[s] # NoParcel <=> pc[s] = "persist"
    /\ hand[s] # NoParcel => parcel[hand[s]] # "none" /\ maker[hand[s]] = Lane(job[s])
RequestPlace(r) ==
    /\ pc[r] \in {"handover", "close"} => seen[r].courier = Manual
    /\ pc[r] = "drop" => seen[r].track = NoParcel
    /\ pc[r] \in {"pull", "enrich", "push"} => seen[r].track # NoParcel
    /\ pc[r] = "recall" => seen[r].status \notin {"delivered", "returned", "cancelled"}
    /\ pc[r] = "reread" => row.id > 0
    /\ pc[r] = "enqueue" => seen[r].id > 0
    /\ pc[r] \in {"unfulfil", "delete"} =>
           \/ seen[r].courier = Manual \/ seen[r].track = NoParcel
           \/ ~Live(seen[r].track) \/ seen[r].track \in refused
PlaceInv == (\A s \in Slot : SlotPlace(s)) /\ (\A r \in Request : RequestPlace(r))

\* ParcelIsKnown, and a parcel that was refused and has left the row was of a
\* row that is gone.
Known(p) ==
    \/ row.track = p \/ \E s \in Slot : hand[s] = p
    \/ p \in Lost
    \/ p \in refused /\ (maker[p][2] # row.id \/ ~Exists)
KnownInv == \A p \in Parcel : Live(p) => Known(p)

\* A job about to ask a courier has no parcel of its lane before it.
Asks(s)  == pc[s] \in {"order", "call"} /\ seen[s].track = NoParcel
AskInv   == \A s \in Slot : Asks(s) =>
                \A q \in Parcel : Live(q) /\ maker[q] = Lane(job[s]) => q \in Lost
LaneInv  == OneParcelPerLane /\ AskInv

\* A job past the courier has left its number on the row, if it is the same.
HasNumber == row.track # NoParcel \/ row.id \in blank
Past(s)   == pc[s] \in {"fulfil", "gid", "affirm"} \/ (pc[s] = "order" /\ seen[s].track # NoParcel)
PastInv   == \A s \in Slot : Past(s) /\ Exists /\ row.id = RowOf(job[s]) => HasNumber

\* BookedIsWorkedOn, of a job that is not about to end without a look at the row.
Leaving(s) == pc[s] = "revert" /\ ~NotBooked(seen[s])
Works(j)   == \/ state[j] = "waiting"
              \/ state[j] = "running" /\ \A s \in Slot : job[s] = j => ~Leaving(s)
Unbooked   == row.status # "booked" \/ row.courier = Manual \/ row.id \in dropped
WorkInv    == \/ Unbooked \/ HasNumber
              \/ \E j \in JobId : RowOf(j) = row.id /\ Works(j)
              \/ row.id \in Owed(Request)

BookingInv == RowTypeOK /\ JobInv /\ CopyInv /\ PlaceInv /\ KnownInv /\ LaneInv /\ PastInv /\ WorkInv

-----------------------------------------------------------------------------
(* Types.                                                                   *)

\* What is known of the constants.
LEMMA ConstFacts ==
    /\ MaxRows \in Nat /\ MaxParcels \in Nat /\ MaxEvents \in Nat /\ MaxJobs \in Nat
    /\ MaxAttempts \in Nat \ {0}
    /\ Manual \notin Courier /\ Request \cap Slot = {}
BY CourierConstAssumption

\* There is a row that is nobody's.
LEMMA NoRowFacts == NoRow \in Row /\ NoRow.id = 0 /\ NoRow.track = NoParcel /\ NoRow.status = "none"
<1>1. 0 \in 0..MaxRows /\ "none" \in Status /\ Manual \in Carrier /\ NoParcel \in {NoParcel} \cup Parcel
  BY ConstFacts DEF Status, Carrier
<1> QED
  BY <1>1 DEF NoRow, Row

FirstStep == {"claim", "create", "resolve", "drop", "flag", "recall", "withdraw",
              "receive", "pull", "enrich", "push"}

\* A request starts with a copy of the row, or with none.
LEMMA StartFacts ==
    ASSUME RowTypeOK, NEW r \in Request, RequestStarts(r)
    PROVE  \E to \in FirstStep, copy \in Row :
              /\ Start(r, to, copy)
              /\ \/ copy.id = 0 /\ copy.track = NoParcel
                 \/ copy.id = row.id /\ copy.track \in {row.track} \cup OnShopify
              /\ to = "drop" => copy.track = NoParcel
              /\ to \in {"pull", "enrich", "push"} => copy.track # NoParcel
              /\ to = "recall" => copy.status \notin {"delivered", "returned", "cancelled"}
<1> USE DEF RowTypeOK, FirstStep
<1>1. \A c \in Carrier : By(c) \in Row /\ By(c).id = 0 /\ By(c).track = NoParcel
  BY NoRowFacts DEF Row, By
<1>2. \A c \in Courier : c \in Carrier
  BY DEF Carrier
<1>3. ASSUME NEW c \in Carrier, Book(r, c) PROVE Start(r, "claim", By(c))
  BY <1>3 DEF Book
<1>4. ASSUME NEW c \in Courier, BulkBook(r, c) PROVE Start(r, "create", By(c))
  BY <1>4 DEF BulkBook
<1>5. ASSUME NEW c \in Courier, Resolve(r, c)
      PROVE  /\ Start(r, "resolve", [row EXCEPT !.courier = c])
             /\ [row EXCEPT !.courier = c] \in Row
             /\ [row EXCEPT !.courier = c].id = row.id /\ [row EXCEPT !.courier = c].track = row.track
  BY <1>2, <1>5 DEF Resolve, Row
<1>6. ASSUME \/ RevertAddressIssue(r) \/ MarkWrongAddress(r) \/ Unbook(r) \/ CancelOrder(r)
             \/ Receive(r) \/ (Tracked /\ Start(r, "pull", row)) \/ Push(r)
      PROVE  \E to \in FirstStep \ {"enrich"} :
                /\ Start(r, to, row)
                /\ to = "drop" => row.track = NoParcel
                /\ to \in {"pull", "push"} => row.track # NoParcel
                /\ to = "recall" => row.status \notin {"delivered", "returned", "cancelled"}
  BY <1>6 DEF RevertAddressIssue, MarkWrongAddress, Unbook, CancelOrder, Receive, Pull, Push, Tracked
<1>7. ASSUME NEW p \in OnShopify, Start(r, "enrich", [row EXCEPT !.track = p])
      PROVE  /\ [row EXCEPT !.track = p] \in Row /\ p # NoParcel
             /\ [row EXCEPT !.track = p].id = row.id /\ [row EXCEPT !.track = p].track = p
  BY DEF OnShopify, Row, Parcel, NoParcel
<1>8. Pull(r) => \/ Tracked /\ Start(r, "pull", row)
                 \/ \E p \in OnShopify : Start(r, "enrich", [row EXCEPT !.track = p])
  BY DEF Pull
<1>9. CASE \E p \in OnShopify : Start(r, "enrich", [row EXCEPT !.track = p])
  BY <1>7, <1>9
<1> QED
  BY <1>1, <1>2, <1>3, <1>4, <1>5, <1>6, <1>8, <1>9 DEF RequestStarts

\* What a step of a request does to its place and its copy, and leaves alone.
RequestFrame(r) ==
    /\ UNCHANGED <<maker, stray, tries, slotVars>>
    /\ pc' = [pc EXCEPT ![r] = pc'[r]] /\ seen' = [seen EXCEPT ![r] = seen'[r]]
    /\ pc'[r] \in RequestStep /\ seen'[r] \in Row

\* The fields of a row can be set to what they may hold.
LEMMA RowFacts ==
    ASSUME RowTypeOK
    PROVE  /\ NoRow \in Row /\ Gone \in Row
           /\ Gone.id = row.id /\ Gone.track = NoParcel /\ Gone.status = "none"
<1>1. "none" \in Status /\ Manual \in Carrier /\ NoParcel \in {NoParcel} \cup Parcel
  BY DEF Status, Carrier
<1> QED
  BY <1>1, NoRowFacts DEF RowTypeOK, Gone, Row

\* The row a claim or a bulk booking writes.
LEMMA ClaimFacts ==
    ASSUME RowTypeOK, NEW c \in Carrier, NEW status \in {"booked", "address_issue"},
           Create(status, c) \/ Reuse(status, c)
    PROVE  /\ row' \in Row /\ row'.status = status /\ row'.courier = c
           /\ \/ ~Exists /\ row'.id = row.id + 1 /\ row'.track = NoParcel
              \/ Exists /\ row'.id = row.id /\ row'.track = row.track
<1>1. row \in [id : 0..MaxRows, status : Status, courier : Carrier,
               track : {NoParcel} \cup Parcel, ful : BOOLEAN, received : BOOLEAN]
  BY DEF RowTypeOK, Row
<1>2. status \in Status /\ NoParcel \in {NoParcel} \cup Parcel
  BY DEF Status
<1>3. CASE Create(status, c)
  <2>1. /\ row' = [id |-> row.id + 1, status |-> status, courier |-> c,
                   track |-> NoParcel, ful |-> FALSE, received |-> FALSE]
        /\ ~Exists /\ row.id < MaxRows
    BY <1>1, <1>3 DEF Create, Gone
  <2>2. row.id + 1 \in 0..MaxRows
    BY <1>1, <2>1, ConstFacts
  <2> QED
    BY <1>2, <2>1, <2>2 DEF Row
<1>4. CASE Reuse(status, c)
  <2>1. row' = [id |-> row.id, status |-> status, courier |-> c,
                track |-> row.track, ful |-> row.ful, received |-> row.received]
    BY <1>1, <1>4 DEF Reuse
  <2> QED
    BY <1>1, <1>2, <1>4, <2>1 DEF Row, Reuse, Exists
<1> QED
  BY <1>3, <1>4

\* Ways in which a copy is kept or exchanged.
LEMMA CopyFacts ==
    ASSUME ActorTypeOK, NEW a \in Actor
    PROVE  /\ UNCHANGED seen => seen' = [seen EXCEPT ![a] = seen'[a]] /\ seen'[a] \in Row
           /\ \A copy \in Row :
                 seen' = [seen EXCEPT ![a] = copy]
                    => seen' = [seen EXCEPT ![a] = seen'[a]] /\ seen'[a] = copy
           /\ \A from, to : Goto(a, from, to) => pc' = [pc EXCEPT ![a] = pc'[a]] /\ pc'[a] = to
BY DEF ActorTypeOK, Goto

LEMMA RequestFrames ==
    ASSUME RowTypeOK, ActorTypeOK, NEW r \in Request,
           RequestStarts(r) \/ RequestGoesOn(r) \/ RequestFails(r)
    PROVE  RequestFrame(r)
<1> USE CopyFacts, NoRowFacts, RowFacts DEF RequestFrame, worldVars, queueVars
<1>a. r \in Actor /\ pc[r] \in RequestStep /\ seen[r] \in Row
  BY DEF Actor, ActorTypeOK
<1>b. ASSUME NEW from, End(r, from)
      PROVE  /\ pc' = [pc EXCEPT ![r] = pc'[r]] /\ pc'[r] = "idle"
             /\ seen' = [seen EXCEPT ![r] = seen'[r]] /\ seen'[r] \in Row
  BY <1>a, <1>b DEF End
<1>c. "idle" \in RequestStep
  BY DEF RequestStep
<1>1. CASE RequestStarts(r)
  <2>1. PICK to \in FirstStep, copy \in Row : Start(r, to, copy)
    BY <1>1, StartFacts
  <2>2. to \in RequestStep
    BY DEF FirstStep, RequestStep
  <2>3. UNCHANGED <<maker, stray, tries, slotVars>> /\ Goto(r, "idle", to)
        /\ seen' = [seen EXCEPT ![r] = copy]
    BY <2>1 DEF Start
  <2>4. seen' = [seen EXCEPT ![r] = seen'[r]] /\ seen'[r] \in Row
    BY <1>a, <2>3
  <2>5. pc' = [pc EXCEPT ![r] = pc'[r]] /\ pc'[r] \in RequestStep
    BY <1>a, <2>2, <2>3 DEF Goto, ActorTypeOK
  <2> QED
    BY <2>3, <2>4, <2>5
<1>2. CASE ClaimShipment(r)
  <2>1. UNCHANGED <<maker, stray, tries, slotVars>>
    BY <1>2 DEF ClaimShipment
  <2>2. CASE End(r, "claim")
    BY <1>b, <1>c, <2>1, <2>2
  <2>3. CASE \E status \in {"booked", "address_issue"}, to \in {"handover", "enqueue", "idle"} :
                 /\ Create(status, seen[r].courier) \/ Reuse(status, seen[r].courier)
                 /\ Goto(r, "claim", to) /\ seen' = [seen EXCEPT ![r] = row']
    <3>1. PICK status \in {"booked", "address_issue"}, to \in {"handover", "enqueue", "idle"} :
                 /\ Create(status, seen[r].courier) \/ Reuse(status, seen[r].courier)
                 /\ Goto(r, "claim", to) /\ seen' = [seen EXCEPT ![r] = row']
      BY <2>3
    <3>2. seen[r].courier \in Carrier
      BY <1>a DEF Row
    <3>3. row' \in Row
      BY <3>1, <3>2, ClaimFacts
    <3>4. to \in RequestStep
      BY DEF RequestStep
    <3> QED
      BY <1>a, <2>1, <3>1, <3>3, <3>4
  <2> QED
    BY <1>2, <2>2, <2>3 DEF ClaimShipment
<1>3. CASE Handover(r) \/ CreateMany(r) \/ Void(r) \/ Unfulfil(r)
  <2>1. UNCHANGED <<maker, stray, tries, slotVars, seen>>
    BY <1>3 DEF Handover, CreateMany, Void, Unfulfil
  <2>2. \E from, to \in RequestStep : Goto(r, from, to)
    BY <1>3 DEF Handover, CreateMany, Void, Unfulfil, RequestStep
  <2> QED
    BY <1>a, <2>1, <2>2
<1>4. CASE Recall(r, "recall", "unfulfil") \/ Recall(r, "withdraw", "void")
  <2>1. UNCHANGED <<maker, stray, tries, slotVars, seen>>
    BY <1>4 DEF Recall
  <2>2. \E from, to \in RequestStep : Goto(r, from, to)
    BY <1>4 DEF Recall, RequestStep
  <2> QED
    BY <1>a, <2>1, <2>2
<1>5. CASE Close(r) \/ Enqueue(r) \/ Drop(r) \/ Delete(r) \/ Flag(r) \/ Shut(r) \/ RequestFails(r)
        \/ Stamp(r) \/ Enrich(r)
  <2>1. UNCHANGED <<maker, stray, slotVars>>
    BY <1>5 DEF Close, Enqueue, Drop, Delete, Remove, Flag, Shut, RequestFails, Stamp, Enrich
  <2>2. UNCHANGED tries
    BY <1>5 DEF Close, Enqueue, Drop, Delete, Remove, Flag, Shut, RequestFails, Stamp, Enrich, Queue!Submit
  <2>3. \E from : End(r, from)
    BY <1>5 DEF Close, Enqueue, Drop, Delete, Remove, Flag, Shut, RequestFails, Stamp, Enrich
  <2> QED
    BY <1>b, <1>c, <2>1, <2>2, <2>3
<1>6. CASE Reread(r)
  <2>1. UNCHANGED <<maker, stray, tries, slotVars>>
    BY <1>6 DEF Reread
  <2>2. "enqueue" \in RequestStep /\ row \in Row
    BY DEF RequestStep, RowTypeOK
  <2> QED
    BY <1>a, <1>b, <1>c, <1>6, <2>1, <2>2 DEF Reread
<1>7. CASE ResolveWrite(r) \/ ReceiveWrite(r)
  <2>1. UNCHANGED <<maker, stray, tries, slotVars>>
    BY <1>7 DEF ResolveWrite, ReceiveWrite, Write
  <2>2. \/ \E from, to \in RequestStep : Goto(r, from, to) /\ UNCHANGED seen
        \/ \E from : End(r, from)
    BY <1>7 DEF ResolveWrite, ReceiveWrite, Write, RequestStep
  <2> QED
    BY <1>a, <1>b, <1>c, <2>1, <2>2
<1> QED
  BY <1>1, <1>2, <1>3, <1>4, <1>5, <1>6, <1>7 DEF RequestGoesOn

\* The row of a copy that is taken: what requests and jobs write over it.
OldRow == row.track \in {NoParcel, row'.track} \/ (row.track \in blind' /\ row.id \in blank')

\* What any step may do to the row: a new one, or one under the same id whose
\* number is kept, given up knowingly or erased, or another of its numbers.
NewRow  == ~Exists /\ Exists' /\ row'.id = row.id + 1 /\ row'.track = NoParcel
SameRow ==
    /\ row'.id = row.id /\ (Exists' => Exists) /\ (~Exists' => row'.track = NoParcel)
    /\ \/ row'.track \in {NoParcel, row.track}
       \/ Exists /\ Numbered(row)'
    /\ \/ OldRow
       \/ ~Exists' /\ (parcel'[row.track] # "live" \/ row.track \in refused')

\* What a request may do to the parcels.
ParcelsKept ==
    /\ \A p \in Parcel : parcel'[p] = parcel[p] \/ (parcel[p] # "none" /\ parcel'[p] = "dead")
    /\ refused \subseteq refused' /\ blind \subseteq blind' /\ dropped \subseteq dropped'
    /\ blank \subseteq blank'
    /\ \A p \in blind' : p \in blind \/ p = row.track

WorldMove == RowTypeOK' /\ (NewRow \/ SameRow) /\ ParcelsKept

\* A step that leaves the world alone.
LEMMA WorldSame ==
    ASSUME RowTypeOK, CopyInv, UNCHANGED <<row, worldVars, ghostVars>>,
           Event \/ UNCHANGED events
    PROVE  WorldMove
<1>1. RowTypeOK'
  BY ConstFacts DEF RowTypeOK, worldVars, ghostVars, Event
<1>2. SameRow
  BY DEF SameRow, OldRow, Exists, CopyInv
<1> QED
  BY <1>1, <1>2 DEF WorldMove, ParcelsKept, worldVars, ghostVars

\* A step that writes the row under the eyes of Overlook.
LEMMA WriteMove ==
    ASSUME RowTypeOK, CopyInv, ActorTypeOK, NEW a \in Actor, Still(a),
           row' \in Row, row'.id = row.id, ~Exists' => row'.track = NoParcel,
           row'.track \in {NoParcel, row.track, seen[a].track} \/ Numbered(row)',
           UNCHANGED <<shop, maker, stray, refused, dropped, events>>,
           parcel' \in [Parcel -> {"none", "live", "dead"}],
           \A p \in Parcel : parcel'[p] = parcel[p] \/ (parcel[p] # "none" /\ parcel'[p] = "dead"),
           Overlook(a) \/ (UNCHANGED <<blind, blank>> /\ row'.track = row.track),
           \/ seen[a].track # row.track \/ seen[a].courier = Manual \/ row'.track = row.track
           \/ row.track = NoParcel
           \/ ~Exists' /\ (parcel'[row.track] # "live" \/ row.track \in refused')
    PROVE  WorldMove
<1>1. row.track \in {NoParcel} \cup Parcel /\ row.id \in 0..MaxRows
  BY DEF RowTypeOK, Row
<1>2. RowTypeOK'
  BY <1>1 DEF RowTypeOK, Overlook
<1>3. SameRow
  <2>1. \/ OldRow
        \/ ~Exists' /\ (parcel'[row.track] # "live" \/ row.track \in refused')
    BY DEF OldRow, Overlook, Knew
  <2>2. row'.track = seen[a].track => Numbered(row)'
    BY DEF CopyInv, Numbered, Still, ActorTypeOK, Row
  <2> QED
    BY <2>1, <2>2 DEF SameRow, Still
<1>4. ParcelsKept
  BY DEF ParcelsKept, Overlook
<1> QED
  BY <1>2, <1>3, <1>4 DEF WorldMove

\* A new or reused row.
LEMMA ClaimMove ==
    ASSUME RowTypeOK, CopyInv, NEW c \in Carrier, NEW status \in {"booked", "address_issue"},
           Create(status, c) \/ Reuse(status, c), UNCHANGED <<worldVars, ghostVars, events>>
    PROVE  WorldMove
<1>1. /\ row' \in Row /\ row'.status = status /\ row'.courier = c
      /\ \/ ~Exists /\ row'.id = row.id + 1 /\ row'.track = NoParcel
         \/ Exists /\ row'.id = row.id /\ row'.track = row.track
  BY ClaimFacts
<1>2. Exists' /\ RowTypeOK'
  BY <1>1 DEF RowTypeOK, Exists, worldVars, ghostVars
<1>3. NewRow \/ SameRow
  BY <1>1, <1>2 DEF NewRow, SameRow, OldRow
<1> QED
  BY <1>2, <1>3 DEF WorldMove, ParcelsKept, worldVars, ghostVars

\* A step that only touches the Shopify order.
LEMMA ShopMove ==
    ASSUME RowTypeOK, CopyInv, shop' \in {"open", "fulfilled", "closed"},
           UNCHANGED <<row, parcel, maker, stray, refused, ghostVars>>, Event \/ UNCHANGED events
    PROVE  WorldMove
<1>1. RowTypeOK'
  BY ConstFacts DEF RowTypeOK, ghostVars, Event
<1>2. SameRow
  BY DEF SameRow, OldRow, Exists, CopyInv
<1> QED
  BY <1>1, <1>2 DEF WorldMove, ParcelsKept, ghostVars

\* A new status leaves the number alone.
LEMMA StatusMove ==
    ASSUME RowTypeOK, CopyInv, Exists, row' \in Row, row'.status # "none",
           row'.id = row.id, row'.track = row.track, UNCHANGED <<worldVars, ghostVars, events>>
    PROVE  WorldMove
<1>1. RowTypeOK' /\ Exists'
  BY DEF RowTypeOK, worldVars, ghostVars, Exists
<1>2. SameRow
  BY <1>1 DEF SameRow, OldRow
<1> QED
  BY <1>1, <1>2 DEF WorldMove, ParcelsKept, worldVars, ghostVars

\* The rows whose job a request has yet to store are rows there are.
LEMMA OwedFacts ==
    ASSUME RowTypeOK, ActorTypeOK, PlaceInv
    PROVE  Owed(Request) \subseteq 1..MaxRows /\ \A r \in Request : Owed({r}) \subseteq Owed(Request)
<1>1. \A r \in Request : r \in Actor /\ seen[r].id \in 0..MaxRows /\ row.id \in 0..MaxRows
  BY DEF Actor, ActorTypeOK, RowTypeOK, Row
<1> QED
  BY <1>1, ConstFacts DEF Owed, PlaceInv, RequestPlace

LEMMA RequestMoves ==
    ASSUME RowTypeOK, ActorTypeOK, CopyInv, PlaceInv, NEW r \in Request,
           RequestStarts(r) \/ RequestGoesOn(r) \/ RequestFails(r)
    PROVE  WorldMove
<1>a. r \in Actor /\ seen[r] \in Row /\ row \in Row
  BY DEF Actor, ActorTypeOK, RowTypeOK
<1>1. CASE RequestStarts(r)
  <2>1. PICK to \in FirstStep, copy \in Row : Start(r, to, copy)
    BY <1>1, StartFacts
  <2> QED
    BY <2>1, WorldSame DEF Start
<1>2. CASE ClaimShipment(r)
  <2>1. seen[r].courier \in Carrier /\ UNCHANGED <<worldVars, ghostVars, events>>
    BY <1>a, <1>2 DEF Row, ClaimShipment
  <2>2. CASE UNCHANGED row
    BY <2>1, <2>2, WorldSame
  <2>3. CASE \E status \in {"booked", "address_issue"} :
                 Create(status, seen[r].courier) \/ Reuse(status, seen[r].courier)
    BY <2>1, <2>3, ClaimMove
  <2> QED
    BY <1>2, <2>2, <2>3 DEF ClaimShipment
<1>3. CASE Handover(r) \/ Unfulfil(r) \/ Shut(r)
  <2>1. /\ UNCHANGED <<row, parcel, maker, stray, refused, ghostVars>>
        /\ Event \/ UNCHANGED events
    BY <1>3 DEF Handover, Unfulfil, Shut
  <2>2. shop' \in {"open", "fulfilled", "closed"}
    BY <1>3 DEF Handover, Unfulfil, Shut, RowTypeOK
  <2> QED
    BY <2>1, <2>2, ShopMove
<1>4. CASE Reread(r) \/ Enqueue(r)
  BY <1>4, WorldSame DEF Reread, Enqueue
<1>5. CASE CreateMany(r)
  <2>1. seen[r].courier \in Carrier /\ UNCHANGED <<worldVars, ghostVars, events>>
    BY <1>a, <1>5 DEF Row, CreateMany
  <2>2. CASE UNCHANGED row
    BY <2>1, <2>2, WorldSame
  <2>3. CASE \E status \in {"booked", "address_issue"} : Create(status, seen[r].courier)
    BY <2>1, <2>3, ClaimMove
  <2> QED
    BY <1>5, <2>2, <2>3 DEF CreateMany
<1>6. CASE Close(r)
  <2>1. pc[r] = "close" /\ UNCHANGED <<worldVars, events>>
    BY <1>6 DEF Close, End, Goto
  <2>2. seen[r].courier = Manual
    BY <2>1 DEF PlaceInv, RequestPlace
  <2>3. CASE Still(r)
    <3>1. row' = [row EXCEPT !.status = "delivered", !.track = NoParcel, !.ful = TRUE] /\ Overlook(r)
      BY <1>6, <2>3 DEF Close
    <3>2. /\ row' \in Row /\ row'.id = row.id /\ row'.status = "delivered" /\ row'.track = NoParcel
      BY <1>a, <3>1 DEF Row, Status
    <3>3. UNCHANGED dropped /\ parcel' \in [Parcel -> {"none", "live", "dead"}]
      BY <2>1, <3>1 DEF Overlook, RowTypeOK, worldVars
    <3> QED
      BY <1>a, <2>1, <2>2, <2>3, <3>1, <3>2, <3>3, WriteMove DEF worldVars
  <2>4. CASE ~Still(r)
    BY <1>6, <2>1, <2>4, WorldSame DEF Close
  <2> QED
    BY <2>3, <2>4
<1>7. CASE ResolveWrite(r) \/ ReceiveWrite(r)
  <2>1. UNCHANGED <<worldVars, ghostVars, events>>
    BY <1>7 DEF ResolveWrite, ReceiveWrite, Write
  <2>2. CASE ~Still(r)
    <3>1. UNCHANGED row
      BY <1>7, <2>2 DEF ResolveWrite, ReceiveWrite, Write
    <3> QED
      BY <2>1, <3>1, WorldSame
  <2>3. CASE Still(r)
    <3>1. \/ row' = [row EXCEPT !.status = "booked", !.courier = seen[r].courier]
          \/ row' = [row EXCEPT !.status = "failed", !.received = TRUE]
      BY <1>7, <2>3 DEF ResolveWrite, ReceiveWrite, Write
    <3>2. row' \in Row /\ row'.id = row.id /\ row'.track = row.track /\ row'.status # "none"
      BY <1>a, <3>1 DEF Row, Status
    <3> QED
      BY <2>1, <2>3, <3>2, StatusMove DEF Still
  <2> QED
    BY <2>2, <2>3
<1>8. ASSUME NEW from \in {"drop", "delete"}, Remove(r, from) PROVE WorldMove
  <2>1. pc[r] = from /\ UNCHANGED <<worldVars, events>>
    BY <1>8 DEF Remove, End, Goto
  <2>2. CASE Still(r)
    <3>1. row' = Gone /\ Overlook(r)
      BY <1>8, <2>2 DEF Remove
    <3>2. row' \in Row /\ row'.id = row.id /\ ~Exists' /\ row'.track = NoParcel
      BY <3>1, RowFacts DEF Exists
    <3>3. UNCHANGED dropped /\ parcel' \in [Parcel -> {"none", "live", "dead"}]
      BY <2>1, <3>1 DEF Overlook, RowTypeOK, worldVars
    <3>4. \/ seen[r].track # row.track \/ seen[r].courier = Manual \/ row.track = NoParcel
          \/ ~Exists' /\ (parcel'[row.track] # "live" \/ row.track \in refused')
      BY <2>1, <3>2 DEF PlaceInv, RequestPlace, Live, worldVars
    <3> QED
      BY <1>a, <2>1, <2>2, <3>1, <3>2, <3>3, <3>4, WriteMove DEF worldVars
  <2>3. CASE ~Still(r)
    BY <1>8, <2>1, <2>3, WorldSame DEF Remove
  <2> QED
    BY <2>2, <2>3
<1>9. CASE Flag(r)
  <2>1. UNCHANGED <<worldVars, ghostVars, events>>
    BY <1>9 DEF Flag
  <2>2. ASSUME NEW c \in (IF seen[r].status = "none" THEN Courier ELSE {seen[r].courier}),
               Create("address_issue", c)
        PROVE  WorldMove
    <3>1. c \in Carrier
      BY <1>a DEF Carrier, Row
    <3> QED
      BY <2>1, <2>2, <3>1, ClaimMove
  <2>3. CASE Exists /\ row' = [row EXCEPT !.status = "address_issue"]
    <3>1. row' \in Row /\ row'.id = row.id /\ row'.track = row.track /\ row'.status # "none"
      BY <1>a, <2>3 DEF Row, Status
    <3> QED
      BY <2>1, <2>3, <3>1, StatusMove
  <2> QED
    BY <1>9, <2>2, <2>3 DEF Flag
<1>10. ASSUME NEW from, NEW to, Recall(r, from, to) PROVE WorldMove
  <2>1. UNCHANGED <<row, shop, maker, stray, ghostVars>> /\ (Event \/ UNCHANGED events)
    BY <1>10 DEF Recall
  <2>2. \/ UNCHANGED <<parcel, refused>>
        \/ /\ HasBooking(seen[r]) /\ parcel' = [parcel EXCEPT ![seen[r].track] = "dead"]
           /\ UNCHANGED refused
        \/ HasBooking(seen[r]) /\ refused' = refused \cup {seen[r].track} /\ UNCHANGED parcel
    BY <1>10 DEF Recall
  <2>3. HasBooking(seen[r]) => seen[r].track \in Parcel /\ parcel[seen[r].track] # "none"
    BY <1>a DEF HasBooking, CopyInv, Numbered, Row
  <2>4. /\ parcel' \in [Parcel -> {"none", "live", "dead"}] /\ refused' \subseteq Parcel
        /\ \A p \in Parcel : parcel'[p] = parcel[p] \/ (parcel[p] # "none" /\ parcel'[p] = "dead")
        /\ refused \subseteq refused'
    BY <2>2, <2>3 DEF RowTypeOK
  <2>5. RowTypeOK'
    BY <2>1, <2>4, ConstFacts DEF RowTypeOK, ghostVars, Event
  <2>6. SameRow
    BY <2>1 DEF SameRow, OldRow, Exists, CopyInv
  <2> QED
    BY <2>1, <2>4, <2>5, <2>6 DEF WorldMove, ParcelsKept, ghostVars
<1>11. CASE Void(r)
  <2>1. UNCHANGED <<worldVars, ghostVars, events>>
    BY <1>11 DEF Void
  <2>2. CASE UNCHANGED row
    BY <2>1, <2>2, WorldSame
  <2>3. CASE Still(r) /\ row' = [row EXCEPT !.status = "cancelled"]
    <3>1. row' \in Row /\ row'.id = row.id /\ row'.track = row.track /\ row'.status # "none"
      BY <1>a, <2>3 DEF Row, Status
    <3> QED
      BY <2>1, <2>3, <3>1, StatusMove DEF Still
  <2> QED
    BY <1>11, <2>2, <2>3 DEF Void
<1>12. CASE Stamp(r)
  <2>1. PICK to \in {"in_transit", "failed", "delivered", "returned"} \ {seen[r].status} :
          /\ row' = IF Still(r)
                       THEN [row EXCEPT !.status = to,
                                        !.track = IF pc[r] = "push" THEN row.track ELSE seen[r].track]
                       ELSE row
          /\ parcel' = [parcel EXCEPT ![seen[r].track] = IF to = "returned" THEN "dead" ELSE @]
    BY <1>12 DEF Stamp
  <2>2. /\ UNCHANGED <<shop, maker, stray, refused, dropped, events>> /\ Overlook(r)
        /\ pc[r] \in {"pull", "enrich", "push"}
    BY <1>12 DEF Stamp, Overlook
  <2>3. seen[r].track \in Parcel /\ parcel[seen[r].track] # "none"
    BY <1>a, <2>2 DEF PlaceInv, RequestPlace, CopyInv, Numbered, Row
  <2>4. /\ parcel' \in [Parcel -> {"none", "live", "dead"}]
        /\ \A p \in Parcel : parcel'[p] = parcel[p] \/ (parcel[p] # "none" /\ parcel'[p] = "dead")
    BY <2>1, <2>3 DEF RowTypeOK
  <2>5. CASE Still(r)
    <3>1. /\ row' \in Row /\ row'.id = row.id /\ row'.status # "none"
          /\ row'.track \in {row.track, seen[r].track}
      BY <1>a, <2>1, <2>5 DEF Row, Status
    <3>2. Exists'
      BY <3>1 DEF Exists
    <3> QED
      BY <1>a, <2>2, <2>4, <2>5, <3>1, <3>2, WriteMove
  <2>6. CASE ~Still(r)
    <3>1. row' = row /\ UNCHANGED <<blind, blank>>
      BY <2>1, <2>2, <2>6 DEF Overlook, RowTypeOK, Row
    <3>2. RowTypeOK'
      BY <2>2, <2>4, <3>1 DEF RowTypeOK
    <3>3. SameRow
      BY <3>1 DEF SameRow, OldRow, Exists, CopyInv
    <3> QED
      BY <2>2, <2>4, <3>1, <3>2, <3>3 DEF WorldMove, ParcelsKept
  <2> QED
    BY <2>5, <2>6
<1>13. CASE RequestFails(r)
  <2>1. UNCHANGED <<row, worldVars, blind, blank>> /\ Event /\ dropped' = dropped \cup Owed({r})
    BY <1>13 DEF RequestFails
  <2>2. Owed({r}) \subseteq 1..MaxRows
    BY OwedFacts
  <2>3. dropped' \subseteq 1..MaxRows
    <3>1. dropped \subseteq 1..MaxRows
      BY DEF RowTypeOK
    <3> QED
      BY <2>1, <2>2, <3>1
  <2>4. RowTypeOK'
    BY <2>1, <2>3, ConstFacts DEF RowTypeOK, worldVars, Event
  <2>5. SameRow
    BY <2>1 DEF SameRow, OldRow, Exists, CopyInv
  <2> QED
    BY <2>1, <2>4, <2>5 DEF WorldMove, ParcelsKept, worldVars
<1>14. CASE Enrich(r)
  <2>1. UNCHANGED <<worldVars, dropped, events>> /\ Overlook(r) /\ pc[r] = "enrich"
    BY <1>14 DEF Enrich, Overlook, End, Goto
  <2>2. parcel' \in [Parcel -> {"none", "live", "dead"}]
    BY <2>1 DEF RowTypeOK, worldVars
  <2>3. CASE Still(r)
    <3>1. row' = [row EXCEPT !.track = seen[r].track]
      BY <1>14, <2>3 DEF Enrich
    <3>2. row' \in Row /\ row'.id = row.id /\ row'.status = row.status /\ row'.track = seen[r].track
      BY <1>a, <3>1 DEF Row
    <3>3. Exists'
      BY <2>3, <3>2 DEF Exists, Still
    <3> QED
      BY <1>a, <2>1, <2>2, <2>3, <3>2, <3>3, WriteMove DEF worldVars
  <2>4. CASE ~Still(r)
    <3>1. row' = row
      BY <1>14, <2>4 DEF Enrich
    <3>2. UNCHANGED <<blind, blank>>
      BY <2>1, <3>1 DEF Overlook, RowTypeOK, Row
    <3> QED
      BY <2>1, <3>1, <3>2, WorldSame DEF ghostVars
  <2> QED
    BY <2>3, <2>4
<1> QED
  BY <1>1, <1>2, <1>3, <1>4, <1>5, <1>6, <1>7, <1>8, <1>9, <1>10, <1>11, <1>12, <1>13, <1>14
     DEF RequestGoesOn, Drop, Delete

-----------------------------------------------------------------------------
(* Requests keep the jobs, the copies and the places.                       *)

\* A request stores at most one job, of the row it has read.
LEMMA RequestQueue ==
    ASSUME NEW r \in Request, RequestStarts(r) \/ RequestGoesOn(r) \/ RequestFails(r)
    PROVE  \/ UNCHANGED state
           \/ \E j \in JobId : /\ pc[r] = "enqueue" /\ Lane(j) = <<seen[r].courier, seen[r].id>>
                               /\ Queue!Submit(j)
BY DEF RequestStarts, Book, BulkBook, Resolve, RevertAddressIssue, MarkWrongAddress, Unbook,
       CancelOrder, Receive, Pull, Push, Start, RequestGoesOn, ClaimShipment, Handover, Close,
       CreateMany, Reread, Enqueue, ResolveWrite, ReceiveWrite, Write, Drop, Delete, Remove,
       Flag, Recall, Unfulfil, Void, Shut, Stamp, Enrich, RequestFails, End, Goto, queueVars

\* Jobs are not mistaken for none.
LEMMA JobFacts ==
    /\ \A j \in JobId : /\ j # NoJob /\ Lane(j) # NoJob /\ RowOf(j) \in 1..MaxRows
                        /\ Lane(j) \in Carrier \X (1..MaxRows) /\ Lane(j)[2] = RowOf(j)
    /\ \A l \in Carrier \X (1..MaxRows) : l # NoJob
BY DEF JobId, NoJob, Lane, RowOf

LEMMA SubmitFacts ==
    ASSUME QueueTypeOK, NEW j \in JobId, Queue!Submit(j)
    PROVE  state[j] = "none" /\ state' = [state EXCEPT ![j] = "waiting"] /\ UNCHANGED tries
BY DEF Queue!Submit, Queue!Set

\* Slots stay where they are.
SlotsStay == \A s \in Slot : pc'[s] = pc[s] /\ seen'[s] = seen[s]

LEMMA RequestSlots ==
    ASSUME ActorTypeOK, NEW r \in Request, RequestFrame(r)
    PROVE  /\ SlotsStay
           /\ \A q \in Request : q # r => pc'[q] = pc[q] /\ seen'[q] = seen[q]
           /\ ActorTypeOK'
<1>1. \A a \in Actor : a # r => pc'[a] = pc[a] /\ seen'[a] = seen[a]
  BY DEF RequestFrame, ActorTypeOK
<1>2. Actor = Request \cup Slot /\ r \notin Slot
  BY ConstFacts DEF Actor
<1>3. SlotsStay /\ \A q \in Request : q # r => pc'[q] = pc[q] /\ seen'[q] = seen[q]
  BY <1>1, <1>2 DEF SlotsStay
<1>4. pc' \in [Actor -> RequestStep \cup SlotStep] /\ seen' \in [Actor -> Row]
  BY <1>2 DEF RequestFrame, ActorTypeOK
<1>5. \A q \in Request : pc'[q] \in RequestStep
  BY <1>3 DEF RequestFrame, ActorTypeOK
<1>6. \A s \in Slot : pc'[s] \in SlotStep
  BY <1>3 DEF SlotsStay, ActorTypeOK
<1> QED
  BY <1>3, <1>4, <1>5, <1>6 DEF RequestFrame, ActorTypeOK, slotVars

LEMMA RequestJobs ==
    ASSUME JobInv, NEW r \in Request, RequestFrame(r), SlotsStay, ActorTypeOK',
           UNCHANGED state \/ \E j \in JobId : Queue!Submit(j)
    PROVE  JobInv'
<1> USE DEF JobInv
<1>1. job' = job /\ tries' = tries
  BY DEF RequestFrame, slotVars
<1>2. CASE UNCHANGED state
  BY <1>1, <1>2 DEF QueueTypeOK, Attempts, Holding, Alone, Serial, SlotsStay
<1>3. ASSUME NEW j \in JobId, Queue!Submit(j) PROVE JobInv'
  <2>1. state[j] = "none" /\ state' = [state EXCEPT ![j] = "waiting"]
    BY <1>3, SubmitFacts
  <2>2. QueueTypeOK' /\ Attempts' /\ Serial'
    BY <1>1, <2>1 DEF QueueTypeOK, Attempts, Serial
  <2>3. Holding' /\ Alone'
    BY <1>1, <2>1 DEF QueueTypeOK, Holding, Alone, SlotsStay, ActorTypeOK
  <2> QED
    BY <2>2, <2>3
<1> QED
  BY <1>2, <1>3

\* A copy is kept, put away, or taken of the row before or after the step.
SeenMove(a) ==
    \/ seen'[a] = seen[a]
    \/ seen'[a].track = NoParcel /\ seen'[a].id = 0
    \/ seen'[a].track \in {row.track} \cup OnShopify /\ seen'[a].id = row.id
    \/ seen'[a].track = row'.track /\ seen'[a].id = row'.id

LEMMA RequestSeen ==
    ASSUME RowTypeOK, ActorTypeOK, NEW r \in Request,
           RequestStarts(r) \/ RequestGoesOn(r) \/ RequestFails(r)
    PROVE  SeenMove(r)
<1>a. r \in Actor
  BY DEF Actor
<1>1. CASE RequestStarts(r)
  <2>1. PICK to \in FirstStep, copy \in Row :
           /\ Start(r, to, copy)
           /\ \/ copy.id = 0 /\ copy.track = NoParcel
              \/ copy.id = row.id /\ copy.track \in {row.track} \cup OnShopify
    BY <1>1, StartFacts
  <2>2. seen'[r] = copy
    BY <1>a, <2>1, CopyFacts DEF Start
  <2> QED
    BY <2>1, <2>2 DEF SeenMove
<1>2. CASE RequestGoesOn(r) \/ RequestFails(r)
  <2>1. \/ UNCHANGED seen \/ \E from : End(r, from)
        \/ seen' = [seen EXCEPT ![r] = row'] \/ (seen' = [seen EXCEPT ![r] = row])
    BY <1>2 DEF RequestGoesOn, ClaimShipment, Handover, Close,
         CreateMany, Reread, Enqueue, ResolveWrite, ReceiveWrite, Write, Drop, Delete, Remove,
         Flag, Recall, Unfulfil, Void, Shut, Stamp, Enrich, RequestFails
  <2> QED
    BY <1>a, <2>1, NoRowFacts DEF End, SeenMove, ActorTypeOK
<1> QED
  BY <1>1, <1>2

\* Parcels keep their makers, and new ones are for rows there are.
ParcelsGrow ==
    \A p \in Parcel :
        \/ parcel'[p] = "none"  /\ parcel[p] = "none"
        \/ parcel'[p] # "none" /\ parcel[p] # "none" /\ maker'[p] = maker[p]
        \/ parcel'[p] # "none" /\ parcel[p] = "none" /\ maker'[p] # NoJob /\ maker'[p][2] <= row.id

\* Copies stay copies of rows there were.
LEMMA CopyStep ==
    ASSUME RowTypeOK, RowTypeOK', ActorTypeOK, ActorTypeOK', CopyInv, NewRow \/ SameRow, ParcelsGrow,
           \A a \in Actor : SeenMove(a),
           \A p \in blind' : p \in blind \/ p = row.track,
           \A j \in JobId : state'[j] # "none" => state[j] # "none" \/ RowOf(j) <= row.id
    PROVE  CopyInv'
<1>1. /\ row.id \in Nat /\ row'.id \in Nat /\ row.id <= row'.id
      /\ \A j \in JobId : RowOf(j) \in Nat
      /\ \A p \in Parcel : maker[p] # NoJob => maker[p][2] \in Nat
      /\ \A a \in Actor : seen[a].id \in Nat
  <2>1. row.id \in Nat /\ row'.id \in Nat /\ row.id <= row'.id
    BY ConstFacts DEF RowTypeOK, Row, NewRow, SameRow
  <2>2. \A j \in JobId : RowOf(j) \in Nat
    BY ConstFacts, JobFacts
  <2>3. \A p \in Parcel : maker[p] # NoJob => maker[p][2] \in Nat
    BY ConstFacts DEF RowTypeOK
  <2>4. \A a \in Actor : seen[a].id \in Nat
    BY ConstFacts DEF ActorTypeOK, Row
  <2> QED
    BY <2>1, <2>2, <2>3, <2>4
<1>2. \A p \in Parcel : parcel[p] # "none" => parcel'[p] # "none" /\ maker'[p] = maker[p]
  BY DEF ParcelsGrow
<1>3. row.track \in {NoParcel} \cup Parcel /\ \A a \in Actor : seen[a].track \in {NoParcel} \cup Parcel
  BY DEF RowTypeOK, ActorTypeOK, Row
<1>4. Numbered(row)' /\ (~Exists' => row'.track = NoParcel) /\ (Exists' => row'.id > 0)
  <2>1. CASE NewRow
    BY <1>1, <2>1 DEF NewRow, Numbered, Exists
  <2>2. CASE SameRow
    BY <1>2, <1>3, <2>2 DEF SameRow, Numbered, CopyInv
  <2> QED
    BY <2>1, <2>2
<1>5. ASSUME NEW a \in Actor PROVE Numbered(seen[a])' /\ seen'[a].id <= row'.id
  <2>1. /\ Numbered(seen[a]) /\ seen[a].id <= row.id /\ SeenMove(a)
        /\ Numbered(row)
    BY DEF CopyInv
  <2>2. CASE seen'[a] = seen[a]
    BY <1>1, <1>2, <1>3, <2>1, <2>2 DEF Numbered
  <2>3. CASE seen'[a].track = NoParcel /\ seen'[a].id = 0
    BY <1>1, <2>3 DEF Numbered
  <2>4. CASE seen'[a].track \in {row.track} \cup OnShopify /\ seen'[a].id = row.id
    BY <1>1, <1>2, <1>3, <2>1, <2>4 DEF Numbered, OnShopify
  <2>5. CASE seen'[a].track = row'.track /\ seen'[a].id = row'.id
    BY <1>1, <1>4, <2>5 DEF Numbered
  <2> QED
    BY <2>1, <2>2, <2>3, <2>4, <2>5 DEF SeenMove
<1>6. \A j \in JobId : state'[j] # "none" => RowOf(j) <= row'.id
  BY <1>1 DEF CopyInv
<1>7. \A p \in Parcel : parcel'[p] # "none" => maker'[p] # NoJob /\ maker'[p][2] <= row'.id
  <2> SUFFICES ASSUME NEW p \in Parcel, parcel'[p] # "none"
               PROVE  maker'[p] # NoJob /\ maker'[p][2] <= row'.id
    OBVIOUS
  <2>1. maker'[p] # NoJob /\ maker'[p][2] <= row.id
    BY DEF CopyInv, ParcelsGrow
  <2>2. maker'[p][2] \in Nat
    BY <2>1, ConstFacts DEF RowTypeOK
  <2> QED
    BY <1>1, <2>1, <2>2
<1>8. \A p \in blind' : parcel'[p] # "none"
  <2> SUFFICES ASSUME NEW p \in blind' PROVE parcel'[p] # "none"
    OBVIOUS
  <2>1. p \in Parcel
    BY DEF RowTypeOK
  <2>2. CASE p \in blind
    BY <1>2, <2>1, <2>2 DEF CopyInv
  <2>3. CASE p = row.track
    BY <1>2, <2>1, <2>3 DEF CopyInv, Numbered, NoParcel, Parcel
  <2> QED
    BY <2>2, <2>3
<1> QED
  BY <1>4, <1>5, <1>6, <1>7, <1>8 DEF CopyInv

\* Who does not move keeps its place.
LEMMA RequestStays ==
    ASSUME RowTypeOK, RowTypeOK', ActorTypeOK, CopyInv, NEW r \in Request, RequestPlace(r),
           pc'[r] = pc[r], seen'[r] = seen[r], NewRow \/ SameRow, refused \subseteq refused',
           \A p \in Parcel : parcel[p] = "dead" => parcel'[p] = "dead"
    PROVE  RequestPlace(r)'
<1>1. row'.id >= row.id /\ row.id \in Nat /\ row'.id \in Nat
  BY ConstFacts DEF NewRow, SameRow, RowTypeOK, Row
<1>2. r \in Actor /\ seen[r].track \in {NoParcel} \cup Parcel
  BY DEF Actor, ActorTypeOK, Row
<1>3. seen[r].track # NoParcel /\ ~Live(seen[r].track) => ~Live(seen[r].track)'
  BY <1>2 DEF CopyInv, Numbered, RowTypeOK, Live
<1>4. ~Live(seen[r].track)' <=> ~(parcel'[seen'[r].track] = "live")
  BY DEF Live
<1> QED
  BY <1>1, <1>3, <1>4 DEF RequestPlace, Live

LEMMA SlotStays ==
    ASSUME ActorTypeOK, NEW s \in Slot, SlotPlace(s), ParcelsGrow,
           pc'[s] = pc[s], seen'[s] = seen[s], job'[s] = job[s], hand'[s] = hand[s]
    PROVE  SlotPlace(s)'
BY DEF SlotPlace, ParcelsGrow, ActorTypeOK, Booking

\* The place a request goes to.
LEMMA RequestGoes ==
    ASSUME RowTypeOK, RowTypeOK', ActorTypeOK, CopyInv, CopyInv', NEW r \in Request, RequestPlace(r),
           RequestStarts(r) \/ RequestGoesOn(r) \/ RequestFails(r), WorldMove
    PROVE  RequestPlace(r)'
<1>a. r \in Actor
  BY DEF Actor
<1>b. ASSUME NEW from, End(r, from) PROVE RequestPlace(r)'
  BY <1>a, <1>b DEF End, Goto, ActorTypeOK, RequestPlace
<1>c. ASSUME NEW from, Goto(r, from, "idle") PROVE RequestPlace(r)'
  BY <1>a, <1>c DEF Goto, ActorTypeOK, RequestPlace
<1>1. CASE RequestStarts(r)
  <2>1. PICK to \in FirstStep, copy \in Row :
           /\ Start(r, to, copy)
           /\ to = "drop" => copy.track = NoParcel
           /\ to \in {"pull", "enrich", "push"} => copy.track # NoParcel
           /\ to = "recall" => copy.status \notin {"delivered", "returned", "cancelled"}
    BY <1>1, StartFacts
  <2>2. pc'[r] = to /\ seen'[r] = copy
    BY <1>a, <2>1 DEF Start, Goto, ActorTypeOK
  <2> QED
    BY <2>1, <2>2 DEF FirstStep, RequestPlace
<1>2. CASE ClaimShipment(r)
  <2>1. CASE End(r, "claim") \/ Goto(r, "claim", "idle")
    BY <1>b, <1>c, <2>1
  <2>2. ASSUME NEW c, NEW to \in {"handover", "enqueue"}, c = seen[r].courier,
               to = "handover" => c = Manual,
               Create("booked", c) \/ Reuse("booked", c),
               Goto(r, "claim", to), seen' = [seen EXCEPT ![r] = row']
        PROVE  RequestPlace(r)'
    <3>1. c \in Carrier
      BY <1>a, <2>2 DEF ActorTypeOK, Row
    <3>2. row'.courier = c /\ Exists'
      BY <2>2, <3>1, ClaimFacts DEF Exists
    <3>3. pc'[r] = to /\ seen'[r] = row'
      BY <1>a, <2>2 DEF Goto, ActorTypeOK
    <3>4. row'.id > 0
      BY <3>2 DEF CopyInv
    <3> QED
      BY <2>2, <3>2, <3>3, <3>4 DEF RequestPlace
  <2> QED
    BY <1>2, <2>1, <2>2 DEF ClaimShipment
<1>3. CASE Handover(r)
  BY <1>a, <1>3 DEF Handover, Goto, ActorTypeOK, RequestPlace
<1>4. CASE \/ Close(r) \/ Enqueue(r) \/ Drop(r) \/ Delete(r) \/ Flag(r) \/ Shut(r) \/ Stamp(r)
           \/ Enrich(r) \/ RequestFails(r)
  BY <1>4, <1>b DEF Close, Enqueue, Drop, Delete, Remove, Flag, Shut, RequestFails, Stamp, Enrich
<1>5. CASE CreateMany(r)
  <2>1. Exists'
    <3>1. CASE \E status \in {"booked", "address_issue"} : Create(status, seen[r].courier)
      BY <3>1 DEF Create, Gone, Exists
    <3>2. CASE Exists /\ UNCHANGED row
      BY <3>2 DEF Exists
    <3> QED
      BY <1>5, <3>1, <3>2 DEF CreateMany
  <2>2. pc'[r] = "reread" /\ row'.id > 0
    BY <1>a, <1>5, <2>1 DEF CreateMany, Goto, ActorTypeOK, CopyInv
  <2> QED
    BY <2>2 DEF RequestPlace
<1>6. CASE Reread(r)
  <2>1. CASE Goto(r, "reread", "enqueue") /\ seen' = [seen EXCEPT ![r] = row] /\ Exists
    <3>1. pc'[r] = "enqueue" /\ seen'[r] = row /\ row.id > 0
      BY <1>a, <2>1 DEF Goto, ActorTypeOK, CopyInv
    <3> QED
      BY <3>1 DEF RequestPlace
  <2> QED
    BY <1>6, <1>b, <2>1 DEF Reread, Exists
<1>7. CASE ResolveWrite(r)
  <2>1. CASE Still(r) /\ Goto(r, "resolve", "enqueue") /\ UNCHANGED seen
    <3>1. pc'[r] = "enqueue" /\ seen'[r].id > 0
      BY <1>a, <2>1 DEF Goto, ActorTypeOK, CopyInv, Still
    <3> QED
      BY <3>1 DEF RequestPlace
  <2> QED
    BY <1>7, <1>b, <2>1 DEF ResolveWrite, Write
<1>8. CASE ReceiveWrite(r)
  <2>1. CASE Goto(r, "receive", "shut") /\ UNCHANGED seen
    BY <1>a, <2>1 DEF Goto, ActorTypeOK, RequestPlace
  <2> QED
    BY <1>8, <1>b, <2>1 DEF ReceiveWrite, Write
<1>9. CASE Recall(r, "recall", "unfulfil")
  <2>1. /\ pc[r] = "recall" /\ pc'[r] = "unfulfil" /\ seen' = seen
        /\ \/ ~HasBooking(seen[r])
           \/ parcel' = [parcel EXCEPT ![seen[r].track] = "dead"]
           \/ seen[r].track \in refused'
    BY <1>a, <1>9 DEF Recall, Goto, ActorTypeOK
  <2>2. seen[r].track # NoParcel => seen[r].track \in Parcel
    BY <1>a DEF ActorTypeOK, Row
  <2>3. \/ seen'[r].courier = Manual \/ seen'[r].track = NoParcel
        \/ parcel'[seen'[r].track] # "live" \/ seen'[r].track \in refused'
    BY <2>1, <2>2 DEF HasBooking, RowTypeOK, RequestPlace
  <2> QED
    BY <2>1, <2>3 DEF RequestPlace, Live
<1>10. CASE Recall(r, "withdraw", "void")
  <2>1. pc'[r] = "void"
    BY <1>a, <1>10 DEF Recall, Goto, ActorTypeOK
  <2> QED
    BY <2>1 DEF RequestPlace
<1>11. CASE Unfulfil(r)
  BY <1>a, <1>11 DEF Unfulfil, Goto, ActorTypeOK, RequestPlace, Live
<1>12. CASE Void(r)
  BY <1>a, <1>12 DEF Void, Goto, ActorTypeOK, RequestPlace
<1> QED
  BY <1>1, <1>2, <1>3, <1>4, <1>5, <1>6, <1>7, <1>8, <1>9, <1>10, <1>11, <1>12 DEF RequestGoesOn

-----------------------------------------------------------------------------
(* Requests keep what the properties say.                                   *)

\* What the rest of a request's step amounts to.
LEMMA RequestGrows ==
    ASSUME NEW r \in Request, RequestFrame(r), WorldMove, RowTypeOK, CopyInv
    PROVE  /\ ParcelsGrow /\ maker' = maker /\ stray' = stray /\ job' = job /\ hand' = hand
           /\ Lost \subseteq Lost' /\ \A p \in Parcel : Live(p)' => Live(p)
BY DEF RequestFrame, WorldMove, ParcelsKept, ParcelsGrow, slotVars, Lost, Live, RowTypeOK, CopyInv

\* The number of a live parcel leaves the row by way of blind or refused.
LEMMA KnownStep ==
    ASSUME RowTypeOK, CopyInv, KnownInv, WorldMove, UNCHANGED maker, stray \subseteq stray',
           \A s \in Slot : \/ hand'[s] = hand[s]
                           \/ hand[s] \in {NoParcel, row'.track} \cup stray'
    PROVE  KnownInv'
<1> SUFFICES ASSUME NEW p \in Parcel, Live(p)' PROVE Known(p)'
  BY DEF KnownInv
<1>1. /\ maker' = maker /\ Lost \subseteq Lost' /\ refused \subseteq refused'
      /\ Live(p) /\ Known(p) /\ blind' \subseteq Lost' /\ stray' \subseteq Lost'
  BY DEF KnownInv, WorldMove, ParcelsKept, Lost, Live, RowTypeOK, CopyInv
<1>2. CASE row.track = p
  <2>1. Exists /\ p # NoParcel
    BY <1>2 DEF CopyInv, Parcel, NoParcel
  <2>2. SameRow
    BY <2>1 DEF WorldMove, NewRow
  <2>3. \/ p = row'.track \/ p \in blind'
        \/ ~Exists' /\ p \in refused'
    BY <1>2, <2>1, <2>2 DEF SameRow, OldRow, Live
  <2> QED
    BY <1>1, <2>3 DEF Known
<1>3. CASE (\E s \in Slot : hand[s] = p) \/ p \in Lost
  BY <1>1, <1>3 DEF Known, Parcel, NoParcel
<1>4. CASE p \in refused /\ (maker[p][2] # row.id \/ ~Exists)
  <2>1. CASE SameRow
    BY <1>1, <1>4, <2>1 DEF SameRow, Known
  <2>2. CASE NewRow
    <3>1. maker[p] # NoJob /\ maker[p][2] <= row.id
      BY <1>1 DEF Live, CopyInv
    <3>2. maker[p][2] \in Nat /\ row.id \in Nat
      BY <3>1, ConstFacts DEF RowTypeOK, Row
    <3>3. maker[p][2] # row'.id
      BY <2>2, <3>1, <3>2 DEF NewRow
    <3> QED
      BY <1>1, <1>4, <3>3 DEF Known
  <2> QED
    BY <2>1, <2>2 DEF WorldMove
<1> QED
  BY <1>1, <1>2, <1>3, <1>4 DEF Known

LEMMA RequestLanes ==
    ASSUME NEW r \in Request, RequestFrame(r), SlotsStay, WorldMove, RowTypeOK, CopyInv, LaneInv
    PROVE  LaneInv'
<1>1. /\ maker' = maker /\ job' = job /\ Lost \subseteq Lost'
      /\ \A p \in Parcel : Live(p)' => Live(p)
  BY RequestGrows
<1>2. OneParcelPerLane'
  BY <1>1 DEF LaneInv, OneParcelPerLane
<1>3. AskInv'
  BY <1>1 DEF LaneInv, AskInv, Asks, SlotsStay
<1> QED
  BY <1>2, <1>3 DEF LaneInv

\* A number on the row is only lost with the row, or to blank.
LEMMA NumberStays ==
    ASSUME SameRow, Exists', blank \subseteq blank', HasNumber
    PROVE  HasNumber'
BY DEF SameRow, OldRow, HasNumber

LEMMA RequestPast ==
    ASSUME NEW r \in Request, RequestFrame(r), SlotsStay, WorldMove, RowTypeOK, CopyInv,
           JobInv, PastInv
    PROVE  PastInv'
<1> SUFFICES ASSUME NEW s \in Slot, Past(s)', Exists', row'.id = RowOf(job'[s]) PROVE HasNumber'
  BY DEF PastInv
<1>1. ParcelsGrow /\ job' = job /\ blank \subseteq blank'
  BY RequestGrows DEF WorldMove, ParcelsKept
<1>2. Past(s)
  BY DEF Past, SlotsStay
<1>3. job[s] \in JobId /\ state[job[s]] = "running"
  BY <1>2 DEF Past, JobInv, Holding, ActorTypeOK
<1>4. RowOf(job[s]) <= row.id /\ RowOf(job[s]) \in Nat /\ row.id \in Nat
  BY <1>3, JobFacts, ConstFacts DEF CopyInv, RowTypeOK, Row
<1>5. SameRow
  BY <1>1, <1>4 DEF WorldMove, NewRow
<1>6. HasNumber
  BY <1>1, <1>2, <1>5 DEF SameRow, PastInv
<1> QED
  BY <1>1, <1>5, <1>6, NumberStays

\* A job that works on goes on working, for all a request does.
LEMMA RequestWorks ==
    ASSUME JobInv, NEW r \in Request, RequestFrame(r), SlotsStay,
           UNCHANGED state \/ \E j \in JobId : Queue!Submit(j)
    PROVE  \A j \in JobId : Works(j) => Works(j)'
<1>1. \A s \in Slot : Leaving(s)' <=> Leaving(s)
  BY DEF SlotsStay, Leaving
<1>2. \A j \in JobId : state[j] \in {"waiting", "running"} => state'[j] = state[j]
  BY SubmitFacts DEF JobInv, QueueTypeOK
<1> QED
  BY <1>1, <1>2 DEF Works, RequestFrame, slotVars

\* A request that owes no job keeps what the others owe.
LEMMA OwedStays ==
    ASSUME NEW r \in Request, row'.id = row.id, row.id \in Owed(Request), row.id \notin Owed({r}),
           \A q \in Request : q # r => pc'[q] = pc[q] /\ seen'[q] = seen[q]
    PROVE  row'.id \in Owed(Request)'
BY DEF Owed

\* Whoever makes a row booked, or stops owing its job, has stored the job or
\* still owes it.
LEMMA RequestWork ==
    ASSUME RowTypeOK, ActorTypeOK, CopyInv, JobInv, PlaceInv, WorkInv, NEW r \in Request,
           RequestStarts(r) \/ RequestGoesOn(r) \/ RequestFails(r),
           RequestFrame(r), WorldMove
    PROVE  WorkInv'
<1>a. r \in Actor
  BY DEF Actor
<1>b. SlotsStay /\ \A q \in Request : q # r => pc'[q] = pc[q] /\ seen'[q] = seen[q]
  BY RequestSlots
<1>c. \A j \in JobId : Works(j) => Works(j)'
  BY <1>b, RequestQueue, RequestWorks
<1>d. blank \subseteq blank' /\ dropped \subseteq dropped'
  BY RequestGrows DEF WorldMove, ParcelsKept
<1>e. ASSUME row' = row, row.id \notin Owed({r}) \/ row'.id \in Owed(Request)' PROVE WorkInv'
  <2>1. Unbooked => Unbooked'
    BY <1>d, <1>e DEF Unbooked
  <2>2. HasNumber => HasNumber'
    <3>1. CASE Exists
      <4>1. SameRow
        BY <3>1 DEF WorldMove, NewRow
      <4> QED
        BY <1>d, <1>e, <3>1, <4>1, NumberStays DEF Exists
    <3>2. CASE row.id \in blank
      BY <1>d, <1>e, <3>2 DEF HasNumber
    <3> QED
      BY <3>1, <3>2 DEF HasNumber, CopyInv
  <2>3. row.id \in Owed(Request) => row'.id \in Owed(Request)'
    BY <1>b, <1>e, OwedStays
  <2> QED
    BY <1>c, <1>e, <2>1, <2>2, <2>3 DEF WorkInv
<1>f. ASSUME row'.status # "booked" PROVE WorkInv'
  BY <1>f DEF WorkInv, Unbooked
<1>g. ASSUME pc'[r] = "reread" \/ (pc'[r] = "enqueue" /\ seen'[r].id = row'.id) PROVE WorkInv'
  BY <1>g DEF WorkInv, Owed
<1>h. pc[r] \notin {"enqueue", "reread"} => row.id \notin Owed({r})
  BY DEF Owed
<1>1. CASE RequestStarts(r)
  <2>1. pc[r] = "idle" /\ row' = row
    BY <1>1, StartFacts DEF Start, Goto
  <2> QED
    BY <1>e, <1>h, <2>1
<1>2. CASE ClaimShipment(r)
  <2>1. pc[r] = "claim"
    BY <1>2 DEF ClaimShipment, Goto, End
  <2>2. CASE UNCHANGED row
    BY <1>e, <1>h, <2>1, <2>2
  <2>3. seen[r].courier \in Carrier
    BY <1>a DEF ActorTypeOK, Row
  <2>4. CASE /\ Create("booked", seen[r].courier) \/ Reuse("booked", seen[r].courier)
             /\ seen[r].courier = Manual
    <3>1. row'.courier = Manual
      BY <2>3, <2>4, ClaimFacts
    <3> QED
      BY <3>1 DEF WorkInv, Unbooked
  <2>5. CASE Goto(r, "claim", "enqueue") /\ seen' = [seen EXCEPT ![r] = row']
    BY <1>a, <1>g, <2>5 DEF Goto, ActorTypeOK
  <2>6. CASE Create("address_issue", seen[r].courier) \/ Reuse("address_issue", seen[r].courier)
    <3>1. row'.status = "address_issue"
      BY <2>3, <2>6, ClaimFacts
    <3> QED
      BY <1>f, <3>1
  <2> QED
    BY <1>2, <2>2, <2>4, <2>5, <2>6 DEF ClaimShipment
<1>3. CASE Handover(r) \/ Unfulfil(r) \/ Shut(r)
  <2>1. row' = row /\ pc[r] \notin {"enqueue", "reread"}
    BY <1>3 DEF Handover, Unfulfil, Shut, End, Goto
  <2> QED
    BY <1>e, <1>h, <2>1
<1>4. CASE Recall(r, "recall", "unfulfil") \/ Recall(r, "withdraw", "void")
  <2>1. row' = row /\ pc[r] \notin {"enqueue", "reread"}
    BY <1>4 DEF Recall, Goto
  <2> QED
    BY <1>e, <1>h, <2>1
<1>5. CASE Close(r) \/ Drop(r) \/ Delete(r) \/ Void(r) \/ ReceiveWrite(r) \/ Stamp(r)
  <2>1. pc[r] \notin {"enqueue", "reread"}
    BY <1>5 DEF Close, Drop, Delete, Remove, Void, ReceiveWrite, Write, Stamp, End, Goto
  <2>2. CASE row' = row
    BY <1>e, <1>h, <2>1, <2>2
  <2>3. CASE row' # row
    <3>1. \/ row' = [row EXCEPT !.status = "delivered", !.track = NoParcel, !.ful = TRUE]
          \/ row' = Gone
          \/ row' = [row EXCEPT !.status = "cancelled"]
          \/ row' = [row EXCEPT !.status = "failed", !.received = TRUE]
          \/ \E to \in {"in_transit", "failed", "delivered", "returned"} : \E track :
                row' = [row EXCEPT !.status = to, !.track = track]
      BY <1>5, <2>3 DEF Close, Drop, Delete, Remove, Void, ReceiveWrite, Write, Stamp
    <3>2. row'.status # "booked"
      BY <3>1 DEF Gone, RowTypeOK, Row
    <3> QED
      BY <1>f, <3>2
  <2> QED
    BY <2>2, <2>3
<1>6. CASE Flag(r)
  <2>1. row'.status = "address_issue"
    BY <1>6 DEF Flag, Create, Gone, RowTypeOK, Row
  <2> QED
    BY <1>f, <2>1
<1>7. CASE CreateMany(r)
  BY <1>a, <1>7, <1>g DEF CreateMany, Goto, ActorTypeOK
<1>8. CASE Reread(r)
  <2>1. row' = row
    BY <1>8 DEF Reread
  <2>2. CASE row.status \in {"none", "address_issue"}
    BY <1>f, <2>1, <2>2
  <2>3. CASE Goto(r, "reread", "enqueue") /\ seen' = [seen EXCEPT ![r] = row]
    BY <1>a, <1>g, <2>1, <2>3 DEF Goto, ActorTypeOK
  <2> QED
    BY <1>8, <2>2, <2>3 DEF Reread
<1>9. CASE Enqueue(r)
  <2>1. row' = row /\ pc[r] = "enqueue"
    BY <1>9 DEF Enqueue, End, Goto
  <2>2. PICK j \in JobId : Lane(j) = <<seen[r].courier, seen[r].id>> /\ Queue!Submit(j)
    BY <1>9 DEF Enqueue
  <2>3. RowOf(j) = seen[r].id
    BY <2>2 DEF Lane, RowOf
  <2>4. Works(j)'
    BY <2>2, SubmitFacts DEF Works, JobInv, QueueTypeOK
  <2>5. CASE seen[r].id = row.id
    BY <2>1, <2>3, <2>4, <2>5 DEF WorkInv
  <2>6. CASE seen[r].id # row.id
    <3>1. row.id \notin Owed({r})
      BY <2>1, <2>6 DEF Owed
    <3> QED
      BY <1>e, <2>1, <3>1
  <2> QED
    BY <2>5, <2>6
<1>10. CASE ResolveWrite(r)
  <2>1. CASE Still(r)
    <3>1. /\ row' = [row EXCEPT !.status = "booked", !.courier = seen[r].courier]
          /\ Goto(r, "resolve", "enqueue") /\ UNCHANGED seen /\ row.id = seen[r].id
      BY <1>10, <2>1 DEF ResolveWrite, Write, Still
    <3>2. pc'[r] = "enqueue" /\ seen'[r].id = row'.id
      BY <1>a, <3>1 DEF Goto, ActorTypeOK, RowTypeOK, Row
    <3> QED
      BY <1>g, <3>2
  <2>2. CASE ~Still(r)
    <3>1. row' = row /\ pc[r] = "resolve"
      BY <1>10, <2>2 DEF ResolveWrite, Write, End, Goto
    <3> QED
      BY <1>e, <1>h, <3>1
  <2> QED
    BY <2>1, <2>2
<1>11. CASE RequestFails(r)
  <2>1. row' = row /\ dropped' = dropped \cup Owed({r})
    BY <1>11 DEF RequestFails
  <2>2. CASE row.id \in Owed({r})
    BY <2>1, <2>2 DEF WorkInv, Unbooked
  <2> QED
    BY <1>e, <2>1, <2>2
<1>12. CASE Enrich(r)
  <2>1. pc[r] = "enrich" /\ seen[r] \in Row
    BY <1>a, <1>12 DEF Enrich, End, Goto, ActorTypeOK
  <2>2. CASE row' = row
    BY <1>e, <1>h, <2>1, <2>2
  <2>3. CASE row' = [row EXCEPT !.track = seen[r].track]
    <3>1. row'.track = seen[r].track /\ seen[r].track # NoParcel
      BY <2>1, <2>3 DEF PlaceInv, RequestPlace, RowTypeOK, Row
    <3> QED
      BY <3>1 DEF WorkInv, HasNumber
  <2> QED
    BY <1>12, <2>2, <2>3 DEF Enrich
<1> QED
  BY <1>1, <1>2, <1>3, <1>4, <1>5, <1>6, <1>7, <1>8, <1>9, <1>10, <1>11, <1>12 DEF RequestGoesOn

-----------------------------------------------------------------------------
(* Booking jobs: places and queue.                                          *)

\* What a step of a slot does to its own variables.
SlotFrame(s) ==
    /\ pc' = [pc EXCEPT ![s] = pc'[s]] /\ pc'[s] \in SlotStep
    /\ seen' = [seen EXCEPT ![s] = seen'[s]] /\ seen'[s] \in Row
    /\ hand' = [hand EXCEPT ![s] = hand'[s]] /\ hand'[s] \in {NoParcel} \cup Parcel
    /\ job' = [job EXCEPT ![s] = job'[s]] /\ job'[s] \in JobId \cup {NoJob}
    /\ open' \in [Slot -> BOOLEAN] /\ flaw' \in [Slot -> {"none", "permanent", "transient"}]

\* It takes a job, goes on with it, or gives it back to the queue.
Takes(s) ==
    \E j \in JobId : /\ pc[s] = "idle" /\ pc'[s] = "read" /\ seen'[s] = seen[s] /\ hand'[s] = hand[s]
                     /\ job'[s] = j /\ Queue!Begin(j)
GoesOn(s) ==
    /\ pc[s] # "idle" /\ pc'[s] # "idle" /\ job'[s] = job[s] /\ UNCHANGED queueVars
GivesBack(s) ==
    /\ pc[s] # "idle" /\ pc'[s] = "idle" /\ job'[s] = NoJob /\ seen'[s] = NoRow
    /\ hand'[s] = NoParcel
    /\ Queue!Finish(job[s]) \/ Queue!Err(job[s])

LEMMA LeaveFrame ==
    ASSUME ActorTypeOK, NEW s \in Slot, pc[s] # "idle", Finish(s) \/ Throw(s)
    PROVE  SlotFrame(s) /\ GivesBack(s)
<1>1. s \in Actor /\ "idle" \in SlotStep
  BY DEF Actor, SlotStep
<1>2. Leave(s) /\ (Queue!Finish(job[s]) \/ Queue!Err(job[s]))
  BY DEF Finish, Throw
<1>3. SlotFrame(s)
  BY <1>1, <1>2, NoRowFacts DEF Leave, Free, SlotFrame, ActorTypeOK
<1>4. pc'[s] = "idle" /\ job'[s] = NoJob /\ seen'[s] = NoRow /\ hand'[s] = NoParcel
  BY <1>1, <1>2 DEF Leave, Free, ActorTypeOK
<1> QED
  BY <1>2, <1>3, <1>4 DEF GivesBack

LEMMA RaiseFrame ==
    ASSUME ActorTypeOK, NEW s \in Slot, pc[s] # "idle",
           Raise(s, "permanent") \/ Raise(s, "transient")
    PROVE  /\ SlotFrame(s) /\ GoesOn(s) /\ pc'[s] = "catch" /\ seen' = seen
           /\ hand'[s] = NoParcel
<1>1. s \in Actor /\ "catch" \in SlotStep
  BY DEF Actor, SlotStep
<1> QED
  BY <1>1 DEF Raise, SlotFrame, GoesOn, ActorTypeOK

LEMMA MoveFrame ==
    ASSUME ActorTypeOK, NEW s \in Slot, NEW from \in SlotStep, NEW to \in SlotStep,
           Goto(s, from, to), from # "idle", to # "idle",
           seen' = seen \/ \E copy \in Row : seen' = [seen EXCEPT ![s] = copy],
           hand' = hand \/ \E p \in {NoParcel} \cup Parcel : hand' = [hand EXCEPT ![s] = p],
           open' = open \/ \E b \in BOOLEAN : open' = [open EXCEPT ![s] = b],
           UNCHANGED <<queueVars, job, flaw>>
    PROVE  SlotFrame(s) /\ GoesOn(s) /\ pc[s] = from /\ pc'[s] = to
<1>1. s \in Actor
  BY DEF Actor
<1>2. pc' = [pc EXCEPT ![s] = pc'[s]] /\ pc[s] = from /\ pc'[s] = to
  BY <1>1 DEF Goto, ActorTypeOK
<1>3. seen' = [seen EXCEPT ![s] = seen'[s]] /\ seen'[s] \in Row
  BY <1>1 DEF ActorTypeOK
<1>4. hand' = [hand EXCEPT ![s] = hand'[s]] /\ hand'[s] \in {NoParcel} \cup Parcel
  BY DEF ActorTypeOK
<1>5. job' = [job EXCEPT ![s] = job'[s]] /\ job'[s] \in JobId \cup {NoJob} /\ job'[s] = job[s]
  BY DEF ActorTypeOK
<1>6. open' \in [Slot -> BOOLEAN] /\ flaw' \in [Slot -> {"none", "permanent", "transient"}]
  BY DEF ActorTypeOK
<1> QED
  BY <1>2, <1>3, <1>4, <1>5, <1>6 DEF SlotFrame, GoesOn

\* The others stay where they are.
LEMMA SlotAlone ==
    ASSUME ActorTypeOK, NEW s \in Slot, SlotFrame(s)
    PROVE  /\ \A a \in Actor : a # s => pc'[a] = pc[a] /\ seen'[a] = seen[a]
           /\ \A r \in Request : pc'[r] = pc[r] /\ seen'[r] = seen[r]
           /\ \A t \in Slot : t # s => /\ pc'[t] = pc[t] /\ seen'[t] = seen[t]
                                       /\ job'[t] = job[t] /\ hand'[t] = hand[t]
           /\ ActorTypeOK'
<1>1. \A a \in Actor : a # s => pc'[a] = pc[a] /\ seen'[a] = seen[a]
  BY DEF SlotFrame, ActorTypeOK
<1>2. Actor = Request \cup Slot /\ s \notin Request
  BY ConstFacts DEF Actor
<1>3. \A r \in Request : pc'[r] = pc[r] /\ seen'[r] = seen[r]
  BY <1>1, <1>2
<1>4. \A t \in Slot : t # s => /\ pc'[t] = pc[t] /\ seen'[t] = seen[t]
                               /\ job'[t] = job[t] /\ hand'[t] = hand[t]
  BY <1>1, <1>2 DEF SlotFrame, ActorTypeOK
<1>5. pc' \in [Actor -> RequestStep \cup SlotStep] /\ seen' \in [Actor -> Row]
  BY <1>2 DEF SlotFrame, ActorTypeOK
<1>6. job' \in [Slot -> JobId \cup {NoJob}] /\ hand' \in [Slot -> {NoParcel} \cup Parcel]
  BY DEF SlotFrame, ActorTypeOK
<1>7. (\A r \in Request : pc'[r] \in RequestStep) /\ \A t \in Slot : pc'[t] \in SlotStep
  BY <1>3, <1>4 DEF SlotFrame, ActorTypeOK
<1> QED
  BY <1>1, <1>3, <1>4, <1>5, <1>6, <1>7 DEF SlotFrame, ActorTypeOK

\* The lanes are kept by whoever takes, keeps or gives back a job.
LEMMA SlotJobs ==
    ASSUME JobInv, NEW s \in Slot, SlotFrame(s), Takes(s) \/ GoesOn(s) \/ GivesBack(s)
    PROVE  JobInv'
<1> USE DEF JobInv
<1>a. /\ \A t \in Slot : t # s => pc'[t] = pc[t] /\ job'[t] = job[t]
      /\ ActorTypeOK'
  BY SlotAlone
<1>1. CASE GoesOn(s)
  <2>1. state' = state /\ tries' = tries /\ job' = job
    BY <1>1, <1>a DEF GoesOn, queueVars, ActorTypeOK
  <2>2. QueueTypeOK' /\ Attempts' /\ Serial' /\ Alone'
    BY <2>1 DEF QueueTypeOK, Attempts, Serial, Alone
  <2>3. Holding'
    BY <1>1, <1>a, <2>1 DEF GoesOn, Holding
  <2> QED
    BY <1>a, <2>2, <2>3
<1>2. CASE Takes(s)
  <2>1. PICK j \in JobId : /\ pc[s] = "idle" /\ pc'[s] = "read" /\ job'[s] = j /\ Queue!Begin(j)
    BY <1>2 DEF Takes
  <2>2. /\ state[j] = "waiting" /\ state' = [state EXCEPT ![j] = "running"] /\ UNCHANGED tries
        /\ \A k \in JobId : k # j /\ Lane(k) = Lane(j) => state[k] # "running"
    BY <2>1, JobFacts DEF Queue!Begin, Queue!Set, Queue!Same
  <2>3. QueueTypeOK' /\ Attempts' /\ Serial'
    BY <2>2 DEF QueueTypeOK, Attempts, Serial
  <2>4. \A t \in Slot : t # s => job[t] # j
    BY <2>2, JobFacts DEF Holding
  <2>5. \A t \in Slot : t # s => /\ pc'[t] # "idle" <=> job'[t] # NoJob
                                 /\ pc'[t] # "idle" => state'[job'[t]] = "running"
    BY <1>a, <2>2, <2>4 DEF Holding, QueueTypeOK, ActorTypeOK
  <2>6. job'[s] # NoJob /\ state'[job'[s]] = "running"
    BY <2>1, <2>2, JobFacts DEF QueueTypeOK
  <2>7. Holding'
    BY <2>1, <2>5, <2>6 DEF Holding
  <2>8. Alone'
    BY <1>a, <2>1, <2>4 DEF Alone
  <2> QED
    BY <1>a, <2>3, <2>7, <2>8
<1>3. CASE GivesBack(s)
  <2>1. /\ pc[s] # "idle" /\ pc'[s] = "idle" /\ job'[s] = NoJob /\ job[s] \in JobId
        /\ Queue!Finish(job[s]) \/ Queue!Err(job[s])
    BY <1>3 DEF GivesBack, Holding, ActorTypeOK
  <2>2. /\ state[job[s]] = "running"
        /\ \/ state' = [state EXCEPT ![job[s]] = "done"] /\ UNCHANGED tries
           \/ /\ state' = [state EXCEPT ![job[s]] =
                              IF tries[job[s]] + 1 = MaxAttempts THEN "dead" ELSE "waiting"]
              /\ tries' = [tries EXCEPT ![job[s]] = @ + 1]
    BY <2>1 DEF Queue!Finish, Queue!Err, Queue!Set
  <2>3. tries[job[s]] \in Nat /\ tries[job[s]] < MaxAttempts /\ MaxAttempts \in Nat
    BY <2>1, <2>2, ConstFacts DEF Attempts, QueueTypeOK
  <2>4. QueueTypeOK' /\ Attempts'
    BY <2>1, <2>2, <2>3 DEF QueueTypeOK, Attempts
  <2>5. Serial'
    BY <2>1, <2>2 DEF QueueTypeOK, Serial
  <2>6. Holding'
    BY <1>a, <2>1, <2>2, JobFacts DEF Holding, Alone, QueueTypeOK, ActorTypeOK
  <2>7. Alone'
    BY <1>a, <2>1 DEF Alone
  <2> QED
    BY <1>a, <2>4, <2>5, <2>6, <2>7
<1> QED
  BY <1>1, <1>2, <1>3

LEMMA SlotFrames ==
    ASSUME RowTypeOK, ActorTypeOK, NEW s \in Slot, HandlerStep(s)
    PROVE  SlotFrame(s) /\ (GoesOn(s) \/ GivesBack(s))
<1>a. s \in Actor /\ NoParcel \in {NoParcel} \cup Parcel /\ row \in Row
  BY DEF Actor, RowTypeOK
<1> USE DEF SlotStep, slotVars
<1>1. CASE Read(s)
  <2>1. CASE Bookable(job[s])
    <3>1. /\ Goto(s, "read", "order") /\ seen' = [seen EXCEPT ![s] = row]
          /\ UNCHANGED <<queueVars, job, open, hand, flaw>>
      BY <1>1, <2>1 DEF Read
    <3> QED
      BY <1>a, <3>1, MoveFrame
  <2>2. CASE ~Bookable(job[s])
    BY <1>1, <2>2, LeaveFrame DEF Read
  <2> QED
    BY <2>1, <2>2
<1>2. CASE Order(s)
  <2>1. PICK to \in {"call", "affirm", "fulfil"} : Goto(s, "order", to)
    BY <1>2 DEF Order, AfterCourier
  <2>2. UNCHANGED <<queueVars, seen, job, hand, flaw>> /\ \E b \in BOOLEAN : open' = [open EXCEPT ![s] = b]
    BY <1>2 DEF Order
  <2> QED
    BY <2>1, <2>2, MoveFrame
<1>3. CASE Call(s)
  <2>1. PICK p \in Parcel : Goto(s, "call", "persist") /\ hand' = [hand EXCEPT ![s] = p]
    BY <1>3 DEF Call
  <2>2. UNCHANGED <<queueVars, seen, job, open, flaw>>
    BY <1>3 DEF Call
  <2> QED
    BY <2>1, <2>2, MoveFrame
<1>4. CASE CallRefused(s) \/ CallUnheard(s) \/ Trip(s)
  <2>1. pc[s] # "idle" /\ (Raise(s, "permanent") \/ Raise(s, "transient"))
    BY <1>4 DEF CallRefused, CallUnheard, Trip
  <2> QED
    BY <2>1, RaiseFrame
<1>5. CASE Persist(s)
  <2>1. CASE Still(s)
    <3>1. \E to \in {"affirm", "fulfil"} : Goto(s, "persist", to)
      BY <1>5, <2>1 DEF Persist, AfterCourier
    <3>2. UNCHANGED <<queueVars, seen, job, open, flaw>> /\ hand' = [hand EXCEPT ![s] = NoParcel]
      BY <1>5, <2>1 DEF Persist
    <3> QED
      BY <1>a, <3>1, <3>2, MoveFrame
  <2>2. CASE ~Still(s)
    BY <1>5, <2>2, RaiseFrame DEF Persist
  <2> QED
    BY <2>1, <2>2
<1>6. CASE Fulfil(s)
  <2>1. CASE \E to \in {"gid", "affirm"} : Step(s, "fulfil", to)
    BY <2>1, MoveFrame DEF Step
  <2>2. CASE Finish(s) \/ Raise(s, "permanent")
    BY <1>6, <2>2, LeaveFrame, RaiseFrame DEF Fulfil
  <2> QED
    BY <1>6, <2>1, <2>2 DEF Fulfil
<1>7. CASE StoreGid(s)
  <2>1. CASE Step(s, "gid", "affirm")
    BY <2>1, MoveFrame DEF Step
  <2>2. CASE Raise(s, "permanent")
    BY <1>7, <2>2, RaiseFrame DEF StoreGid
  <2> QED
    BY <1>7, <2>1, <2>2 DEF StoreGid
<1>8. CASE Affirm(s) \/ CatchFails(s) \/ Revert(s)
  <2>1. pc[s] # "idle" /\ (Finish(s) \/ Throw(s))
    BY <1>8 DEF Affirm, CatchFails, Revert
  <2> QED
    BY <2>1, LeaveFrame
<1>9. CASE Catch(s)
  <2>1. /\ Goto(s, "catch", "revert") /\ UNCHANGED <<queueVars, job, open, hand, flaw>>
        /\ \E copy \in Row : seen' = [seen EXCEPT ![s] = copy]
    BY <1>a, <1>9, NoRowFacts DEF Catch
  <2> QED
    BY <2>1, MoveFrame
<1> QED
  BY <1>1, <1>2, <1>3, <1>4, <1>5, <1>6, <1>7, <1>8, <1>9 DEF HandlerStep

LEMMA ClaimFrame ==
    ASSUME ActorTypeOK, NEW s \in Slot, NEW j \in JobId, Claim(s, j)
    PROVE  SlotFrame(s) /\ Takes(s)
<1>1. s \in Actor
  BY DEF Actor
<1>2. /\ Goto(s, "idle", "read") /\ Queue!Begin(j) /\ job' = [job EXCEPT ![s] = j]
      /\ UNCHANGED <<seen, open, hand, flaw>>
  BY DEF Claim
<1>3. pc' = [pc EXCEPT ![s] = pc'[s]] /\ pc[s] = "idle" /\ pc'[s] = "read"
  BY <1>1, <1>2 DEF Goto, ActorTypeOK
<1>4. job' = [job EXCEPT ![s] = job'[s]] /\ job'[s] = j
  BY <1>2 DEF ActorTypeOK
<1>5. SlotFrame(s)
  BY <1>1, <1>2, <1>3, <1>4 DEF SlotFrame, SlotStep, ActorTypeOK
<1> QED
  BY <1>2, <1>3, <1>4, <1>5 DEF Takes

-----------------------------------------------------------------------------
(* Booking jobs: the row and the parcels.                                   *)

\* A slot under way has a job.
LEMMA HasJob ==
    ASSUME JobInv, NEW s \in Slot, pc[s] # "idle"
    PROVE  /\ job[s] \in JobId /\ state[job[s]] = "running" /\ RowOf(job[s]) \in 1..MaxRows
           /\ Lane(job[s]) \in Carrier \X (1..MaxRows) /\ Lane(job[s])[2] = RowOf(job[s])
<1>1. job[s] \in JobId /\ state[job[s]] = "running"
  BY DEF JobInv, Holding, ActorTypeOK
<1> QED
  BY <1>1, JobFacts

\* A parcel that could not be recorded is put down as stray.
LEMMA StrayMove ==
    ASSUME RowTypeOK, CopyInv, stray' \subseteq Parcel,
           UNCHANGED <<row, shop, parcel, maker, refused, ghostVars>>, Event \/ UNCHANGED events
    PROVE  WorldMove
<1>1. RowTypeOK'
  BY ConstFacts DEF RowTypeOK, ghostVars, Event
<1>2. SameRow
  BY DEF SameRow, OldRow, Exists, CopyInv
<1> QED
  BY <1>1, <1>2 DEF WorldMove, ParcelsKept, ghostVars

\* All steps of a job but the calls that book a parcel.
LEMMA SlotMoves ==
    ASSUME RowTypeOK, JobInv, CopyInv, PlaceInv, NEW s \in Slot, HandlerStep(s),
           ~Call(s), ~CallUnheard(s)
    PROVE  WorldMove /\ UNCHANGED maker /\ stray \subseteq stray' /\ row'.id = row.id
<1>a. s \in Actor /\ ActorTypeOK /\ seen[s] \in Row /\ row \in Row /\ SlotPlace(s)
  BY DEF Actor, ActorTypeOK, RowTypeOK, JobInv, PlaceInv
<1>1. CASE Read(s) \/ Order(s) \/ CallRefused(s) \/ Catch(s)
  <2>1. UNCHANGED <<row, worldVars, ghostVars, events>>
    BY <1>1 DEF Read, Order, CallRefused, Catch
  <2> QED
    BY <2>1, WorldSame DEF worldVars
<1>2. CASE Persist(s)
  <2>1. pc[s] = "persist" /\ UNCHANGED <<shop, parcel, maker, refused, events>>
    BY <1>2 DEF Persist
  <2>2. hand[s] \in Parcel /\ seen[s].track = NoParcel
    BY <1>a, <2>1 DEF SlotPlace, ActorTypeOK
  <2>3. CASE Still(s)
    <3>1. /\ row' = [row EXCEPT !.status = "booked", !.track = hand[s]] /\ Overlook(s)
          /\ UNCHANGED stray
      BY <1>2, <2>3 DEF Persist
    <3>2. /\ row' \in Row /\ row'.id = row.id /\ row'.track = hand[s] /\ row'.status = "booked"
      BY <1>a, <2>2, <3>1 DEF Row, Status
    <3>3. parcel[hand[s]] # "none" /\ maker[hand[s]] = Lane(job[s])
      BY <1>a, <2>2 DEF SlotPlace, Parcel, NoParcel
    <3>4. seen[s].id = RowOf(job[s])
      BY <1>a, <2>1 DEF SlotPlace, Booking
    <3>5. Lane(job[s]) # NoJob /\ Lane(job[s])[2] = RowOf(job[s])
      BY <2>1, HasJob, JobFacts
    <3>6. Numbered(row)'
      BY <2>1, <2>3, <3>2, <3>3, <3>4, <3>5 DEF Numbered, Still
    <3>7. Exists' /\ UNCHANGED dropped /\ parcel' \in [Parcel -> {"none", "live", "dead"}]
      BY <2>1, <3>1, <3>2 DEF Overlook, RowTypeOK, Exists
    <3>8. row.track # NoParcel => seen[s].track # row.track
      BY <2>2
    <3>9. WorldMove
      BY <1>a, <2>1, <2>3, <3>1, <3>2, <3>6, <3>7, <3>8, WriteMove
    <3> QED
      BY <2>1, <3>1, <3>2, <3>9
  <2>4. CASE ~Still(s)
    <3>1. stray' = stray \cup {hand[s]} /\ UNCHANGED <<row, ghostVars>>
      BY <1>2, <2>4 DEF Persist
    <3>2. stray' \subseteq Parcel
      BY <2>2, <3>1 DEF RowTypeOK
    <3> QED
      BY <2>1, <3>1, <3>2, StrayMove
  <2> QED
    BY <2>3, <2>4
<1>3. CASE Fulfil(s)
  <2>1. UNCHANGED <<row, parcel, maker, stray, refused, ghostVars, events>>
    BY <1>3 DEF Fulfil
  <2>2. shop' \in {"open", "fulfilled", "closed"}
    BY <1>3 DEF Fulfil, RowTypeOK
  <2> QED
    BY <2>1, <2>2, ShopMove
<1>4. CASE StoreGid(s) \/ Affirm(s) \/ Revert(s)
  <2>1. UNCHANGED <<worldVars, ghostVars, events>>
    BY <1>4 DEF StoreGid, Affirm, Revert
  <2>2. CASE row' = row
    BY <2>1, <2>2, WorldSame DEF worldVars
  <2>3. CASE row' # row
    <3>1. /\ Still(s)
          /\ \/ row' = [row EXCEPT !.ful = TRUE]
             \/ row' = [row EXCEPT !.status = "booked"]
             \/ row' = [row EXCEPT !.status = "address_issue"]
      BY <1>4, <2>3 DEF StoreGid, Affirm, Revert
    <3>2. row' \in Row /\ row'.id = row.id /\ row'.track = row.track /\ row'.status # "none"
      BY <1>a, <3>1 DEF Row, Status, Still, Exists
    <3> QED
      BY <2>1, <3>1, <3>2, StatusMove DEF Still, worldVars
  <2> QED
    BY <2>2, <2>3
<1>5. CASE Trip(s)
  <2>1. /\ UNCHANGED <<row, shop, parcel, maker, refused, ghostVars>> /\ Event
        /\ stray' = stray \cup ({hand[s]} \ {NoParcel})
    BY <1>5 DEF Trip
  <2>2. stray' \subseteq Parcel
    BY <1>a, <2>1 DEF RowTypeOK, ActorTypeOK
  <2> QED
    BY <2>1, <2>2, StrayMove
<1>6. CASE CatchFails(s)
  <2>1. UNCHANGED <<row, worldVars, blind, blank>> /\ Event /\ dropped' = dropped \cup {RowOf(job[s])}
    BY <1>6 DEF CatchFails
  <2>2. RowOf(job[s]) \in 1..MaxRows
    BY <1>6, HasJob DEF CatchFails
  <2>3. dropped' \subseteq 1..MaxRows
    BY <2>1, <2>2 DEF RowTypeOK
  <2>4. RowTypeOK'
    BY <2>1, <2>3, ConstFacts DEF RowTypeOK, worldVars, Event
  <2>5. SameRow
    BY <2>1 DEF SameRow, OldRow, Exists, CopyInv
  <2> QED
    BY <2>1, <2>4, <2>5 DEF WorldMove, ParcelsKept, worldVars
<1> QED
  BY <1>1, <1>2, <1>3, <1>4, <1>5, <1>6 DEF HandlerStep

\* The calls that book a parcel.
Books(s, p) ==
    /\ Accept(s, p) /\ UNCHANGED <<row, ghostVars>> /\ (Event \/ UNCHANGED events)
    /\ stray \subseteq stray' /\ pc[s] = "call"

LEMMA CallBooks ==
    ASSUME ActorTypeOK, NEW s \in Slot, Call(s) \/ CallUnheard(s)
    PROVE  /\ \E p \in Parcel :
                 /\ Books(s, p)
                 /\ \/ stray' = stray /\ hand'[s] = p /\ pc'[s] = "persist"
                    \/ stray' = stray \cup {p} /\ hand'[s] = NoParcel /\ pc'[s] = "catch"
           /\ seen' = seen
<1>1. s \in Actor
  BY DEF Actor
<1>2. CASE Call(s)
  BY <1>1, <1>2 DEF Call, Books, Goto, ActorTypeOK, ghostVars
<1>3. CASE CallUnheard(s)
  BY <1>1, <1>3 DEF CallUnheard, Raise, Books, ActorTypeOK, ghostVars
<1> QED
  BY <1>2, <1>3

LEMMA BookFacts ==
    ASSUME RowTypeOK, JobInv, CopyInv, NEW s \in Slot, NEW p \in Parcel, Books(s, p),
           stray' \subseteq Parcel
    PROVE  /\ parcel[p] = "none"
           /\ parcel' = [parcel EXCEPT ![p] = "live"]
           /\ maker' = [maker EXCEPT ![p] = Lane(job[s])]
           /\ refused' = refused /\ UNCHANGED ghostVars /\ row' = row
           /\ RowTypeOK' /\ SameRow /\ ParcelsGrow
<1>1. /\ Lane(job[s]) \in Carrier \X (1..MaxRows) /\ Lane(job[s]) # NoJob
      /\ Lane(job[s])[2] <= row.id
  BY HasJob, JobFacts DEF Books, CopyInv
<1>2. /\ parcel' = [parcel EXCEPT ![p] = "live"] /\ maker' = [maker EXCEPT ![p] = Lane(job[s])]
      /\ refused' = refused /\ UNCHANGED ghostVars /\ row' = row /\ shop' = shop
      /\ Event \/ UNCHANGED events
  BY DEF Books, Accept, ghostVars
<1>3. parcel[p] = "none"
  BY DEF Books, Accept, Parcel
<1>4. RowTypeOK'
  BY <1>1, <1>2, ConstFacts DEF RowTypeOK, Event, ghostVars
<1>5. SameRow
  BY <1>2 DEF SameRow, OldRow, Exists, CopyInv
<1>6. ParcelsGrow
  BY <1>1, <1>2, <1>3 DEF ParcelsGrow, RowTypeOK
<1> QED
  BY <1>2, <1>3, <1>4, <1>5, <1>6

\* What all steps of a job do to the world.
SlotWorld(s) ==
    /\ RowTypeOK' /\ SameRow /\ ParcelsGrow /\ row'.id = row.id
    /\ stray \subseteq stray' /\ refused \subseteq refused'
    /\ blind \subseteq blind' /\ blank \subseteq blank' /\ dropped \subseteq dropped'
    /\ \A p \in blind' : p \in blind \/ p = row.track
    /\ \A p \in Parcel : parcel[p] = "dead" => parcel'[p] = "dead"

LEMMA SlotWorlds ==
    ASSUME RowTypeOK, JobInv, CopyInv, PlaceInv, NEW s \in Slot, HandlerStep(s)
    PROVE  SlotWorld(s)
<1>1. CASE Call(s) \/ CallUnheard(s)
  <2>1. PICK p \in Parcel : Books(s, p) /\ (stray' = stray \/ stray' = stray \cup {p})
    BY <1>1, CallBooks DEF JobInv
  <2>2. stray' \subseteq Parcel
    BY <2>1 DEF RowTypeOK
  <2>3. /\ parcel[p] = "none" /\ parcel' = [parcel EXCEPT ![p] = "live"]
        /\ refused' = refused /\ UNCHANGED ghostVars /\ row' = row
        /\ RowTypeOK' /\ SameRow /\ ParcelsGrow
    BY <2>1, <2>2, BookFacts DEF ghostVars
  <2>4. \A q \in Parcel : parcel[q] = "dead" => parcel'[q] = "dead"
    BY <2>3 DEF RowTypeOK
  <2> QED
    BY <2>1, <2>3, <2>4 DEF SlotWorld, ghostVars
<1>2. CASE ~Call(s) /\ ~CallUnheard(s)
  <2>1. WorldMove /\ UNCHANGED maker /\ stray \subseteq stray' /\ row'.id = row.id
    BY <1>2, SlotMoves
  <2>2. RowTypeOK' /\ (NewRow \/ SameRow) /\ ParcelsKept
    BY <2>1 DEF WorldMove
  <2>3. SameRow
    <3>1. row.id \in Nat
      BY ConstFacts DEF RowTypeOK, Row
    <3> QED
      BY <2>1, <2>2, <3>1 DEF NewRow
  <2>4. ParcelsGrow
    BY <2>1, <2>2 DEF ParcelsKept, ParcelsGrow, RowTypeOK, CopyInv
  <2> QED
    BY <2>1, <2>2, <2>3, <2>4 DEF SlotWorld, ParcelsKept
<1> QED
  BY <1>1, <1>2

\* The copy of a job is the row at its read, or in its catch.
LEMMA SlotSeen ==
    ASSUME RowTypeOK, ActorTypeOK, NEW s \in Slot, HandlerStep(s)
    PROVE  /\ SeenMove(s)
           /\ \/ seen'[s] = seen[s]
              \/ pc'[s] = "idle" /\ seen'[s] = NoRow
              \/ Read(s) \/ Catch(s)
<1>1. s \in Actor
  BY DEF Actor
<1>2. CASE GivesBack(s)
  BY <1>2, NoRowFacts DEF GivesBack, SeenMove
<1>3. CASE GoesOn(s) /\ Read(s)
  <2>1. seen' = [seen EXCEPT ![s] = row]
    BY <1>1, <1>3 DEF GoesOn, Read, Finish, Leave, ActorTypeOK
  <2> QED
    BY <1>1, <1>3, <2>1 DEF SeenMove, ActorTypeOK
<1>4. CASE Catch(s)
  <2>1. seen'[s] = row \/ seen'[s] = NoRow
    BY <1>1, <1>4 DEF Catch, ActorTypeOK
  <2> QED
    BY <1>4, <2>1, NoRowFacts DEF SeenMove
<1>5. CASE GoesOn(s) /\ ~Read(s) /\ ~Catch(s)
  <2>1. ~Finish(s) /\ ~Throw(s)
    BY <1>1, <1>5 DEF GoesOn, Finish, Throw, Leave, ActorTypeOK
  <2>2. UNCHANGED seen
    BY <1>5, <2>1 DEF HandlerStep, Order, Call, CallRefused, CallUnheard, Persist, Fulfil, StoreGid,
       Affirm, Revert, Trip, CatchFails, Raise, Step
  <2> QED
    BY <2>2 DEF SeenMove
<1> QED
  BY <1>2, <1>3, <1>4, <1>5, SlotFrames

LEMMA SlotCopies ==
    ASSUME RowTypeOK, JobInv, CopyInv, PlaceInv, NEW s \in Slot, HandlerStep(s)
    PROVE  CopyInv'
<1>1. SlotFrame(s) /\ (GoesOn(s) \/ GivesBack(s)) /\ ActorTypeOK
  BY SlotFrames DEF JobInv
<1>2. SlotWorld(s)
  BY SlotWorlds
<1>3. \A a \in Actor : SeenMove(a)
  BY <1>1, SlotSeen, SlotAlone DEF SeenMove
<1>4. ActorTypeOK'
  BY <1>1, SlotAlone
<1>5. \A j \in JobId : state'[j] # "none" => state[j] # "none"
  BY <1>1 DEF GoesOn, GivesBack, queueVars, Queue!Finish, Queue!Err, Queue!Set, JobInv, QueueTypeOK
<1> QED
  BY <1>1, <1>2, <1>3, <1>4, <1>5, CopyStep DEF SlotWorld

\* The place a job goes to.
LEMMA SlotGoes ==
    ASSUME RowTypeOK, JobInv, CopyInv, PlaceInv, NEW s \in Slot, HandlerStep(s)
    PROVE  SlotPlace(s)'
<1>a. s \in Actor /\ SlotPlace(s) /\ ActorTypeOK
  BY DEF Actor, PlaceInv, JobInv
<1>b. SlotFrame(s) /\ (GoesOn(s) \/ GivesBack(s)) /\ SlotWorld(s)
  BY <1>a, SlotFrames, SlotWorlds
<1>c. ASSUME pc[s] \in Booking, Raise(s, "permanent") \/ Raise(s, "transient") PROVE SlotPlace(s)'
  <2>1. /\ pc'[s] = "catch" /\ seen' = seen /\ hand'[s] = NoParcel /\ job'[s] = job[s]
    BY <1>a, <1>c, RaiseFrame DEF Booking, GoesOn
  <2> QED
    BY <1>a, <1>c, <2>1 DEF SlotPlace, Booking
<1>d. ASSUME GoesOn(s), pc[s] \in Booking, pc'[s] \in {"fulfil", "gid", "affirm"},
             seen'[s] = seen[s], hand'[s] = NoParcel
      PROVE  SlotPlace(s)'
  BY <1>a, <1>d DEF SlotPlace, Booking, GoesOn
<1>1. CASE GivesBack(s)
  BY <1>1 DEF GivesBack, SlotPlace, Booking
<1>2. CASE GoesOn(s) /\ Read(s)
  <2>1. /\ Bookable(job[s]) /\ Goto(s, "read", "order") /\ seen' = [seen EXCEPT ![s] = row]
        /\ UNCHANGED <<job, hand>>
    BY <1>a, <1>2 DEF GoesOn, Read, Finish, Leave, ActorTypeOK
  <2>2. pc'[s] = "order" /\ pc[s] = "read" /\ seen'[s] = row
    BY <1>a, <2>1 DEF Goto, ActorTypeOK
  <2> QED
    BY <1>a, <2>1, <2>2 DEF SlotPlace, Booking, Bookable
<1>3. CASE Order(s)
  <2>1. /\ pc[s] = "order" /\ pc'[s] \in {"call", "fulfil", "affirm"}
        /\ pc'[s] = "call" => seen[s].track = NoParcel
        /\ UNCHANGED <<seen, job, hand>>
    BY <1>a, <1>3 DEF Order, NeedsCourier, AfterCourier, Goto, ActorTypeOK
  <2> QED
    BY <1>a, <2>1 DEF SlotPlace, Booking
<1>4. CASE Call(s)
  <2>1. PICK p \in Parcel : /\ Accept(s, p) /\ UNCHANGED stray /\ UNCHANGED <<seen, job>>
                            /\ Goto(s, "call", "persist") /\ hand' = [hand EXCEPT ![s] = p]
    BY <1>4 DEF Call
  <2>2. pc[s] = "call" /\ pc'[s] = "persist" /\ hand'[s] = p
    BY <1>a, <2>1 DEF Goto, ActorTypeOK
  <2>3. parcel'[p] = "live" /\ maker'[p] = Lane(job[s])
    BY <2>1 DEF Accept, RowTypeOK
  <2> QED
    BY <1>a, <2>1, <2>2, <2>3 DEF SlotPlace, Booking, NoParcel, Parcel
<1>5. CASE CallRefused(s) \/ CallUnheard(s) \/ Trip(s)
  BY <1>5, <1>c DEF CallRefused, CallUnheard, Trip, Booking
<1>6. CASE Persist(s)
  <2>1. CASE Still(s)
    <3>1. /\ pc[s] = "persist" /\ pc'[s] \in {"fulfil", "affirm"} /\ UNCHANGED <<seen, job>>
          /\ hand'[s] = NoParcel
      BY <1>a, <1>6, <2>1 DEF Persist, AfterCourier, Goto, ActorTypeOK
    <3> QED
      BY <1>a, <3>1 DEF SlotPlace, Booking
  <2> QED
    BY <1>6, <1>c, <2>1 DEF Persist, Booking
<1>7. CASE GoesOn(s) /\ (Fulfil(s) \/ StoreGid(s))
  <2>1. CASE Raise(s, "permanent")
    BY <1>7, <1>c, <2>1 DEF Fulfil, StoreGid, Booking
  <2>2. CASE \E from, to \in {"fulfil", "gid", "affirm"} : Step(s, from, to)
    <3>1. pc[s] \in {"fulfil", "gid"} /\ pc'[s] \in {"fulfil", "gid", "affirm"} /\ UNCHANGED <<seen, hand>>
      BY <1>a, <1>7, <2>2 DEF Fulfil, StoreGid, Step, Goto, ActorTypeOK
    <3> QED
      BY <1>7, <1>a, <1>d, <3>1 DEF SlotPlace, Booking
  <2>3. ~Finish(s)
    BY <1>a, <1>7 DEF GoesOn, Finish, Leave, ActorTypeOK
  <2> QED
    BY <1>7, <2>1, <2>2, <2>3 DEF Fulfil, StoreGid
<1>8. CASE Catch(s)
  <2>1. /\ pc[s] = "catch" /\ pc'[s] = "revert" /\ UNCHANGED <<job, hand>>
        /\ seen'[s] = IF Still(s) THEN row ELSE NoRow
    BY <1>a, <1>8 DEF Catch, Goto, slotVars, ActorTypeOK
  <2> QED
    BY <1>a, <2>1, NoRowFacts DEF SlotPlace, Booking, Still
<1>9. CASE Affirm(s) \/ Revert(s) \/ CatchFails(s)
  <2>1. ~GoesOn(s)
    BY <1>a, <1>9 DEF Affirm, Revert, CatchFails, Finish, Throw, Leave, GoesOn, ActorTypeOK
  <2> QED
    BY <1>1, <1>b, <2>1
<1> QED
  BY <1>b, <1>1, <1>2, <1>3, <1>4, <1>5, <1>6, <1>7, <1>8, <1>9 DEF HandlerStep

LEMMA SlotPlaces ==
    ASSUME RowTypeOK, JobInv, CopyInv, PlaceInv, NEW s \in Slot, HandlerStep(s)
    PROVE  PlaceInv'
<1>1. SlotFrame(s) /\ ActorTypeOK /\ SlotWorld(s)
  BY SlotFrames, SlotWorlds DEF JobInv
<1>2. /\ \A r \in Request : pc'[r] = pc[r] /\ seen'[r] = seen[r]
      /\ \A t \in Slot : t # s => /\ pc'[t] = pc[t] /\ seen'[t] = seen[t]
                                  /\ job'[t] = job[t] /\ hand'[t] = hand[t]
  BY <1>1, SlotAlone
<1>3. \A r \in Request : RequestPlace(r)'
  BY <1>1, <1>2, RequestStays DEF SlotWorld, PlaceInv
<1>4. \A t \in Slot : t # s => SlotPlace(t)'
  BY <1>1, <1>2, SlotStays DEF SlotWorld, PlaceInv
<1>5. SlotPlace(s)'
  BY SlotGoes
<1> QED
  BY <1>3, <1>4, <1>5 DEF PlaceInv

\* A parcel just booked is in the hand of its job, or given up for lost.
LEMMA SlotKnown ==
    ASSUME RowTypeOK, JobInv, CopyInv, PlaceInv, KnownInv, NEW s \in Slot, HandlerStep(s)
    PROVE  KnownInv'
<1>a. /\ SlotFrame(s) /\ ActorTypeOK /\ SlotPlace(s) /\ s \in Actor
      /\ \A t \in Slot : t # s => hand'[t] = hand[t]
  BY SlotFrames, SlotAlone DEF JobInv, PlaceInv, Actor
<1>1. CASE Call(s) \/ CallUnheard(s)
  <2>1. PICK p \in Parcel : /\ Books(s, p) /\ (stray' = stray \/ stray' = stray \cup {p})
                            /\ p \in stray' \/ hand'[s] = p
    BY <1>1, <1>a, CallBooks
  <2>2. stray' \subseteq Parcel
    BY <2>1 DEF RowTypeOK
  <2>3. /\ parcel[p] = "none" /\ parcel' = [parcel EXCEPT ![p] = "live"]
        /\ maker' = [maker EXCEPT ![p] = Lane(job[s])]
        /\ refused' = refused /\ blind' = blind /\ row' = row
    BY <2>1, <2>2, BookFacts DEF ghostVars
  <2>4. hand[s] = NoParcel
    BY <1>a, <2>1 DEF Books, SlotPlace
  <2>5. Lost \subseteq Lost'
    BY <2>1, <2>3 DEF Lost
  <2> SUFFICES ASSUME NEW q \in Parcel, Live(q)' PROVE Known(q)'
    BY DEF KnownInv
  <2>6. CASE q = p
    BY <2>1, <2>6 DEF Known, Lost
  <2>7. CASE q # p
    <3>1. Live(q) /\ maker'[q] = maker[q]
      BY <2>3, <2>7 DEF Live, RowTypeOK
    <3>2. Known(q)
      BY <3>1 DEF KnownInv
    <3>3. (\E t \in Slot : hand[t] = q) => \E t \in Slot : hand'[t] = q
      BY <1>a, <2>4 DEF Parcel, NoParcel
    <3> QED
      BY <2>3, <2>5, <3>1, <3>2, <3>3 DEF Known, Exists
  <2> QED
    BY <2>6, <2>7
<1>2. CASE ~Call(s) /\ ~CallUnheard(s)
  <2>1. WorldMove /\ UNCHANGED maker /\ stray \subseteq stray'
    BY <1>2, SlotMoves
  <2>2. hand'[s] = hand[s] \/ hand[s] \in {NoParcel, row'.track} \cup stray'
    <3>1. CASE pc[s] # "persist"
      BY <1>a, <3>1 DEF SlotPlace
    <3>2. CASE pc[s] = "persist"
      <4>1. Persist(s) \/ Trip(s)
        BY <3>2, <1>2, <1>a DEF HandlerStep, Read, Order, CallRefused, Fulfil, StoreGid, Affirm, Catch,
           Revert, CatchFails, Goto
      <4>2. CASE Trip(s)
        BY <4>2, <1>a DEF Trip, ActorTypeOK
      <4>3. CASE Persist(s) /\ Still(s)
        <5>1. row'.track = hand[s]
          BY <4>3 DEF Persist, RowTypeOK, Row
        <5> QED
          BY <5>1
      <4>4. CASE Persist(s) /\ ~Still(s)
        BY <4>4 DEF Persist
      <4> QED
        BY <4>1, <4>2, <4>3, <4>4
    <3> QED
      BY <3>1, <3>2
  <2> QED
    BY <1>a, <2>1, <2>2, KnownStep
<1> QED
  BY <1>1, <1>2

\* A lane has one job under way.
LEMMA LaneAlone ==
    ASSUME JobInv, NEW s \in Slot, NEW t \in Slot, pc[s] # "idle", pc[t] # "idle",
           Lane(job[s]) = Lane(job[t])
    PROVE  s = t
BY HasJob, JobFacts DEF JobInv, Serial, Alone

\* A job gets to the courier by its read and by the look at the order.
LEMMA SlotAsks ==
    ASSUME RowTypeOK, JobInv, NEW s \in Slot, HandlerStep(s), Asks(s)'
    PROVE  /\ job'[s] = job[s]
           /\ Asks(s) \/ (pc[s] = "read" /\ Bookable(job[s]) /\ row.track = NoParcel)
<1>a. s \in Actor /\ ActorTypeOK /\ pc'[s] \in {"order", "call"} /\ seen'[s].track = NoParcel
  BY DEF Actor, JobInv, Asks
<1>b. SlotFrame(s) /\ GoesOn(s)
  BY <1>a, SlotFrames DEF GivesBack
<1>c. ~Finish(s) /\ ~Throw(s) /\ ~Raise(s, "permanent") /\ ~Raise(s, "transient")
  BY <1>a DEF Finish, Throw, Leave, Raise, ActorTypeOK
<1>1. CASE Read(s)
  BY <1>1, <1>a, <1>b, <1>c DEF Read, GoesOn, ActorTypeOK
<1>2. CASE Order(s)
  BY <1>2, <1>a, <1>b DEF Order, Goto, GoesOn, Asks
<1>3. CASE Persist(s)
  BY <1>3, <1>a, <1>c DEF Persist, AfterCourier, Goto, ActorTypeOK
<1>4. CASE ~Read(s) /\ ~Order(s) /\ ~Persist(s)
  BY <1>4, <1>a, <1>c DEF HandlerStep, Call, CallRefused, CallUnheard, Fulfil, StoreGid, Affirm, Catch,
     Revert, Trip, CatchFails, Step, Goto, ActorTypeOK
<1> QED
  BY <1>1, <1>2, <1>3, <1>4

\* A job asks the courier when its lane has no parcel that is not lost: it has
\* seen no number, and no other job holds one of its lane.
LEMMA SlotLanes ==
    ASSUME RowTypeOK, JobInv, CopyInv, PlaceInv, KnownInv, LaneInv, NEW s \in Slot, HandlerStep(s)
    PROVE  LaneInv'
<1>a. /\ SlotFrame(s) /\ ActorTypeOK /\ s \in Actor
      /\ \A t \in Slot : t # s => pc'[t] = pc[t] /\ seen'[t] = seen[t] /\ job'[t] = job[t]
  BY SlotFrames, SlotAlone DEF JobInv, Actor
<1>1. CASE Call(s) \/ CallUnheard(s)
  <2>1. PICK p \in Parcel : /\ Books(s, p) /\ (stray' = stray \/ stray' = stray \cup {p})
                            /\ pc'[s] \in {"persist", "catch"}
    BY <1>1, <1>a, CallBooks
  <2>2. stray' \subseteq Parcel
    BY <2>1 DEF RowTypeOK
  <2>3. /\ parcel[p] = "none" /\ parcel' = [parcel EXCEPT ![p] = "live"]
        /\ maker' = [maker EXCEPT ![p] = Lane(job[s])] /\ blind' = blind
    BY <2>1, <2>2, BookFacts DEF ghostVars
  <2>4. Lost \subseteq Lost'
    BY <2>1, <2>3 DEF Lost
  <2>5. pc[s] = "call" /\ Asks(s)
    BY <2>1 DEF Books, PlaceInv, SlotPlace, Asks
  <2>6. \A q \in Parcel : q # p => (Live(q)' <=> Live(q)) /\ maker'[q] = maker[q]
    BY <2>3 DEF Live, RowTypeOK
  <2>7. maker'[p] = Lane(job[s])
    BY <2>3 DEF RowTypeOK
  <2>8. \A q \in Parcel : q # p /\ Live(q) /\ maker[q] = Lane(job[s]) => q \in Lost
    BY <2>5 DEF LaneInv, AskInv
  <2>9. OneParcelPerLane'
    <3> SUFFICES ASSUME NEW x \in Parcel, NEW y \in Parcel, x # y, Live(x)', Live(y)',
                        maker'[x] = maker'[y]
                 PROVE  {x, y} \cap Lost' # {}
      BY DEF OneParcelPerLane
    <3>1. CASE x # p /\ y # p
      BY <2>4, <2>6, <3>1 DEF LaneInv, OneParcelPerLane
    <3>2. CASE x = p
      BY <2>4, <2>6, <2>7, <2>8, <3>2
    <3>3. CASE y = p
      BY <2>4, <2>6, <2>7, <2>8, <3>3
    <3> QED
      BY <3>1, <3>2, <3>3
  <2>10. AskInv'
    <3> SUFFICES ASSUME NEW t \in Slot, Asks(t)', NEW q \in Parcel, Live(q)', maker'[q] = Lane(job'[t])
                 PROVE  q \in Lost'
      BY DEF AskInv
    <3>1. t # s
      BY <2>1 DEF Asks
    <3>2. Asks(t) /\ job'[t] = job[t] /\ pc[t] # "idle"
      BY <1>a, <3>1 DEF Asks
    <3>3. Lane(job[t]) # Lane(job[s])
      BY <2>5, <3>1, <3>2, LaneAlone
    <3>4. q # p
      BY <2>7, <3>2, <3>3
    <3> QED
      BY <2>4, <2>6, <3>2, <3>4 DEF LaneInv, AskInv
  <2> QED
    BY <2>9, <2>10 DEF LaneInv
<1>2. CASE ~Call(s) /\ ~CallUnheard(s)
  <2>1. WorldMove /\ maker' = maker /\ stray \subseteq stray'
    BY <1>2, SlotMoves
  <2>2. Lost \subseteq Lost' /\ \A q \in Parcel : Live(q)' => Live(q)
    BY <2>1 DEF WorldMove, ParcelsKept, Lost, Live, RowTypeOK
  <2>3. OneParcelPerLane'
    BY <2>1, <2>2 DEF LaneInv, OneParcelPerLane
  <2>4. AskInv'
    <3> SUFFICES ASSUME NEW t \in Slot, Asks(t)', NEW q \in Parcel, Live(q)', maker'[q] = Lane(job'[t])
                 PROVE  q \in Lost'
      BY DEF AskInv
    <3>1. CASE Asks(t) /\ job'[t] = job[t]
      BY <2>1, <2>2, <3>1 DEF LaneInv, AskInv
    <3>2. CASE t # s
      BY <1>a, <3>1, <3>2 DEF Asks
    <3>3. CASE t = s /\ pc[s] = "read" /\ Bookable(job[s]) /\ row.track = NoParcel /\ job'[s] = job[s]
      <4>1. Live(q) /\ maker[q] = Lane(job[s]) /\ Known(q) /\ q # NoParcel
        BY <2>1, <2>2, <3>3 DEF KnownInv, Parcel, NoParcel
      <4>2. ASSUME NEW u \in Slot, hand[u] = q PROVE FALSE
        <5>1. pc[u] = "persist" /\ maker[q] = Lane(job[u])
          BY <4>1, <4>2 DEF PlaceInv, SlotPlace
        <5>2. u = s
          BY <3>3, <4>1, <5>1, LaneAlone
        <5> QED
          BY <3>3, <5>1, <5>2
      <4>3. row.id = maker[q][2] /\ Exists
        BY <3>3, <4>1, HasJob DEF Bookable, Exists
      <4>4. q \in Lost
        BY <3>3, <4>1, <4>2, <4>3 DEF Known
      <4> QED
        BY <2>2, <4>4
    <3> QED
      BY <3>1, <3>2, <3>3, SlotAsks
  <2> QED
    BY <2>3, <2>4 DEF LaneInv
<1> QED
  BY <1>1, <1>2

\* A job past the courier read the number on the row, or wrote it there.
LEMMA SlotPasts ==
    ASSUME RowTypeOK, JobInv, CopyInv, PlaceInv, PastInv, NEW s \in Slot, HandlerStep(s)
    PROVE  PastInv'
<1>a. /\ SlotFrame(s) /\ (GoesOn(s) \/ GivesBack(s)) /\ ActorTypeOK /\ s \in Actor /\ SlotWorld(s)
      /\ \A t \in Slot : t # s => pc'[t] = pc[t] /\ seen'[t] = seen[t] /\ job'[t] = job[t]
  BY SlotFrames, SlotWorlds, SlotAlone DEF JobInv, Actor
<1>1. ASSUME NEW t \in Slot, Past(t), job'[t] = job[t], Exists', row'.id = RowOf(job'[t])
      PROVE  HasNumber'
  BY <1>1, <1>a, NumberStays DEF PastInv, SlotWorld, SameRow
<1>2. ASSUME Past(s)'
      PROVE  job'[s] = job[s] /\ (Past(s) \/ row'.track # NoParcel)
  <2>a. /\ GoesOn(s) /\ SlotPlace(s)
        /\ ~Finish(s) /\ ~Throw(s) /\ ~Raise(s, "permanent") /\ ~Raise(s, "transient")
    BY <1>a, <1>2 DEF GivesBack, Past, Finish, Throw, Leave, Raise, ActorTypeOK, PlaceInv
  <2>b. pc'[s] \in {"order", "fulfil", "gid", "affirm"}
    BY <1>2 DEF Past
  <2>1. CASE Read(s)
    <3>1. pc'[s] = "order" /\ seen'[s] = row /\ row' = row
      BY <1>a, <2>1, <2>a DEF Read, Goto, ActorTypeOK
    <3> QED
      BY <1>2, <2>a, <3>1 DEF GoesOn, Past
  <2>2. CASE Order(s)
    <3>1. /\ pc[s] = "order" /\ seen'[s] = seen[s]
          /\ pc'[s] = IF NeedsCourier(s) THEN "call" ELSE AfterCourier(s)
      BY <1>a, <2>2 DEF Order, Goto, ActorTypeOK
    <3> QED
      BY <2>a, <2>b, <3>1 DEF GoesOn, Past, NeedsCourier
  <2>3. CASE Persist(s)
    <3>1. row'.track = hand[s] /\ pc[s] = "persist"
      BY <2>3, <2>a DEF Persist, RowTypeOK, Row
    <3> QED
      BY <2>a, <3>1 DEF GoesOn, SlotPlace
  <2>4. CASE Fulfil(s) \/ StoreGid(s)
    BY <2>4, <2>a DEF GoesOn, Past, Fulfil, StoreGid
  <2>5. CASE ~Read(s) /\ ~Order(s) /\ ~Persist(s) /\ ~Fulfil(s) /\ ~StoreGid(s)
    BY <1>a, <2>5, <2>a, <2>b DEF HandlerStep, Call, CallRefused, CallUnheard, Affirm, Catch, Revert,
       Trip, CatchFails, Goto, ActorTypeOK
  <2> QED
    BY <2>1, <2>2, <2>3, <2>4, <2>5
<1>3. \A t \in Slot : t # s /\ Past(t)' => Past(t)
  BY <1>a DEF Past
<1> QED
  BY <1>1, <1>2, <1>3, <1>a DEF PastInv, HasNumber

\* A job of the row that does not work on has seen that it need not.
LEMMA SlotWork ==
    ASSUME RowTypeOK, JobInv, CopyInv, PlaceInv, PastInv, WorkInv, NEW s \in Slot, HandlerStep(s)
    PROVE  WorkInv'
<1>a. /\ SlotFrame(s) /\ (GoesOn(s) \/ GivesBack(s)) /\ ActorTypeOK /\ s \in Actor
      /\ SlotWorld(s) /\ SlotPlace(s)
      /\ \A r \in Request : pc'[r] = pc[r] /\ seen'[r] = seen[r]
      /\ \A t \in Slot : t # s => pc'[t] = pc[t] /\ seen'[t] = seen[t] /\ job'[t] = job[t]
  BY SlotFrames, SlotWorlds, SlotAlone DEF JobInv, Actor, PlaceInv
<1>b. row'.id = row.id /\ dropped \subseteq dropped'
  BY <1>a DEF SlotWorld
<1>c. ~Exists' => Unbooked'
  BY DEF Exists, Unbooked
<1>d. HasNumber => HasNumber' \/ Unbooked'
  BY <1>a, <1>c, NumberStays DEF SlotWorld
<1>e. row.id \in Owed(Request) => row'.id \in Owed(Request)'
  BY <1>a, <1>b DEF Owed
<1>f. pc[s] # "idle" /\ job[s] \in JobId /\ state[job[s]] = "running"
  <2>1. pc[s] # "idle"
    BY <1>a DEF GoesOn, GivesBack
  <2> QED
    BY <2>1, HasJob
<1>1. CASE Unbooked
  <2>1. CASE row' = row
    BY <1>1, <1>b, <2>1 DEF Unbooked, WorkInv
  <2>2. CASE row' # row
    <3>1. \/ Persist(s) /\ Still(s) /\ row' = [row EXCEPT !.status = "booked", !.track = hand[s]]
          \/ StoreGid(s) /\ Still(s) /\ row' = [row EXCEPT !.ful = TRUE]
          \/ Affirm(s) /\ Still(s) /\ row' = [row EXCEPT !.status = "booked"]
          \/ Revert(s) /\ row' = [row EXCEPT !.status = "address_issue"]
      BY <2>2 DEF HandlerStep, Read, Order, Call, CallRefused, CallUnheard, Persist, Fulfil,
         StoreGid, Affirm, Catch, Revert, Trip, CatchFails
    <3>2. CASE Persist(s) /\ row' = [row EXCEPT !.status = "booked", !.track = hand[s]]
      <4>1. row'.track = hand[s] /\ pc[s] = "persist"
        BY <3>2 DEF Persist, RowTypeOK, Row
      <4> QED
        BY <1>a, <4>1 DEF SlotPlace, HasNumber, WorkInv
    <3>3. CASE row' = [row EXCEPT !.ful = TRUE]
      BY <1>1, <1>b, <3>3 DEF Unbooked, RowTypeOK, Row, WorkInv
    <3>4. CASE Affirm(s) /\ Still(s)
      <4>1. Past(s) /\ Exists /\ row.id = RowOf(job[s])
        BY <1>a, <3>4 DEF Affirm, Past, SlotPlace, Booking, Still
      <4> QED
        BY <1>d, <4>1 DEF PastInv, WorkInv
    <3>5. CASE row' = [row EXCEPT !.status = "address_issue"]
      BY <3>5 DEF Unbooked, RowTypeOK, Row, WorkInv
    <3> QED
      BY <3>1, <3>2, <3>3, <3>4, <3>5
  <2> QED
    BY <2>1, <2>2 DEF WorkInv
<1>2. ASSUME NEW j \in JobId, RowOf(j) = row.id, Works(j), j # job[s] PROVE WorkInv'
  <2>1. state'[j] = state[j] /\ \A t \in Slot : job'[t] = j => t # s /\ job[t] = j
    BY <1>2, <1>a, <1>f, JobFacts DEF GoesOn, GivesBack, queueVars, Queue!Finish, Queue!Err, Queue!Set,
       JobInv, QueueTypeOK
  <2>2. \A t \in Slot : t # s => (Leaving(t)' <=> Leaving(t))
    BY <1>a DEF Leaving
  <2>3. Works(j)'
    BY <1>2, <2>1, <2>2 DEF Works
  <2> QED
    BY <1>2, <1>b, <2>3 DEF WorkInv
<1>3. CASE RowOf(job[s]) = row.id /\ Works(job[s]) /\ ~Unbooked /\ ~HasNumber
  <2>a. ~Leaving(s) /\ Exists /\ row.status = "booked" /\ row.track = NoParcel
    BY <1>3, <1>f DEF Works, Unbooked, Exists, HasNumber
  <2>b. ~Past(s)
    BY <1>3, <2>a DEF PastInv
  <2>1. CASE GoesOn(s)
    <3>1. job'[s] = job[s] /\ (Works(job[s])' \/ Leaving(s)')
      <4>1. state' = state /\ job' = job
        BY <1>a, <2>1 DEF SlotFrame, GoesOn, queueVars, ActorTypeOK
      <4>2. \A t \in Slot : job[t] = job[s] => t = s
        BY <1>f, JobFacts DEF JobInv, Alone
      <4> QED
        BY <1>f, <4>1, <4>2 DEF Works
    <3>2. ~Leaving(s)'
      <4> SUFFICES ASSUME pc'[s] = "revert", ~NotBooked(seen'[s]) PROVE FALSE
        BY DEF Leaving
      <4>1. CASE Catch(s)
        <5>1. pc[s] = "catch" /\ seen'[s] = IF Still(s) THEN row ELSE NoRow
          BY <1>a, <4>1 DEF Catch, Goto, ActorTypeOK
        <5>2. Still(s)
          BY <1>3, <1>a, <2>a, <5>1 DEF SlotPlace, Booking, Still
        <5> QED
          BY <2>a, <5>1, <5>2 DEF NotBooked
      <4>2. ~Finish(s) /\ ~Throw(s) /\ ~Raise(s, "permanent") /\ ~Raise(s, "transient")
        BY <1>a DEF Finish, Throw, Leave, Raise, ActorTypeOK
      <4>3. CASE ~Catch(s)
        BY <1>a, <4>2, <4>3 DEF HandlerStep, Read, Order, Call, CallRefused, CallUnheard, Persist,
           Fulfil, StoreGid, Affirm, Revert, Trip, CatchFails, Step, Goto, ActorTypeOK, AfterCourier
      <4> QED
        BY <4>1, <4>3
    <3> QED
      BY <1>3, <1>b, <1>f, <3>1, <3>2 DEF WorkInv
  <2>2. CASE GivesBack(s)
    <3>1. CASE Read(s)
      <4>1. UNCHANGED row /\ ~Bookable(job[s])
        BY <1>a, <2>2, <3>1 DEF Read, Goto, GivesBack, ActorTypeOK
      <4> QED
        BY <1>3, <2>a, <4>1 DEF Bookable
    <3>2. CASE Fulfil(s) \/ Affirm(s)
      BY <3>2, <2>b DEF Fulfil, Affirm, Past
    <3>3. CASE Revert(s)
      <4>1. pc[s] = "revert" /\ NotBooked(seen[s])
        BY <2>a, <3>3 DEF Revert, Leaving
      <4>2. Still(s)
        BY <1>3, <1>a, <2>a, <4>1 DEF SlotPlace, NotBooked, Still
      <4>3. row' = [row EXCEPT !.status = "address_issue"]
        BY <3>3, <4>1, <4>2 DEF Revert
      <4> QED
        BY <4>3 DEF Unbooked, RowTypeOK, Row, WorkInv
    <3>4. CASE CatchFails(s)
      <4>1. row' = row /\ row.id \in dropped'
        BY <1>3, <3>4 DEF CatchFails
      <4> QED
        BY <4>1 DEF Unbooked, WorkInv
    <3>5. CASE ~Read(s) /\ ~Fulfil(s) /\ ~Affirm(s) /\ ~Revert(s) /\ ~CatchFails(s)
      <4>1. pc'[s] = "idle"
        BY <2>2 DEF GivesBack
      <4> QED
        BY <1>a, <3>5, <4>1 DEF HandlerStep, Order, Call, CallRefused, CallUnheard, Persist, StoreGid,
           Catch, Trip, Step, Raise, Goto, ActorTypeOK, AfterCourier
    <3> QED
      BY <3>1, <3>2, <3>3, <3>4, <3>5
  <2> QED
    BY <1>a, <2>1, <2>2
<1> QED
  BY <1>1, <1>2, <1>3, <1>d, <1>e DEF WorkInv

-----------------------------------------------------------------------------
(* The whole step.                                                          *)

LEMMA RequestKeeps ==
    ASSUME BookingInv, NEW r \in Request, RequestStarts(r) \/ RequestGoesOn(r) \/ RequestFails(r)
    PROVE  BookingInv'
<1> USE DEF BookingInv
<1>1. RequestFrame(r) /\ ActorTypeOK
  BY RequestFrames DEF JobInv
<1>2. WorldMove
  BY <1>1, RequestMoves
<1>3. /\ SlotsStay /\ ActorTypeOK'
      /\ \A q \in Request : q # r => pc'[q] = pc[q] /\ seen'[q] = seen[q]
  BY <1>1, RequestSlots
<1>4. ParcelsGrow /\ maker' = maker /\ stray' = stray /\ job' = job /\ hand' = hand
  BY <1>1, <1>2, RequestGrows
<1>5. RowTypeOK' /\ (NewRow \/ SameRow) /\ ParcelsKept
  BY <1>2 DEF WorldMove
<1>6. JobInv'
  BY <1>1, <1>3, RequestQueue, RequestJobs
<1>7. CopyInv'
  <2>1. \A a \in Actor : SeenMove(a)
    BY <1>1, <1>3, RequestSeen DEF SeenMove, SlotsStay, Actor
  <2>2. \A j \in JobId : state'[j] # "none" => state[j] # "none" \/ RowOf(j) <= row.id
    <3>1. CASE UNCHANGED state
      BY <3>1
    <3>2. ASSUME NEW k \in JobId, Lane(k) = <<seen[r].courier, seen[r].id>>, Queue!Submit(k)
          PROVE  \A j \in JobId : state'[j] # "none" => state[j] # "none" \/ RowOf(j) <= row.id
      <4>1. state' = [state EXCEPT ![k] = "waiting"]
        BY <3>2, SubmitFacts DEF JobInv
      <4>2. RowOf(k) = seen[r].id
        BY <3>2, JobFacts
      <4>3. RowOf(k) <= row.id
        BY <4>2 DEF CopyInv, Actor
      <4> QED
        BY <4>1, <4>3 DEF JobInv, QueueTypeOK
    <3> QED
      BY <3>1, <3>2, RequestQueue
  <2> QED
    BY <1>1, <1>3, <1>4, <1>5, <2>1, <2>2, CopyStep DEF ParcelsKept
<1>8. PlaceInv'
  <2>1. \A q \in Request : q # r => RequestPlace(q)'
    <3>1. \A p \in Parcel : parcel[p] = "dead" => parcel'[p] = "dead"
      BY <1>5 DEF ParcelsKept
    <3> QED
      BY <1>1, <1>3, <1>5, <3>1, RequestStays DEF PlaceInv, ParcelsKept
  <2>2. RequestPlace(r)'
    BY <1>1, <1>2, <1>5, <1>7, RequestGoes DEF PlaceInv
  <2>3. \A s \in Slot : SlotPlace(s)'
    BY <1>1, <1>3, <1>4, SlotStays DEF PlaceInv, SlotsStay
  <2> QED
    BY <2>1, <2>2, <2>3 DEF PlaceInv
<1>9. KnownInv'
  BY <1>2, <1>4, KnownStep
<1>10. LaneInv' /\ PastInv'
  BY <1>1, <1>2, <1>3, RequestLanes, RequestPast
<1>11. WorkInv'
  BY <1>1, <1>2, RequestWork
<1> QED
  BY <1>5, <1>6, <1>7, <1>8, <1>9, <1>10, <1>11

LEMMA HandlerKeeps ==
    ASSUME BookingInv, NEW s \in Slot, HandlerStep(s)
    PROVE  BookingInv'
<1> USE DEF BookingInv
<1>1. SlotFrame(s) /\ (GoesOn(s) \/ GivesBack(s)) /\ SlotWorld(s)
  BY SlotFrames, SlotWorlds DEF JobInv
<1>2. RowTypeOK' /\ JobInv'
  BY <1>1, SlotJobs DEF SlotWorld
<1>3. CopyInv' /\ PlaceInv' /\ KnownInv' /\ LaneInv'
  BY SlotCopies, SlotPlaces, SlotKnown, SlotLanes
<1>4. PastInv' /\ WorkInv'
  BY SlotPasts, SlotWork
<1> QED
  BY <1>2, <1>3, <1>4

\* A job that is taken works, and asks nothing yet.
LEMMA ClaimKeeps ==
    ASSUME BookingInv, NEW s \in Slot, NEW j \in JobId, Claim(s, j)
    PROVE  BookingInv'
<1> USE DEF BookingInv
<1>a. ActorTypeOK /\ s \in Actor
  BY DEF JobInv, Actor
<1>1. /\ SlotFrame(s) /\ Takes(s) /\ UNCHANGED <<row, worldVars, ghostVars, events, seen, hand>>
      /\ pc[s] = "idle" /\ pc'[s] = "read" /\ job'[s] = j /\ Queue!Begin(j)
  <2>1. SlotFrame(s) /\ Takes(s)
    BY <1>a, ClaimFrame
  <2> QED
    BY <1>a, <2>1 DEF Claim, Goto, ActorTypeOK
<1>2. /\ \A r \in Request : pc'[r] = pc[r] /\ seen'[r] = seen[r]
      /\ \A t \in Slot : t # s => /\ pc'[t] = pc[t] /\ seen'[t] = seen[t]
                                  /\ job'[t] = job[t] /\ hand'[t] = hand[t]
      /\ ActorTypeOK'
  BY <1>a, <1>1, SlotAlone
<1>3. WorldMove
  BY <1>1, WorldSame
<1>4. RowTypeOK' /\ SameRow /\ ParcelsKept /\ ParcelsGrow
  <2>1. row.id \in Nat /\ row'.id = row.id
    BY <1>1, ConstFacts DEF RowTypeOK, Row
  <2>2. ParcelsGrow
    BY <1>1 DEF ParcelsGrow, worldVars
  <2> QED
    BY <1>3, <2>1, <2>2 DEF WorldMove, NewRow
<1>5. JobInv'
  BY <1>1, SlotJobs
<1>6. state[j] = "waiting" /\ state' = [state EXCEPT ![j] = "running"]
  BY <1>1 DEF Queue!Begin, Queue!Set
<1>7. CopyInv'
  <2>1. \A a \in Actor : SeenMove(a)
    BY <1>1 DEF SeenMove
  <2>2. \A k \in JobId : state'[k] # "none" => state[k] # "none"
    BY <1>6 DEF JobInv, QueueTypeOK
  <2> QED
    BY <1>a, <1>2, <1>4, <2>1, <2>2, CopyStep DEF ParcelsKept
<1>8. PlaceInv'
  <2>1. \A r \in Request : RequestPlace(r)'
    BY <1>a, <1>1, <1>2, <1>4, RequestStays DEF PlaceInv, ParcelsKept, worldVars
  <2>2. \A t \in Slot : t # s => SlotPlace(t)'
    BY <1>a, <1>2, <1>4, SlotStays DEF PlaceInv
  <2>3. SlotPlace(s)'
    BY <1>1 DEF PlaceInv, SlotPlace, Booking
  <2> QED
    BY <2>1, <2>2, <2>3 DEF PlaceInv
<1>9. KnownInv'
  BY <1>1, <1>3, KnownStep DEF worldVars
<1>10. LaneInv'
  <2>1. \A t \in Slot : Asks(t)' => Asks(t) /\ job'[t] = job[t]
    BY <1>1, <1>2 DEF Asks
  <2>2. OneParcelPerLane'
    BY <1>1 DEF LaneInv, OneParcelPerLane, worldVars, ghostVars, Live, Lost
  <2>3. AskInv'
    BY <1>1, <2>1 DEF LaneInv, AskInv, worldVars, ghostVars, Live, Lost
  <2> QED
    BY <2>2, <2>3 DEF LaneInv
<1>11. PastInv'
  <2>1. \A t \in Slot : Past(t)' => Past(t) /\ job'[t] = job[t]
    BY <1>1, <1>2 DEF Past
  <2> QED
    BY <1>1, <2>1 DEF PastInv, HasNumber, Exists, worldVars, ghostVars
<1>12. WorkInv'
  <2>1. ASSUME NEW k \in JobId, Works(k) PROVE Works(k)'
    <3>1. CASE k = j
      BY <1>1, <1>2, <1>5, <1>6, <3>1, JobFacts DEF Works, Leaving, JobInv, QueueTypeOK, Alone
    <3>2. CASE k # j
      BY <1>1, <1>2, <1>6, <2>1, <3>2 DEF Works, Leaving, JobInv, QueueTypeOK
    <3> QED
      BY <3>1, <3>2
  <2>2. Owed(Request)' = Owed(Request)
    BY <1>1, <1>2 DEF Owed
  <2> QED
    BY <1>1, <2>1, <2>2 DEF WorkInv, Unbooked, HasNumber, worldVars, ghostVars
<1> QED
  BY <1>4, <1>5, <1>7, <1>8, <1>9, <1>10, <1>11, <1>12

\* What a dead process held in its hands is lost, what it owed is dropped, and
\* its jobs wait again.
LEMMA CrashKeeps ==
    ASSUME BookingInv, Crash
    PROVE  BookingInv'
<1> USE DEF BookingInv
<1>1. /\ Event /\ UNCHANGED <<row, shop, parcel, maker, refused, blind, blank>>
      /\ pc' = [a \in Actor |-> "idle"] /\ seen' = [a \in Actor |-> NoRow]
      /\ job' = [s \in Slot |-> NoJob] /\ open' = [s \in Slot |-> FALSE]
      /\ hand' = [s \in Slot |-> NoParcel] /\ flaw' = [s \in Slot |-> "none"]
      /\ stray' = stray \cup ({hand[s] : s \in Slot} \ {NoParcel})
      /\ dropped' = dropped \cup Owed(Request)
      /\ state' = [j \in JobId |-> IF state[j] = "running" THEN "waiting" ELSE state[j]]
      /\ tries' = tries
  BY DEF Crash, Queue!Interrupt
<1>2. Actor = Request \cup Slot
  BY DEF Actor
<1>3. ActorTypeOK'
  BY <1>1, <1>2, NoRowFacts DEF ActorTypeOK, RequestStep, SlotStep
<1>4. JobInv'
  BY <1>1, <1>2, <1>3 DEF JobInv, QueueTypeOK, Attempts, Holding, Alone, Serial
<1>5. RowTypeOK'
  <2>1. stray' \subseteq Parcel
    BY <1>1 DEF RowTypeOK, JobInv, ActorTypeOK
  <2>2. dropped' \subseteq 1..MaxRows
    BY <1>1, OwedFacts DEF RowTypeOK, JobInv
  <2> QED
    BY <1>1, <2>1, <2>2, ConstFacts DEF RowTypeOK, Event
<1>6. SameRow /\ ParcelsKept /\ ParcelsGrow
  BY <1>1 DEF SameRow, OldRow, ParcelsKept, ParcelsGrow, CopyInv, Exists
<1>7. CopyInv'
  <2>1. \A a \in Actor : SeenMove(a)
    BY <1>1, NoRowFacts DEF SeenMove
  <2>2. \A j \in JobId : state'[j] # "none" => state[j] # "none"
    BY <1>1
  <2> QED
    BY <1>3, <1>5, <1>6, <2>1, <2>2, CopyStep DEF ParcelsKept, JobInv
<1>8. PlaceInv'
  BY <1>1, <1>2 DEF PlaceInv, RequestPlace, SlotPlace, Booking
<1>9. KnownInv'
  <2>1. \A s \in Slot : hand[s] \in {NoParcel} \cup stray'
    BY <1>1
  <2> QED
    BY <1>1, <1>5, <1>6, <2>1, KnownStep DEF WorldMove
<1>10. LaneInv'
  <2>1. OneParcelPerLane'
    BY <1>1 DEF LaneInv, OneParcelPerLane, Live, Lost
  <2>2. AskInv'
    BY <1>1, <1>2 DEF AskInv, Asks
  <2> QED
    BY <2>1, <2>2 DEF LaneInv
<1>11. PastInv'
  BY <1>1, <1>2 DEF PastInv, Past
<1>12. WorkInv'
  <2>1. \A j \in JobId : Works(j) => Works(j)'
    BY <1>1 DEF Works
  <2> QED
    BY <1>1, <2>1 DEF WorkInv, Unbooked, HasNumber
<1> QED
  BY <1>4, <1>5, <1>7, <1>8, <1>9, <1>10, <1>11, <1>12

LEMMA BookingInit == Init => BookingInv
<1> SUFFICES ASSUME Init PROVE BookingInv
  OBVIOUS
<1>1. Actor = Request \cup Slot
  BY DEF Actor
<1>2. RowTypeOK
  BY NoRowFacts, ConstFacts DEF Init, RowTypeOK
<1>3. /\ state = [j \in JobId |-> "none"] /\ tries = [j \in JobId |-> 0]
      /\ row = NoRow /\ parcel = [p \in Parcel |-> "none"] /\ stray = {} /\ blind = {}
      /\ pc = [a \in Actor |-> "idle"] /\ seen = [a \in Actor |-> NoRow]
      /\ job = [s \in Slot |-> NoJob] /\ hand = [s \in Slot |-> NoParcel]
      /\ open = [s \in Slot |-> FALSE] /\ flaw = [s \in Slot |-> "none"]
  BY DEF Init, Queue!Init
<1>4. JobInv
  BY <1>1, <1>3, NoRowFacts, ConstFacts
     DEF JobInv, QueueTypeOK, ActorTypeOK, Attempts, Holding, Alone, Serial, RequestStep, SlotStep
<1>5. CopyInv
  BY <1>3, NoRowFacts DEF CopyInv, Numbered, Exists
<1>6. PlaceInv
  BY <1>1, <1>3 DEF PlaceInv, RequestPlace, SlotPlace, Booking
<1>7. KnownInv /\ LaneInv
  BY <1>1, <1>3 DEF KnownInv, LaneInv, OneParcelPerLane, AskInv, Asks, Live
<1>8. PastInv /\ WorkInv
  BY <1>1, <1>3, NoRowFacts DEF PastInv, Past, WorkInv, Unbooked
<1> QED
  BY <1>2, <1>4, <1>5, <1>6, <1>7, <1>8 DEF BookingInv

LEMMA BookingStep == BookingInv /\ [Next]_vars => BookingInv'
<1> SUFFICES ASSUME BookingInv, [Next]_vars PROVE BookingInv'
  OBVIOUS
<1>1. CASE \E r \in Request : RequestStarts(r) \/ RequestGoesOn(r) \/ RequestFails(r)
  BY <1>1, RequestKeeps
<1>2. CASE \E s \in Slot : HandlerStep(s)
  BY <1>2, HandlerKeeps
<1>3. CASE \E s \in Slot, j \in JobId : Claim(s, j)
  BY <1>3, ClaimKeeps
<1>4. CASE Crash
  BY <1>4, CrashKeeps
<1>5. CASE UNCHANGED vars
  <2>1. /\ UNCHANGED <<row, shop, parcel, maker, stray, refused, state, tries, pc, seen>>
        /\ UNCHANGED <<job, open, hand, flaw, dropped, blind, blank, events>>
    BY <1>5 DEF vars, worldVars, queueVars, slotVars, ghostVars
  <2>2. RowTypeOK' /\ JobInv' /\ CopyInv'
    BY <2>1 DEF BookingInv, RowTypeOK, JobInv, QueueTypeOK, ActorTypeOK, Attempts, Holding, Alone,
       Serial, CopyInv, Numbered, Exists
  <2>3. PlaceInv' /\ KnownInv' /\ LaneInv'
    BY <2>1 DEF BookingInv, PlaceInv, SlotPlace, RequestPlace, Live, KnownInv, Known, Lost, Exists,
       LaneInv, OneParcelPerLane, AskInv, Asks
  <2>4. PastInv' /\ WorkInv'
    BY <2>1 DEF BookingInv, PastInv, Past, HasNumber, Exists, WorkInv, Unbooked, Works, Leaving, Owed
  <2> QED
    BY <2>2, <2>3, <2>4 DEF BookingInv
<1> QED
  BY <1>1, <1>2, <1>3, <1>4, <1>5 DEF Next

\* The inductive invariant: copies, places and queue, and what the properties
\* below need to hold at every step.
THEOREM BookingInvariant == Spec => []BookingInv
BY BookingInit, BookingStep, PTL DEF Spec

\* The row, the copies of it and the jobs stay in range, and a slot that works
\* has a job.
THEOREM BookingTypes == Spec => []TypeOK
<1>1. BookingInv => TypeOK
  BY DEF BookingInv, RowTypeOK, JobInv, QueueTypeOK, ActorTypeOK, Holding, TypeOK
<1> QED
  BY <1>1, BookingInvariant, PTL

\* bookLaneKey: with any number of agents, worker slots, retries and restarts,
\* a lane books one parcel for a row unless a number was lost on the way.
THEOREM LaneBooksOnce == Spec => []OneParcelPerLane
<1>1. BookingInv => OneParcelPerLane
  BY DEF BookingInv, LaneInv
<1> QED
  BY <1>1, BookingInvariant, PTL

\* Phase A stores the number before anything else can fail: no live parcel is
\* forgotten but in the ways the property names.
THEOREM ParcelsAreKnown == Spec => []ParcelIsKnown
<1>1. BookingInv => ParcelIsKnown
  BY DEF BookingInv, KnownInv, Known, ParcelIsKnown
<1> QED
  BY <1>1, BookingInvariant, PTL

\* The catch of the job reverts what it gives up: no row says booked with
\* nobody left to book it.
THEOREM BookedRowsAreServed == Spec => []BookedIsWorkedOn
<1>1. ASSUME BookingInv PROVE BookedIsWorkedOn
  BY <1>1 DEF BookingInv, WorkInv, Unbooked, HasNumber, Works, BookedIsWorkedOn
<1> QED
  BY <1>1, BookingInvariant, PTL
=============================================================================
