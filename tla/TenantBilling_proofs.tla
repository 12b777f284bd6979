------------------------ MODULE TenantBilling_proofs ------------------------
(***************************************************************************)
(* Proofs about TenantBilling for any number of requests, readers, cycles, *)
(* calls and failures.                                                     *)
(***************************************************************************)
EXTENDS TenantBilling, TLAPS

\* What a module composed with this one does to its variables: a caller of
\* isActive is done or fails, and calls and failures elsewhere are counted.
Beside ==
    /\ UNCHANGED <<accountVars, cacheVars, requestVars, rval, late>>
    /\ \/ rpc' = rpc
       \/ \E d \in Reader : rpc[d] = "yes" /\ rpc' = [rpc EXCEPT ![d] = "idle"]
    /\ Call \/ Trouble \/ UNCHANGED envVars

AccountStep == BillNext \/ Beside

\* The initial states are well typed.
LEMMA BillTypeInit == BillInit => BillTypeOK
<1> SUFFICES ASSUME BillInit PROVE BillTypeOK
  OBVIOUS
<1> USE BillingConstAssumption DEF BillInit, Invoice, NoInv, Unpaid
<1>1. PICK late0 \in BOOLEAN :
        /\ invoice = [i \in Invoice |-> IF late0 /\ i = 1 THEN "overdue" ELSE "none"]
        /\ age = [i \in Invoice |-> IF late0 /\ i = 1 THEN 2 ELSE 0]
  OBVIOUS
<1>2. invoice \in [Invoice -> {"none", "paid"} \cup Unpaid] /\ age \in [Invoice -> 0..2]
  BY <1>1
<1>3. cycle \in Invoice /\ calls \in 0..MaxCalls /\ troubles \in 0..MaxTroubles
  OBVIOUS
<1> QED
  BY <1>2, <1>3 DEF BillTypeOK

Point == {"idle", "find", "raise", "pay", "lift", "owes", "reactivate",
          "list", "check", "suspend", "extend", "drop"}
About == {"find", "raise", "pay"}       \* points at which a request is about an invoice

\* The part of the type that is about where the requests are.
Where ==
    /\ pc \in [Request -> Point] /\ inv \in [Request -> Invoice \cup {NoInv}]
    /\ lifts \in [Request -> BOOLEAN]
    /\ \A r \in Request : pc[r] \in About <=> inv[r] # NoInv

\* The part that is about the account and the calls.
What ==
    /\ cycle \in Invoice
    /\ invoice \in [Invoice -> {"none", "paid"} \cup Unpaid] /\ age \in [Invoice -> 0..2]
    /\ status \in {"active", "suspended"} /\ by \in {"nobody", "cron", "admin"}
    /\ grace \in BOOLEAN /\ hasty \in BOOLEAN
    /\ calls \in 0..MaxCalls /\ troubles \in 0..MaxTroubles

\* The part that is about the cache and its readers.
Caching ==
    /\ cached \in {"none", "active", "suspended"} /\ stale \in BOOLEAN
    /\ rpc \in [Reader -> {"idle", "read", "put", "yes"}]
    /\ rval \in [Reader -> {"active", "suspended"}] /\ late \in [Reader -> BOOLEAN]

\* Calls and failures stay within their bounds.
LEMMA Counting ==
    ASSUME BillTypeOK, Call \/ Trouble \/ UNCHANGED envVars
    PROVE  calls' \in 0..MaxCalls /\ troubles' \in 0..MaxTroubles
BY BillingConstAssumption DEF BillTypeOK, Call, Trouble, envVars

\* Troubles are only ever added.
LEMMA TroublesGrow ==
    BillTypeOK /\ [AccountStep]_billVars => troubles' \in Nat /\ troubles' >= troubles
<1> SUFFICES ASSUME BillTypeOK, [AccountStep]_billVars
             PROVE  troubles' \in Nat /\ troubles' >= troubles
  OBVIOUS
<1>1. troubles \in Nat
  BY DEF BillTypeOK
<1>2. Call \/ Trouble \/ UNCHANGED troubles
  <2>1. ASSUME NEW r \in Request, RequestStep(r) PROVE Call \/ Trouble \/ UNCHANGED troubles
    BY <2>1 DEF RequestStep, Generate, FindInvoice, Raise, Enforce, ListDelinquent, CheckCompany,
       Suspend, MarkPaid, Pay, FindSuspension, CountOwed, Reactivate, SuspendClient,
       ActivateClient, GrantGrace, Extend, Invalidate, RequestFails, envVars
  <2>2. ASSUME NEW d \in Reader, ReaderStep(d) \/ Acted(d)
        PROVE  Call \/ Trouble \/ UNCHANGED troubles
    BY <2>2 DEF ReaderStep, Acted, IsActive, ReadStatus, Fill, ReaderFails, envVars
  <2> QED
    BY <2>1, <2>2 DEF AccountStep, BillNext, Beside, CacheExpires, Time, Restart, envVars, billVars
<1> QED
  BY <1>1, <1>2 DEF Call, Trouble

\* The parts make up the type.
LEMMA TypeParts ==
    BillTypeOK <=> Where /\ What /\ Caching /\ outdated \in [Request -> BOOLEAN]
BY DEF BillTypeOK, Where, What, Caching, Point, About

\* Each way a request moves on keeps what is known of where requests are.
LEMMA Moves ==
    ASSUME Where, NEW r \in Request
    PROVE  /\ ToIdle(r) => Where'
           /\ \A step \in Point \ About : pc[r] \notin About /\ To(r, step) => Where'
           /\ \A step \in About : pc[r] \in About /\ To(r, step) => Where'
           /\ \A step \in About, i \in Invoice : Pick(r, i, step) => Where'
<1> USE DEF Where, Invoice, NoInv
<1>1. ToIdle(r) => Where'
  BY DEF ToIdle, Point, About
<1>2. ASSUME NEW step \in Point, step \in About <=> pc[r] \in About, To(r, step)
      PROVE  Where'
  BY <1>2 DEF To
<1>3. ASSUME NEW step \in About, NEW i \in Invoice, Pick(r, i, step)
      PROVE  Where'
  <2>1. step \in Point /\ i # NoInv
    BY <1>3 DEF About, Point
  <2> QED
    BY <1>3, <2>1 DEF Pick
<1> QED
  BY <1>1, <1>2, <1>3 DEF About, Point

\* The statement of a request keeps the types of what it writes.
LEMMA RequestType ==
    ASSUME BillTypeOK, NEW r \in Request, RequestStep(r)
    PROVE  BillTypeOK'
<1>1. Where /\ What /\ Caching /\ outdated \in [Request -> BOOLEAN]
  BY TypeParts
<1>2. Overtake(r) => outdated' \in [Request -> BOOLEAN]
  BY <1>1 DEF Overtake
<1>3. Where'
  <2> USE DEF At
  <2>1. CASE \/ FindInvoice(r) \/ Raise(r) \/ ListDelinquent(r) \/ CheckCompany(r) \/ Suspend(r)
             \/ FindSuspension(r) \/ CountOwed(r) \/ Reactivate(r) \/ Invalidate(r)
             \/ RequestFails(r)
    BY <1>1, <2>1, Moves DEF FindInvoice, Raise, ListDelinquent, CheckCompany, Suspend,
       FindSuspension, CountOwed, Reactivate, Invalidate, RequestFails, About, Point
  <2>2. CASE Enforce(r) \/ SuspendClient(r) \/ ActivateClient(r)
    BY <1>1, <2>2, Moves DEF Enforce, SuspendClient, ActivateClient, About, Point
  <2>3. CASE Generate(r) \/ \E i \in Invoice : MarkPaid(r, i)
    BY <1>1, <2>3, Moves DEF Generate, MarkPaid, What, About
  <2>4. CASE Pay(r)
    BY <1>1, <2>4 DEF Pay, Where, About, Point
  <2>5. CASE GrantGrace(r)
    BY <1>1, <2>5 DEF GrantGrace, Where, About, Point
  <2>6. CASE Extend(r)
    <3>1. CASE ToIdle(r)
      BY <1>1, <3>1, Moves
    <3>2. CASE ~ToIdle(r)
      BY <1>1, <2>6, <3>2 DEF Extend, Where, About, Point
    <3> QED
      BY <3>1, <3>2
  <2> QED
    BY <2>1, <2>2, <2>3, <2>4, <2>5, <2>6 DEF RequestStep
<1>4. What'
  <2> USE <1>1 DEF What
  <2>1. CASE \/ Generate(r) \/ FindInvoice(r) \/ ListDelinquent(r) \/ CheckCompany(r)
             \/ (\E i \in Invoice : MarkPaid(r, i)) \/ FindSuspension(r) \/ CountOwed(r)
             \/ GrantGrace(r) \/ Invalidate(r) \/ RequestFails(r)
    BY <2>1, BillingConstAssumption
       DEF Generate, FindInvoice, ListDelinquent, CheckCompany, MarkPaid, FindSuspension,
           CountOwed, GrantGrace, Invalidate, RequestFails, Reads, Call, Trouble,
           accountVars, envVars
  <2>2. CASE Raise(r) \/ Enforce(r) \/ Pay(r)
    BY <2>2, BillingConstAssumption
       DEF Raise, Enforce, Pay, Call, Unpaid, envVars
  <2>3. CASE Suspend(r)
    BY <1>1, <2>3 DEF Suspend, Write, envVars, At
  <2>4. CASE Reactivate(r) \/ SuspendClient(r) \/ ActivateClient(r)
    <3>1. Call \/ UNCHANGED envVars
      BY <2>4 DEF Reactivate, SuspendClient, ActivateClient
    <3>2. \E to \in {"active", "suspended"}, who \in {"nobody", "admin"} : Write(r, to, who)
      BY <2>4 DEF Reactivate, SuspendClient, ActivateClient
    <3>3. hasty' = FALSE /\ UNCHANGED grace
      BY <2>4 DEF Reactivate, SuspendClient, ActivateClient
    <3> QED
      BY <3>1, <3>2, <3>3, Counting DEF Write
  <2>5. CASE Extend(r)
    <3>1. PICK until \in BOOLEAN :
            /\ grace' = until
            /\ \/ Write(r, "active", "nobody") /\ hasty' = FALSE
               \/ /\ hasty' = (hasty \/ outdated[r])
                  /\ UNCHANGED <<cycle, invoice, age, status, by>>
      BY <2>5 DEF Extend
    <3>2. hasty' \in BOOLEAN /\ UNCHANGED envVars
      BY <1>1, <2>5, <3>1 DEF Extend
    <3> QED
      BY <3>1, <3>2 DEF Write, envVars
  <2> QED
    BY <2>1, <2>2, <2>3, <2>4, <2>5 DEF RequestStep
<1>5. Caching'
  <2> USE <1>1 DEF Caching, cacheVars, readerVars, Reads
  <2>1. ASSUME NEW to, NEW who, Write(r, to, who) PROVE Caching'
    BY <2>1 DEF Write
  <2>2. CASE UNCHANGED <<cacheVars, readerVars>>
    BY <2>2
  <2>3. CASE Invalidate(r)
    BY <2>3 DEF Invalidate, DropCached
  <2> QED
    BY <2>1, <2>2, <2>3
       DEF RequestStep, Generate, FindInvoice, Raise, Enforce, ListDelinquent, CheckCompany, Suspend,
           MarkPaid, Pay, FindSuspension, CountOwed, Reactivate, SuspendClient, ActivateClient,
           GrantGrace, Extend, RequestFails
<1>6. outdated' \in [Request -> BOOLEAN]
  <2>1. CASE UNCHANGED outdated \/ Overtake(r)
    BY <1>1, <1>2, <2>1
  <2>2. CASE outdated' = [outdated EXCEPT ![r] = FALSE]
    BY <1>1, <2>2
  <2> QED
    BY <2>1, <2>2
       DEF RequestStep, Generate, FindInvoice, Raise, Enforce, ListDelinquent, CheckCompany, Suspend,
           MarkPaid, Pay, FindSuspension, CountOwed, Reactivate, SuspendClient, ActivateClient,
           GrantGrace, Extend, Invalidate, RequestFails, Reads, Write
<1> QED
  BY <1>3, <1>4, <1>5, <1>6, TypeParts DEF BillTypeOK, Where, What, Caching, Point, About

\* So do the handlers that ask, the cache, time, restarts and the rest.
LEMMA BillTypeStep == BillTypeOK /\ [AccountStep]_billVars => BillTypeOK'
<1> SUFFICES ASSUME BillTypeOK, [AccountStep]_billVars PROVE BillTypeOK'
  OBVIOUS
<1> USE DEF accountVars, cacheVars, requestVars, readerVars, envVars
<1>1. ASSUME NEW d \in Reader, ReaderStep(d) \/ Acted(d) PROVE BillTypeOK'
  <2>1. cached' \in {"none", "active", "suspended"} /\ stale' \in BOOLEAN
    BY <1>1 DEF BillTypeOK, ReaderStep, IsActive, ReadStatus, Fill, ReaderFails, Acted
  <2>2. /\ rpc' \in [Reader -> {"idle", "read", "put", "yes"}]
        /\ rval' \in [Reader -> {"active", "suspended"}] /\ late' \in [Reader -> BOOLEAN]
    BY <1>1 DEF BillTypeOK, ReaderStep, IsActive, ReadStatus, Fill, ReaderFails, Acted, Answer
  <2>3. calls' \in 0..MaxCalls /\ troubles' \in 0..MaxTroubles
    BY <1>1, Counting DEF ReaderStep, IsActive, ReadStatus, Fill, ReaderFails, Acted
  <2>4. UNCHANGED <<accountVars, requestVars>>
    BY <1>1 DEF ReaderStep, IsActive, ReadStatus, Fill, ReaderFails, Acted
  <2> QED
    BY <2>1, <2>2, <2>3, <2>4 DEF BillTypeOK
<1>2. CASE CacheExpires
  BY <1>2 DEF BillTypeOK, CacheExpires, DropCached
<1>3. CASE Time
  <2>1. ASSUME NEW i \in Invoice, InvoiceAges(i) PROVE BillTypeOK'
    BY <1>3, <2>1 DEF BillTypeOK, Time, InvoiceAges
  <2>2. CASE NextCycle
    BY <1>3, <2>2, BillingConstAssumption DEF BillTypeOK, Time, NextCycle, Invoice
  <2>3. CASE GraceEnds
    BY <1>3, <2>3 DEF BillTypeOK, Time, GraceEnds
  <2> QED
    BY <1>3, <2>1, <2>2, <2>3 DEF Time
<1>4. CASE Restart
  <2>1. Caching' /\ outdated' \in [Request -> BOOLEAN]
    BY <1>4 DEF BillTypeOK, Restart, DropCached, Caching
  <2>2. Where'
    BY <1>4 DEF Restart, Where, Point, About, NoInv
  <2>3. What'
    BY <1>4, Counting, TypeParts DEF Restart, What
  <2> QED
    BY <2>1, <2>2, <2>3 DEF BillTypeOK, Where, What, Caching, Point, About
<1>5. CASE Beside
  BY <1>5, Counting DEF BillTypeOK, Beside
<1>6. CASE UNCHANGED billVars
  BY <1>6 DEF BillTypeOK, billVars
<1> QED
  BY <1>1, <1>2, <1>3, <1>4, <1>5, <1>6, RequestType DEF AccountStep, BillNext

-----------------------------------------------------------------------------
(* The cache.                                                               *)

\* A reader about to fill the cache holds the status, or knows it is late.
Readings == \A d \in Reader : rpc[d] = "put" => rval[d] = status \/ late[d]

CacheInv == Readings /\ CacheAgrees

\* Requests leave readers and cache consistent: whoever writes the status is on
\* the way to drop the cache, and only the drop leaves that point.
LEMMA RequestCache ==
    ASSUME BillTypeOK, CacheInv, NEW r \in Request, RequestStep(r)
    PROVE  CacheInv'
<1> USE DEF BillTypeOK, CacheInv, Readings, CacheAgrees
<1>1. ASSUME NEW to, NEW who, Write(r, to, who), pc' = [pc EXCEPT ![r] = "drop"]
      PROVE  CacheInv'
  BY <1>1 DEF Write, cacheVars
<1>2. ASSUME UNCHANGED <<status, cacheVars, readerVars>>, pc[r] # "drop",
             NEW step, pc' = [pc EXCEPT ![r] = step]
      PROVE  CacheInv'
  BY <1>2 DEF cacheVars, readerVars
<1> USE DEF At, To, ToIdle, Pick, Reads, accountVars, cacheVars, readerVars
<1>3. CASE \/ Generate(r) \/ FindInvoice(r) \/ Raise(r) \/ Enforce(r) \/ ListDelinquent(r)
           \/ CheckCompany(r) \/ (\E i \in Invoice : MarkPaid(r, i)) \/ Pay(r)
           \/ FindSuspension(r) \/ CountOwed(r) \/ GrantGrace(r) \/ RequestFails(r)
  BY <1>2, <1>3 DEF Generate, FindInvoice, Raise, Enforce, ListDelinquent, CheckCompany, MarkPaid,
                    Pay, FindSuspension, CountOwed, GrantGrace, RequestFails
<1>4. CASE Suspend(r) \/ Reactivate(r) \/ SuspendClient(r) \/ ActivateClient(r)
  BY <1>1, <1>4 DEF Suspend, Reactivate, SuspendClient, ActivateClient
<1>5. CASE Extend(r)
  BY <1>1, <1>2, <1>5 DEF Extend
<1>6. CASE Invalidate(r)
  BY <1>6 DEF Invalidate, DropCached
<1> QED
  BY <1>3, <1>4, <1>5, <1>6 DEF RequestStep

\* So do readers, the expiry, time and a restart.
LEMMA CacheStep == BillTypeOK /\ CacheInv /\ [AccountStep]_billVars => CacheInv'
<1> SUFFICES ASSUME BillTypeOK, CacheInv, [AccountStep]_billVars PROVE CacheInv'
  OBVIOUS
<1> USE DEF BillTypeOK, CacheInv, Readings, CacheAgrees, accountVars, cacheVars, requestVars, readerVars
<1>1. ASSUME NEW d \in Reader, ReaderStep(d) \/ Acted(d) PROVE CacheInv'
  BY <1>1 DEF ReaderStep, IsActive, ReadStatus, Fill, ReaderFails, Acted, Answer
<1>2. CASE CacheExpires \/ Restart
  BY <1>2 DEF CacheExpires, Restart, DropCached
<1>3. CASE Time
  BY <1>3 DEF Time, InvoiceAges, NextCycle, GraceEnds
<1>4. CASE Beside
  BY <1>4 DEF Beside
<1>5. CASE UNCHANGED billVars
  BY <1>5 DEF billVars
<1> QED
  BY <1>1, <1>2, <1>3, <1>4, <1>5, RequestCache DEF AccountStep, BillNext

-----------------------------------------------------------------------------
(* Suspensions.                                                             *)

\* What a request that is about to write has read is still so, unless the ghost
\* says that it was overtaken.
Decided(r) ==
    ~outdated[r] =>
        /\ pc[r] = "check"   => StillOwes
        /\ pc[r] = "suspend" => StillOwes /\ Suspendable
        /\ pc[r] = "extend"  => lifts[r] = (status = "suspended")

Following == \E r \in Request : pc[r] \in {"lift", "owes", "reactivate"}

SuspensionInv == (\A r \in Request : Decided(r)) /\ SuspensionIsBacked

\* What the account is written to by a step of one request keeps the decisions of
\* the others, because it overtakes them.
LEMMA OthersOvertaken ==
    ASSUME BillTypeOK, SuspensionInv, NEW r \in Request, Overtake(r),
           NEW step \in Point \ {"check", "suspend", "extend"}, pc' = [pc EXCEPT ![r] = step]
    PROVE  \A q \in Request : Decided(q)'
BY DEF BillTypeOK, Overtake, Deciding, Decided

\* A step that leaves the account alone keeps the decisions of the others.
LEMMA OthersUndisturbed ==
    ASSUME BillTypeOK, SuspensionInv, NEW r \in Request, Decided(r)',
           UNCHANGED <<invoice, status, grace>>, NEW step, pc' = [pc EXCEPT ![r] = step],
           \A q \in Request \ {r} : outdated'[q] = outdated[q] /\ lifts'[q] = lifts[q]
    PROVE  \A q \in Request : Decided(q)'
<1> SUFFICES ASSUME NEW q \in Request, q # r PROVE Decided(q)'
  OBVIOUS
<1>1. pc'[q] = pc[q] /\ outdated'[q] = outdated[q] /\ lifts'[q] = lifts[q]
  BY DEF BillTypeOK
<1> QED
  BY <1>1 DEF SuspensionInv, Decided, StillOwes, Suspendable

\* Requests that only read: what they go on to decide is what they have read.
LEMMA ReadingStep ==
    ASSUME BillTypeOK, SuspensionInv, NEW r \in Request,
           \/ Generate(r) \/ FindInvoice(r) \/ ListDelinquent(r) \/ CheckCompany(r)
           \/ (\E i \in Invoice : MarkPaid(r, i)) \/ FindSuspension(r) \/ CountOwed(r)
           \/ GrantGrace(r) \/ Invalidate(r) \/ RequestFails(r)
    PROVE  SuspensionInv'
<1>1. UNCHANGED <<invoice, status, by, grace, hasty>>
  BY DEF Generate, FindInvoice, ListDelinquent, CheckCompany, MarkPaid, FindSuspension,
         CountOwed, GrantGrace, Invalidate, RequestFails, Reads, accountVars
<1>2. PICK step : pc' = [pc EXCEPT ![r] = step]
  BY DEF Generate, FindInvoice, ListDelinquent, CheckCompany, MarkPaid, FindSuspension,
         CountOwed, GrantGrace, Invalidate, RequestFails, To, ToIdle, Pick
<1>3. \A q \in Request \ {r} : outdated'[q] = outdated[q] /\ lifts'[q] = lifts[q]
  BY DEF BillTypeOK, Generate, FindInvoice, ListDelinquent, CheckCompany, MarkPaid, FindSuspension,
         CountOwed, GrantGrace, Invalidate, RequestFails, Reads, To, ToIdle, Pick
<1>4. Decided(r)'
  <2>1. CASE \/ Generate(r) \/ FindInvoice(r) \/ (\E i \in Invoice : MarkPaid(r, i))
             \/ FindSuspension(r) \/ CountOwed(r) \/ Invalidate(r) \/ RequestFails(r)
    BY <2>1 DEF BillTypeOK, Generate, FindInvoice, MarkPaid, FindSuspension, CountOwed,
       Invalidate, RequestFails, To, ToIdle, Pick, Decided
  <2>2. CASE ListDelinquent(r)
    BY <1>1, <2>2 DEF BillTypeOK, ListDelinquent, To, ToIdle, Decided, StillOwes, Unpaid
  <2>3. CASE CheckCompany(r)
    BY <1>1, <2>3 DEF BillTypeOK, CheckCompany, At, To, ToIdle, Decided, StillOwes, SuspensionInv,
                      Suspendable
  <2>4. CASE GrantGrace(r)
    BY <1>1, <2>4 DEF BillTypeOK, GrantGrace, Decided
  <2> QED
    BY <2>1, <2>2, <2>3, <2>4
<1>5. troubles > 0 => troubles' > 0
  BY DEF BillTypeOK, Generate, FindInvoice, ListDelinquent, CheckCompany, MarkPaid, FindSuspension,
         CountOwed, GrantGrace, Invalidate, RequestFails, Call, Trouble, envVars
<1>6. status = "suspended" /\ Following => Following' \/ StillOwes \/ troubles' > 0
  BY <1>5 DEF BillTypeOK, Following, Generate, FindInvoice, ListDelinquent, CheckCompany, MarkPaid,
     FindSuspension, CountOwed, GrantGrace, Invalidate, RequestFails, At, To, ToIdle, Pick, Trouble
<1>7. SuspensionIsBacked'
  <2>1. StillOwes' <=> StillOwes
    BY <1>1 DEF StillOwes
  <2> QED
    BY <1>1, <1>5, <1>6, <2>1 DEF SuspensionInv, SuspensionIsBacked, Following
<1> QED
  BY <1>1, <1>2, <1>3, <1>4, <1>7, OthersUndisturbed DEF SuspensionInv

\* Requests that write the account or an invoice.
LEMMA WritingStep ==
    ASSUME BillTypeOK, SuspensionInv, NEW r \in Request,
           \/ Raise(r) \/ Enforce(r) \/ Suspend(r) \/ Pay(r) \/ Reactivate(r)
           \/ SuspendClient(r) \/ ActivateClient(r) \/ Extend(r)
    PROVE  SuspensionInv'
<1> USE DEF SuspensionInv
<1>1. CASE Raise(r) \/ Enforce(r)
  <2>1. StillOwes => StillOwes'
    BY <1>1 DEF BillTypeOK, Raise, Enforce, StillOwes, Unpaid
  <2>2. UNCHANGED <<status, by, grace, hasty, outdated, troubles>>
    BY <1>1 DEF Raise, Enforce, Call, envVars
  <2>3. \A q \in Request : (pc'[q] = pc[q] /\ lifts'[q] = lifts[q]) \/ q = r
    BY <1>1 DEF BillTypeOK, Raise, Enforce, To, ToIdle
  <2>4. pc'[r] \in {"idle", "list"} /\ pc[r] \in {"idle", "raise"}
    BY <1>1 DEF BillTypeOK, Raise, Enforce, At, To, ToIdle
  <2>5. \A q \in Request : Decided(q)'
    BY <2>1, <2>2, <2>3, <2>4 DEF Decided, Suspendable
  <2>6. Following => Following'
    BY <2>3, <2>4 DEF Following
  <2> QED
    BY <2>1, <2>2, <2>5, <2>6 DEF SuspensionIsBacked, Following
<1>2. CASE Suspend(r)
  <2>1. \A q \in Request : Decided(q)'
    BY <1>2, OthersOvertaken DEF Suspend, Write, To, Point
  <2>2. SuspensionIsBacked'
    BY <1>2 DEF Suspend, Write, At, Decided, Suspendable, SuspensionIsBacked, StillOwes
  <2> QED
    BY <2>1, <2>2
<1>3. CASE Pay(r)
  <2>1. \A q \in Request : Decided(q)'
    BY <1>3, OthersOvertaken DEF Pay, Point
  <2>2. Following'
    BY <1>3 DEF Pay, Following, BillTypeOK
  <2> QED
    BY <1>3, <2>1, <2>2 DEF Pay, SuspensionIsBacked, Following
<1>4. CASE Reactivate(r) \/ SuspendClient(r) \/ ActivateClient(r)
  <2>1. \A q \in Request : Decided(q)'
    BY <1>4, OthersOvertaken DEF Reactivate, SuspendClient, ActivateClient, Write, To, Point
  <2>2. SuspensionIsBacked'
    BY <1>4 DEF Reactivate, SuspendClient, ActivateClient, Write, SuspensionIsBacked
  <2> QED
    BY <2>1, <2>2
<1>5. CASE Extend(r)
  <2>1. \A q \in Request : Decided(q)'
    <3>1. Overtake(r)
      BY <1>5 DEF Extend, Write
    <3>2. \E step \in {"drop", "idle"} : pc' = [pc EXCEPT ![r] = step]
      BY <1>5 DEF Extend, ToIdle
    <3> QED
      BY <3>1, <3>2, OthersOvertaken DEF Point
  <2>2. SuspensionIsBacked'
    <3>1. PICK until \in BOOLEAN :
            /\ grace' = until
            /\ IF until /\ lifts[r] THEN Write(r, "active", "nobody")
               ELSE /\ hasty' = (hasty \/ outdated[r]) /\ ToIdle(r)
                    /\ UNCHANGED <<invoice, status, by>>
      BY <1>5 DEF Extend
    <3>2. CASE until /\ lifts[r]
      BY <3>1, <3>2 DEF Write, SuspensionIsBacked
    <3>3. CASE ~(until /\ lifts[r])
      <4>1. status = "suspended" /\ ~hasty' => ~until
        BY <1>5, <3>1, <3>3 DEF Extend, Decided, At, BillTypeOK
      <4>2. Following => Following'
        BY <1>5, <3>1, <3>3 DEF Extend, At, ToIdle, Following, BillTypeOK
      <4>3. troubles' = troubles
        BY <1>5 DEF Extend, envVars
      <4> QED
        BY <3>1, <3>3, <4>1, <4>2, <4>3 DEF SuspensionIsBacked, Following, StillOwes, BillTypeOK
    <3> QED
      BY <3>2, <3>3
  <2> QED
    BY <2>1, <2>2
<1> QED
  BY <1>1, <1>2, <1>3, <1>4, <1>5

\* Everything else leaves invoices and the account as they are, or lets a grace
\* end; a restart counts as trouble.
LEMMA SuspensionStep ==
    BillTypeOK /\ SuspensionInv /\ [AccountStep]_billVars => SuspensionInv'
<1> SUFFICES ASSUME BillTypeOK, SuspensionInv, [AccountStep]_billVars PROVE SuspensionInv'
  OBVIOUS
<1> USE DEF SuspensionInv
<1>1. ASSUME NEW r \in Request, RequestStep(r) PROVE SuspensionInv'
  BY <1>1, ReadingStep, WritingStep DEF RequestStep
<1>2. ASSUME UNCHANGED <<accountVars, requestVars>>, troubles > 0 => troubles' > 0
      PROVE  SuspensionInv'
  <2>1. StillOwes' = StillOwes /\ Suspendable' = Suspendable
    BY <1>2 DEF BillTypeOK, StillOwes, Suspendable, accountVars
  <2>2. \A q \in Request : Decided(q)'
    BY <1>2, <2>1 DEF Decided, accountVars, requestVars
  <2>3. SuspensionIsBacked'
    BY <1>2, <2>1 DEF SuspensionIsBacked, accountVars, requestVars
  <2> QED
    BY <2>2, <2>3
<1>3. ASSUME NEW d \in Reader, ReaderStep(d) \/ Acted(d) PROVE SuspensionInv'
  <2>1. UNCHANGED <<accountVars, requestVars>>
    BY <1>3 DEF ReaderStep, IsActive, ReadStatus, Fill, ReaderFails, Acted
  <2>2. troubles > 0 => troubles' > 0
    BY <1>3 DEF ReaderStep, IsActive, ReadStatus, Fill, ReaderFails, Acted, Call, Trouble, envVars,
                BillTypeOK
  <2> QED
    BY <1>2, <2>1, <2>2
<1>4. CASE CacheExpires \/ Beside \/ UNCHANGED billVars
  BY <1>2, <1>4 DEF CacheExpires, Beside, Call, Trouble, envVars, billVars, BillTypeOK
<1>5. CASE Time
  <2>1. UNCHANGED <<invoice, status, by, hasty, pc, lifts, outdated, troubles>>
    BY <1>5 DEF Time, InvoiceAges, NextCycle, GraceEnds, requestVars, envVars
  <2>2. grace' = grace \/ grace' = FALSE
    BY <1>5 DEF Time, InvoiceAges, NextCycle, GraceEnds
  <2> QED
    BY <2>1, <2>2 DEF Decided, Suspendable, StillOwes, SuspensionIsBacked
<1>6. CASE Restart
  <2>1. \A q \in Request : Decided(q)'
    BY <1>6 DEF Restart, Decided
  <2>2. UNCHANGED accountVars /\ troubles' > 0
    BY <1>6 DEF Restart, Trouble, BillTypeOK
  <2> QED
    BY <2>1, <2>2 DEF accountVars, SuspensionIsBacked
<1> QED
  BY <1>1, <1>3, <1>4, <1>5, <1>6 DEF AccountStep, BillNext

-----------------------------------------------------------------------------
(* Theorems.                                                                *)

BillInv == BillTypeOK /\ CacheInv /\ SuspensionInv

\* The invariant holds at first.
LEMMA BillInvInit == BillInit => BillInv
BY BillTypeInit
   DEF BillInit, BillInv, CacheInv, Readings, CacheAgrees, SuspensionInv, Decided, SuspensionIsBacked

\* Every step of the account, and of what is composed with it, keeps it.
LEMMA BillInvStep == BillInv /\ [AccountStep]_billVars => BillInv'
BY BillTypeStep, CacheStep, SuspensionStep DEF BillInv

\* The account alone: its types, its cache and its suspensions.
THEOREM AccountCorrect == BillSpec => [](BillTypeOK /\ CacheAgrees /\ SuspensionIsBacked)
<1>1. BillInv /\ [BillNext]_billVars => BillInv'
  BY BillInvStep DEF AccountStep
<1>2. BillInv => BillTypeOK /\ CacheAgrees /\ SuspensionIsBacked
  BY DEF BillInv, CacheInv, SuspensionInv
<1> QED
  BY BillInvInit, <1>1, <1>2, PTL DEF BillSpec
=============================================================================
