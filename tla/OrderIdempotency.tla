-------------------------- MODULE OrderIdempotency --------------------------
(***************************************************************************)
(* Order idempotency: reserve, finalize and release of backend/src/common/ *)
(* services/order-idempotency.service.ts, driven by createOrder of the     *)
(* Shopify service, which creates the order between reserve and finalize.  *)
(*                                                                         *)
(* One fingerprint: rows of different (company_id, hash) never interact,   *)
(* and UNIQUE leaves at most one row per fingerprint.  Callers are the     *)
(* agent's modal, the AI agent and the retries of both.  Every database    *)
(* statement and every Shopify answer is a step of its own.  Time shows    *)
(* only in what it ends: the 25 minutes of a reservation or an order, the  *)
(* 90 seconds after a failure.                                             *)
(***************************************************************************)
EXTENDS Integers

CONSTANTS
    Caller,         \* concurrent executions of createOrder
    MaxCalls,       \* bound on calls
    MaxFaults,      \* bound on failed statements
    WindowCovers    \* TRUE: no call outlives DEDUP_WINDOW_MS

ASSUME OrderConstAssumption ==
    /\ MaxCalls \in Nat
    /\ MaxFaults \in Nat
    /\ WindowCovers \in BOOLEAN

NoRow      == 0
NoOrder    == 0
Unguarded  == -1        \* reservationId of a reserve that failed open

VARIABLES
    deposit,    \* the cart is paid in advance (depositAmount is in the hash)
    rowId,      \* pending_order_hashes: id of the row, or NoRow
    rowStatus,  \* status
    rowOrder,   \* order_gid
    fresh,      \* expires_at is still ahead
    nextId,     \* AUTO_INCREMENT
    pc,         \* caller: the statement it runs next
    seen,       \* caller: id of the stale row that reserve found
    res,        \* caller: reservationId
    gid,        \* caller: the order Shopify confirmed to it
    answer,     \* caller: the order reserve returned as a duplicate
    placed,     \* number of real orders at Shopify; orders are 1..placed
    open,       \* recorded orders whose 25 minutes have not passed
    calls, faults

rowVars    == <<rowId, rowStatus, rowOrder, fresh, nextId>>
callerVars == <<pc, seen, res, gid, answer>>
vars       == <<deposit, rowVars, callerVars, placed, open, calls, faults>>

Step == {"idle", "find", "delete", "insert", "reread", "create", "finalize",
         "after", "release"}

TypeOK ==
    /\ deposit \in BOOLEAN
    /\ rowId \in Nat /\ rowId < nextId
    /\ rowStatus \in {"none", "in_flight", "created", "failed"}
    /\ rowOrder \in 0..placed
    /\ rowStatus = "created" => rowOrder # NoOrder
    /\ fresh \in BOOLEAN
    /\ nextId \in Nat
    /\ pc \in [Caller -> Step]
    /\ seen \in [Caller -> Nat]
    /\ res \in [Caller -> Nat \cup {Unguarded}]
    /\ gid \in [Caller -> Nat]
    /\ answer \in [Caller -> Nat]
    /\ placed \in Nat
    /\ open \subseteq 1..placed
    /\ calls \in 0..MaxCalls
    /\ faults \in 0..MaxFaults

Init ==
    /\ deposit \in BOOLEAN
    /\ rowId = NoRow /\ rowStatus = "none" /\ rowOrder = NoOrder /\ fresh = FALSE
    /\ nextId = 1
    /\ pc = [c \in Caller |-> "idle"]
    /\ seen = [c \in Caller |-> NoRow]
    /\ res = [c \in Caller |-> Unguarded]
    /\ gid = [c \in Caller |-> NoOrder]
    /\ answer = [c \in Caller |-> NoOrder]
    /\ placed = 0 /\ open = {}
    /\ calls = 0 /\ faults = 0

Goto(c, from, to) == pc[c] = from /\ pc' = [pc EXCEPT ![c] = to]
Fault == faults < MaxFaults /\ faults' = faults + 1

-----------------------------------------------------------------------------
(* reserve                                                                 *)

Call(c) ==
    /\ Goto(c, "idle", "find")
    /\ calls < MaxCalls /\ calls' = calls + 1
    /\ seen' = [seen EXCEPT ![c] = NoRow]
    /\ res' = [res EXCEPT ![c] = Unguarded]
    /\ gid' = [gid EXCEPT ![c] = NoOrder]
    /\ answer' = [answer EXCEPT ![c] = NoOrder]
    /\ UNCHANGED <<rowVars, placed, open, faults>>

\* A definition directly above another with the same parameters, such as
\* KnownForever above Known, is a faulty variant that the mutation runs put in
\* the place of the one below it.
KnownForever == rowStatus = "created"
Forgotten    == FALSE
Known        == rowStatus = "created" /\ fresh      \* a duplicate
Blocking     == rowStatus \in {"in_flight", "failed"} /\ fresh

Duplicate(c) == answer' = [answer EXCEPT ![c] = rowOrder]

\* An unexpected database error lets the order through without a reservation.
FailOpen(c, from) ==
    /\ Goto(c, from, "create") /\ Fault
    /\ UNCHANGED <<rowVars, seen, res, gid, answer, placed, open, calls>>

Find(c) ==
    /\ \/ rowId = NoRow /\ Goto(c, "find", "insert") /\ UNCHANGED <<seen, answer>>
       \/ Known /\ Goto(c, "find", "idle") /\ Duplicate(c) /\ UNCHANGED seen
       \/ Blocking /\ Goto(c, "find", "idle") /\ UNCHANGED <<seen, answer>>
       \/ /\ rowId # NoRow /\ ~Known /\ ~Blocking
          /\ Goto(c, "find", "delete")
          /\ seen' = [seen EXCEPT ![c] = rowId] /\ UNCHANGED answer
    /\ UNCHANGED <<rowVars, res, gid, placed, open, calls, faults>>

\* The delete is by id: a row another caller has inserted since is not touched.
AnyRow(c) == TRUE
SeenRow(c) == rowId = seen[c]

Delete(c) ==
    /\ Goto(c, "delete", "insert")
    /\ IF SeenRow(c)
          THEN rowId' = NoRow /\ rowStatus' = "none" /\ rowOrder' = NoOrder /\ fresh' = FALSE
          ELSE UNCHANGED <<rowId, rowStatus, rowOrder, fresh>>
    /\ UNCHANGED <<nextId, seen, res, gid, answer, placed, open, calls, faults>>

\* .catch(() => undefined): a failed delete goes unnoticed.
DeleteFails(c) ==
    /\ Goto(c, "delete", "insert") /\ Fault
    /\ UNCHANGED <<rowVars, seen, res, gid, answer, placed, open, calls>>

\* The insert; UNIQUE(company_id, hash) decides the race.
Insert(c) ==
    /\ rowId = NoRow /\ Goto(c, "insert", "create")
    /\ rowId' = nextId /\ nextId' = nextId + 1
    /\ rowStatus' = "in_flight" /\ rowOrder' = NoOrder /\ fresh' = TRUE
    /\ res' = [res EXCEPT ![c] = nextId]
    /\ UNCHANGED <<seen, gid, answer, placed, open, calls, faults>>

InsertLoses(c) ==
    /\ rowId # NoRow /\ Goto(c, "insert", "reread")
    /\ UNCHANGED <<rowVars, seen, res, gid, answer, placed, open, calls, faults>>

\* The loser answers with the winner's order, or with a conflict; expires_at
\* is not looked at here.
Reread(c) ==
    /\ Goto(c, "reread", "idle")
    /\ IF rowStatus = "created" THEN Duplicate(c) ELSE UNCHANGED answer
    /\ UNCHANGED <<rowVars, seen, res, gid, placed, open, calls, faults>>

\* The second findUnique failed as well: a conflict, the call ends.
RereadFails(c) ==
    /\ Goto(c, "reread", "idle") /\ Fault
    /\ UNCHANGED <<rowVars, seen, res, gid, answer, placed, open, calls>>

-----------------------------------------------------------------------------
(* createOrder: draftOrderCreate and draftOrderComplete at Shopify.        *)

Confirmed(c) ==
    /\ Goto(c, "create", "finalize")
    /\ placed' = placed + 1
    /\ gid' = [gid EXCEPT ![c] = placed + 1]
    /\ UNCHANGED <<rowVars, seen, res, answer, open, calls, faults>>

\* The answer is lost or late: the order is there, the caller sees a failure.
TimedOut(c) ==
    /\ Goto(c, "create", "release")
    /\ placed' = placed + 1
    /\ UNCHANGED <<rowVars, seen, res, gid, answer, open, calls, faults>>

Rejected(c) ==
    /\ Goto(c, "create", "release")
    /\ UNCHANGED <<rowVars, seen, res, gid, answer, placed, open, calls, faults>>

OwnRow(c) == rowId # NoRow /\ rowId = res[c]

NoRef(c)    == NoOrder
OrderRef(c) == gid[c]

\* The update is by id and its failure is only logged.
Finalize(c) ==
    /\ Goto(c, "finalize", "after")
    /\ IF OwnRow(c)
          THEN /\ rowStatus' = "created" /\ rowOrder' = OrderRef(c) /\ fresh' = TRUE
               /\ open' = open \cup {gid[c]}
          ELSE UNCHANGED <<rowStatus, rowOrder, fresh, open>>
    /\ UNCHANGED <<rowId, nextId, seen, res, gid, answer, placed, calls, faults>>

FinalizeFails(c) ==
    /\ Goto(c, "finalize", "after") /\ Fault
    /\ UNCHANGED <<rowVars, seen, res, gid, answer, placed, open, calls>>

Return(c) ==
    /\ Goto(c, "after", "idle")
    /\ UNCHANGED <<rowVars, seen, res, gid, answer, placed, open, calls, faults>>

\* An advance that covers the order is marked paid; markOrderPaid resolves its
\* API access outside its own try, and what that throws reaches the catch of
\* createOrder although the order is confirmed.
LateFailure(c) ==
    /\ deposit /\ Goto(c, "after", "release")
    /\ UNCHANGED <<rowVars, seen, res, gid, answer, placed, open, calls, faults>>

Release(c) ==
    /\ Goto(c, "release", "idle")
    /\ IF OwnRow(c)
          THEN rowStatus' = "failed" /\ fresh' = TRUE
          ELSE UNCHANGED <<rowStatus, fresh>>
    /\ UNCHANGED <<rowId, rowOrder, nextId, seen, res, gid, answer, placed, open, calls, faults>>

ReleaseFails(c) ==
    /\ Goto(c, "release", "idle") /\ Fault
    /\ UNCHANGED <<rowVars, seen, res, gid, answer, placed, open, calls>>

\* The process of some callers dies: whatever they knew is lost, the row stays.
Crash(dead) ==
    /\ pc' = [c \in Caller |-> IF c \in dead THEN "idle" ELSE pc[c]]
    /\ UNCHANGED <<rowVars, seen, res, gid, answer, placed, open, calls, faults>>

-----------------------------------------------------------------------------
(* Time.                                                                   *)

Holds(c) == OwnRow(c) /\ pc[c] \in {"create", "finalize", "after", "release"}

\* A reservation or a failure expires.
Expire ==
    /\ Blocking
    /\ rowStatus = "in_flight" /\ WindowCovers => \A c \in Caller : ~Holds(c)
    /\ fresh' = FALSE
    /\ UNCHANGED <<rowId, rowStatus, rowOrder, nextId, callerVars, placed, open, calls, faults>>

\* 25 minutes have passed since order o was recorded.  A caller past its find
\* has seen no live row, so o was recorded during its reserve: with
\* WindowCovers that call is over by now.
WindowEnds(o) ==
    /\ o \in open /\ open' = open \ {o}
    /\ WindowCovers => \A c \in Caller : pc[c] \notin {"delete", "insert", "reread"}
    /\ fresh' = (fresh /\ ~(rowStatus = "created" /\ rowOrder = o))
    /\ UNCHANGED <<rowId, rowStatus, rowOrder, nextId, callerVars, placed, calls, faults>>

-----------------------------------------------------------------------------
Reserve(c) ==
    \/ Call(c) \/ Find(c) \/ FailOpen(c, "find")
    \/ Delete(c) \/ DeleteFails(c)
    \/ Insert(c) \/ InsertLoses(c) \/ FailOpen(c, "insert")
    \/ Reread(c) \/ RereadFails(c)

Create(c) ==
    \/ Confirmed(c) \/ TimedOut(c) \/ Rejected(c)
    \/ Finalize(c) \/ FinalizeFails(c) \/ Return(c) \/ LateFailure(c)
    \/ Release(c) \/ ReleaseFails(c)

Next ==
    /\ \/ \E c \in Caller : Reserve(c) \/ Create(c)
       \/ \E dead \in SUBSET Caller : Crash(dead)
       \/ Expire
       \/ \E o \in open : WindowEnds(o)
    /\ UNCHANGED deposit

Spec == Init /\ [][Next]_vars

-----------------------------------------------------------------------------
(* Properties.                                                             *)

Guarded(c) == res[c] # Unguarded
Placing(c) == pc[c] = "create" /\ Guarded(c)

\* "Two concurrent workers cannot both reserve the same fingerprint": whoever
\* talks to Shopify under a reservation owns the live row, through stale-row
\* reclaims, lost inserts, crashes and releases by others.
ReservationHeld ==
    \A c \in Caller :
        Placing(c) => OwnRow(c) /\ rowStatus = "in_flight" /\ fresh

\* No second order is placed under a reservation while an identical order that
\* was recorded is less than 25 minutes old; orders paid in advance excepted,
\* see ConfirmedIsKept.
OneOrderPerWindow == ~deposit => \A c \in Caller : Placing(c) => open = {}

\* "Any failure between reservation and a confirmed order": only those release
\* the slot, so a recorded order bars an identical one, paid in advance or not.
ConfirmedIsKept == \A c \in Caller : Placing(c) => open = {}

Duplicates(c) == answer'[c] # answer[c] /\ answer'[c] # NoOrder

\* reserve answers "duplicate" only with a recorded order whose window is open:
\* a reorder after the window is a real order that must not be swallowed.  The
\* one exception is a row it found stale and failed to delete.
DuplicateIsRecent ==
    [][\A c \in Caller : Duplicates(c) => answer'[c] \in open \/ rowId = seen[c]]_vars

\* The guard as its callers see it: whether there is a row, which one and how
\* it came there is hidden.
GuardSlot ==
    IF ~fresh THEN "free"
    ELSE CASE rowStatus = "in_flight" -> "granted"
           [] rowStatus = "created"   -> "recorded"
           [] OTHER                   -> "cooling"

Owners == {c \in Caller : Guarded(c) /\ pc[c] \in {"create", "finalize", "release"}}

Guard == INSTANCE OrderGuard WITH
           slot <- GuardSlot, owner <- Owners, recent <- open

\* Reclaims of stale rows, lost races, failed statements and crashes together
\* amount to one guard with one owner, "the ATOMIC race arbiter": each step is
\* one of its steps or leaves it unchanged, for orders not paid in advance.
ImplementsGuard == Guard!Init /\ [][~deposit => Guard!Next]_(Guard!vars)
=============================================================================
