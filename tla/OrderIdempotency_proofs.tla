----------------------- MODULE OrderIdempotency_proofs -----------------------
(***************************************************************************)
(* Proofs about OrderIdempotency for any number of callers, calls and      *)
(* failed statements.  Everything but type correctness is proved for calls *)
(* that end within the 25 minutes of their own reservation (WindowCovers). *)
(***************************************************************************)
EXTENDS OrderIdempotency, TLAPS

\* A caller reaches finalize only with an order Shopify has confirmed.
Confirmation == \A c \in Caller : pc[c] = "finalize" => gid[c] \in 1..placed

TypeInv == TypeOK /\ Confirmation

\* The initial states are well typed.
LEMMA TypeInit == Init => TypeInv
<1> SUFFICES ASSUME Init PROVE TypeInv
  OBVIOUS
<1>1. /\ pc \in [Caller -> Step] /\ seen \in [Caller -> Nat]
      /\ res \in [Caller -> Nat \cup {Unguarded}]
      /\ gid \in [Caller -> Nat] /\ answer \in [Caller -> Nat]
  BY DEF Init, Step, NoRow, NoOrder
<1>2. Confirmation
  BY DEF Init, Confirmation
<1>3. deposit \in BOOLEAN /\ fresh \in BOOLEAN
  BY DEF Init
<1>4. calls \in 0..MaxCalls /\ faults \in 0..MaxFaults
  BY OrderConstAssumption DEF Init
<1>5. /\ rowId \in Nat /\ rowId < nextId /\ nextId \in Nat /\ placed \in Nat
      /\ rowOrder \in 0..placed /\ open \subseteq 1..placed
  BY DEF Init, NoRow, NoOrder
<1>6. rowStatus \in {"none", "in_flight", "created", "failed"} /\ rowStatus # "created"
  BY DEF Init
<1> QED
  BY <1>1, <1>2, <1>3, <1>4, <1>5, <1>6 DEF TypeInv, TypeOK

\* Every step keeps the types: the order written by finalize is a real one.
LEMMA TypeStep == TypeInv /\ [Next]_vars => TypeInv'
<1> SUFFICES ASSUME TypeInv, [Next]_vars
             PROVE  TypeInv'
  OBVIOUS
<1> USE OrderConstAssumption DEF TypeInv, TypeOK, Confirmation, Step, NoRow, NoOrder, Unguarded,
            Goto, Fault, rowVars
<1>1. ASSUME NEW c \in Caller, Reserve(c), UNCHANGED deposit
      PROVE  TypeInv'
  <2>1. CASE Call(c)
    BY <1>1, <2>1 DEF Call
  <2>2. CASE Find(c)
    <3>1. answer' \in [Caller -> Nat] /\ seen' \in [Caller -> Nat]
      BY <2>2 DEF Find, Duplicate
    <3>2. pc' \in [Caller -> Step] /\ \A d \in Caller : pc'[d] = "finalize" => pc[d] = "finalize"
      BY <2>2 DEF Find
    <3> QED
      BY <1>1, <2>2, <3>1, <3>2 DEF Find
  <2>3. CASE FailOpen(c, "find") \/ FailOpen(c, "insert")
    <3>1. faults' \in 0..MaxFaults
      BY <2>3 DEF FailOpen
    <3>2. pc' \in [Caller -> Step] /\ \A d \in Caller : pc'[d] = "finalize" => pc[d] = "finalize"
      BY <2>3 DEF FailOpen
    <3> QED
      BY <1>1, <2>3, <3>1, <3>2 DEF FailOpen
  <2>4. CASE Delete(c)
    <3>1. CASE SeenRow(c)
      <4>1. pc' \in [Caller -> Step] /\ \A d \in Caller : pc'[d] = "finalize" => pc[d] = "finalize"
        BY <2>4 DEF Delete
      <4>2. fresh' \in BOOLEAN
        BY <2>4, <3>1 DEF Delete
      <4> QED
        BY <1>1, <2>4, <3>1, <4>1, <4>2 DEF Delete
    <3>2. CASE ~SeenRow(c)
      BY <1>1, <2>4, <3>2 DEF Delete
    <3> QED
      BY <3>1, <3>2
  <2>5. CASE DeleteFails(c)
    BY <1>1, <2>5 DEF DeleteFails
  <2>6. CASE Insert(c)
    BY <1>1, <2>6 DEF Insert
  <2>7. CASE InsertLoses(c)
    BY <1>1, <2>7 DEF InsertLoses
  <2>8. CASE Reread(c)
    BY <1>1, <2>8 DEF Reread, Duplicate
  <2>9. CASE RereadFails(c)
    BY <1>1, <2>9 DEF RereadFails
  <2> QED
    BY <1>1, <2>1, <2>2, <2>3, <2>4, <2>5, <2>6, <2>7, <2>8, <2>9 DEF Reserve
<1>2. ASSUME NEW c \in Caller, Create(c), UNCHANGED deposit
      PROVE  TypeInv'
  <2>1. CASE Confirmed(c)
    BY <1>2, <2>1 DEF Confirmed
  <2>2. CASE TimedOut(c)
    BY <1>2, <2>2 DEF TimedOut
  <2>3. CASE Rejected(c)
    BY <1>2, <2>3 DEF Rejected
  <2>4. CASE Finalize(c)
    <3>1. gid[c] \in 1..placed
      BY <2>4 DEF Finalize
    <3>2. CASE OwnRow(c)
      <4>1. pc' \in [Caller -> Step] /\ \A d \in Caller : pc'[d] = "finalize" => pc[d] = "finalize"
        BY <2>4 DEF Finalize
      <4>2. fresh' \in BOOLEAN
        BY <2>4, <3>2 DEF Finalize
      <4>3. rowOrder' = gid[c] /\ open' = open \cup {gid[c]} /\ placed' = placed
        BY <2>4, <3>2 DEF Finalize, OrderRef
      <4>4. rowOrder' \in 0..placed' /\ rowOrder' # NoOrder
        BY <3>1, <4>3
      <4>5. open' \subseteq 1..placed'
        <5>1. \A o \in open' : o \in 1..placed
          BY <3>1, <4>3
        <5> QED
          BY <4>3, <5>1
      <4> QED
        BY <1>2, <2>4, <3>2, <4>1, <4>2, <4>4, <4>5 DEF Finalize
    <3>3. CASE ~OwnRow(c)
      BY <1>2, <2>4, <3>3 DEF Finalize
    <3> QED
      BY <3>2, <3>3
  <2>5. CASE FinalizeFails(c)
    BY <1>2, <2>5 DEF FinalizeFails
  <2>6. CASE Return(c)
    BY <1>2, <2>6 DEF Return
  <2>7. CASE LateFailure(c)
    BY <1>2, <2>7 DEF LateFailure
  <2>8. CASE Release(c)
    <3>1. CASE OwnRow(c)
      BY <1>2, <2>8, <3>1 DEF Release
    <3>2. CASE ~OwnRow(c)
      BY <1>2, <2>8, <3>2 DEF Release
    <3> QED
      BY <3>1, <3>2
  <2>9. CASE ReleaseFails(c)
    BY <1>2, <2>9 DEF ReleaseFails
  <2> QED
    BY <1>2, <2>1, <2>2, <2>3, <2>4, <2>5, <2>6, <2>7, <2>8, <2>9 DEF Create
<1>3. CASE Expire /\ UNCHANGED deposit
  BY <1>3 DEF Expire, Blocking, callerVars
<1>4. ASSUME NEW o \in open, WindowEnds(o), UNCHANGED deposit
      PROVE  TypeInv'
  BY <1>4 DEF WindowEnds, callerVars
<1>5. CASE UNCHANGED vars
  BY <1>5 DEF vars, callerVars
<1>6. ASSUME NEW dead \in SUBSET Caller, Crash(dead), UNCHANGED deposit
      PROVE  TypeInv'
  BY <1>6 DEF Crash
<1> QED
  BY <1>1, <1>2, <1>3, <1>4, <1>5, <1>6 DEF Next

\* Type correctness: in particular a row marked created always carries the
\* order that a duplicate is answered with.
THEOREM TypeCorrect == Spec => []TypeOK
<1>1. TypeInv => TypeOK
  BY DEF TypeInv
<1> QED
  BY TypeInit, TypeStep, <1>1, PTL DEF Spec

-----------------------------------------------------------------------------
(* The reservation.  The id of a row is never used twice, so a reservation *)
(* is lost only to a delete; a delete is by the id of a row that was found *)
(* stale, and a row with a live reservation is not stale while its owner   *)
(* is in a call.                                                           *)

Reserving == {"find", "delete", "insert", "reread"}

LiveRow == rowId # NoRow /\ rowStatus = "in_flight" /\ fresh

\* Ids that a caller holds were handed out, each to one caller.
IdsFresh ==
    /\ \A c \in Caller : seen[c] < nextId /\ res[c] < nextId
    /\ \A c, d \in Caller : Guarded(c) /\ res[c] = res[d] => c = d

\* A caller inside reserve has no reservation yet.
Unreserved == \A c \in Caller : pc[c] \in Reserving => ~Guarded(c)

\* From the insert to the write of the outcome the row is the caller's.
Keeps(c)  == pc[c] \in {"create", "finalize"} \/ (pc[c] = "release" /\ ~deposit)
Held == \A c \in Caller : Keeps(c) /\ Guarded(c) => rowId = res[c] /\ LiveRow

\* A row that a caller is about to delete has no live reservation on it.
SeenStale ==
    \A c \in Caller : pc[c] = "delete" /\ rowId = seen[c] =>
        ~LiveRow /\ (~deposit => ~fresh)

RowShape == (rowId = NoRow <=> rowStatus = "none") /\ (rowStatus = "none" => ~fresh)

\* A recorded order whose window is open is the one in the row.
Recorded == ~deposit => \A o \in open : rowStatus = "created" /\ rowOrder = o /\ fresh

\* The other way round, and what a caller past its find can meet.
RowOpen ==
    /\ rowStatus = "created" /\ fresh => rowOrder \in open
    /\ \A c \in Caller :
         pc[c] \in {"delete", "insert", "reread"} /\ rowStatus = "created"
             => fresh \/ rowId = seen[c]

GuardInv ==
    /\ IdsFresh /\ Unreserved /\ Held /\ SeenStale
    /\ RowShape /\ Recorded /\ RowOpen

\* Nobody has called, nothing is recorded.
LEMMA GuardInit == Init => GuardInv
<1> SUFFICES ASSUME Init PROVE GuardInv
  OBVIOUS
<1> USE DEF Init, NoRow, NoOrder, Unguarded
<1>1. IdsFresh /\ Unreserved
  BY DEF IdsFresh, Unreserved, Guarded
<1>2. Held /\ SeenStale /\ RowShape
  BY DEF Held, SeenStale, RowShape, Keeps, LiveRow
<1>3. Recorded /\ RowOpen
  BY DEF Recorded, RowOpen
<1> QED
  BY <1>1, <1>2, <1>3 DEF GuardInv

\* A step that only moves callers on keeps the invariant if no caller comes to
\* reserve, to hold a row or to be past its find by it.
LEMMA MoveKeeps ==
    ASSUME GuardInv, UNCHANGED <<deposit, rowVars, seen, res, open>>,
           \A d \in Caller :
             /\ pc'[d] \in Reserving => pc[d] \in Reserving
             /\ Keeps(d)' /\ Guarded(d) => Keeps(d)
             /\ pc'[d] = "delete" => pc[d] = "delete"
             /\ pc'[d] \in {"insert", "reread"} => pc[d] \in {"delete", "insert", "reread"}
    PROVE  GuardInv'
<1>1. IdsFresh'
  BY DEF GuardInv, IdsFresh, rowVars, Guarded
<1>2. Unreserved'
  BY DEF GuardInv, Unreserved, Guarded
<1>3. Held'
  BY DEF GuardInv, Held, LiveRow, rowVars, Guarded
<1>4. SeenStale'
  BY DEF GuardInv, SeenStale, LiveRow, rowVars
<1>5. RowShape' /\ Recorded'
  BY DEF GuardInv, RowShape, Recorded, rowVars
<1>6. RowOpen'
  BY DEF GuardInv, RowOpen, rowVars
<1> QED
  BY <1>1, <1>2, <1>3, <1>4, <1>5, <1>6 DEF GuardInv

\* Failures, lost races and Shopify's answers only move their caller.
LEMMA MoveStep ==
    ASSUME TypeInv, GuardInv, NEW c \in Caller, UNCHANGED deposit,
           \/ FailOpen(c, "find") \/ FailOpen(c, "insert") \/ DeleteFails(c)
           \/ InsertLoses(c) \/ Reread(c) \/ RereadFails(c)
           \/ Confirmed(c) \/ TimedOut(c) \/ Rejected(c)
           \/ FinalizeFails(c) \/ Return(c) \/ LateFailure(c)
           \/ ReleaseFails(c)
    PROVE  GuardInv'
<1> USE DEF Goto, Reserving, Keeps
<1>0. pc \in [Caller -> Step]
  BY DEF TypeInv, TypeOK
<1>1. UNCHANGED <<rowVars, seen, res, open>>
  BY DEF FailOpen, DeleteFails, InsertLoses, Reread, RereadFails, Confirmed, TimedOut,
         Rejected, FinalizeFails, Return, LateFailure, ReleaseFails
<1>2. CASE FailOpen(c, "find") \/ FailOpen(c, "insert")
  <2>1. ~Guarded(c)
    BY <1>2 DEF FailOpen, GuardInv, Unreserved
  <2> QED
    BY <1>0, <1>1, <1>2, <2>1, MoveKeeps DEF FailOpen
<1>3. CASE DeleteFails(c) \/ InsertLoses(c) \/ Reread(c) \/ RereadFails(c)
  BY <1>0, <1>1, <1>3, MoveKeeps DEF DeleteFails, InsertLoses, Reread, RereadFails
<1>4. CASE Confirmed(c) \/ TimedOut(c) \/ Rejected(c)
  BY <1>0, <1>1, <1>4, MoveKeeps DEF Confirmed, TimedOut, Rejected
<1>5. CASE FinalizeFails(c) \/ Return(c) \/ LateFailure(c)
  BY <1>0, <1>1, <1>5, MoveKeeps DEF FinalizeFails, Return, LateFailure
<1>6. CASE ReleaseFails(c)
  BY <1>0, <1>1, <1>6, MoveKeeps DEF ReleaseFails
<1> QED
  BY <1>2, <1>3, <1>4, <1>5, <1>6

\* A crash ends calls, and leaves their rows as they are.
LEMMA CrashStep ==
    ASSUME TypeInv, GuardInv, NEW dead \in SUBSET Caller, Crash(dead), UNCHANGED deposit
    PROVE  GuardInv'
<1>1. \A d \in Caller : pc'[d] = pc[d] \/ pc'[d] = "idle"
  BY DEF Crash
<1>2. UNCHANGED <<rowVars, seen, res, open>>
  BY DEF Crash
<1>3. \A d \in Caller : Keeps(d)' => Keeps(d)
  BY <1>1 DEF Keeps
<1> QED
  BY <1>1, <1>2, <1>3, MoveKeeps DEF Reserving

\* A new call holds nothing.
LEMMA CallStep ==
    ASSUME TypeInv, GuardInv, NEW c \in Caller, Call(c), UNCHANGED deposit
    PROVE  GuardInv'
<1> USE DEF Call, Goto, rowVars, TypeInv, TypeOK
<1>1. IdsFresh' /\ Unreserved'
  BY DEF GuardInv, IdsFresh, Unreserved, Guarded, Reserving, NoRow, Unguarded
<1>2. Held'
  BY DEF GuardInv, Held, Keeps, LiveRow, Guarded, Unguarded
<1>3. SeenStale' /\ RowShape' /\ Recorded' /\ RowOpen'
  BY DEF GuardInv, SeenStale, RowShape, Recorded, RowOpen, LiveRow
<1> QED
  BY <1>1, <1>2, <1>3 DEF GuardInv

\* find keeps the invariant: a row it goes on to delete is stale.
LEMMA FindStep ==
    ASSUME TypeInv, GuardInv, NEW c \in Caller, Find(c), UNCHANGED deposit
    PROVE  GuardInv'
<1> USE DEF Find, Goto, rowVars, TypeInv, TypeOK
<1>1. IdsFresh'
  BY DEF GuardInv, IdsFresh, Guarded
<1>2. Unreserved' /\ Held'
  BY DEF GuardInv, Unreserved, Held, Keeps, LiveRow, Guarded, Reserving
<1>3. rowId # NoRow /\ ~Known /\ ~Blocking => ~fresh
  BY DEF GuardInv, RowShape, Known, Blocking
<1>4. SeenStale'
  BY <1>3 DEF GuardInv, SeenStale, LiveRow
<1>5. RowShape' /\ Recorded'
  BY DEF GuardInv, RowShape, Recorded
<1>6. RowOpen'
  BY DEF GuardInv, RowOpen, RowShape
<1> QED
  BY <1>1, <1>2, <1>4, <1>5, <1>6 DEF GuardInv

\* The delete takes no reservation from anyone: it is by the id seen.
LEMMA DeleteStep ==
    ASSUME TypeInv, GuardInv, NEW c \in Caller, Delete(c), UNCHANGED deposit
    PROVE  GuardInv'
<1> USE DEF Delete, Goto, TypeInv, TypeOK
<1>1. IdsFresh' /\ Unreserved'
  BY DEF GuardInv, IdsFresh, Unreserved, Guarded, Reserving
<1>2. CASE ~SeenRow(c)
  <2>1. Held' /\ SeenStale'
    BY <1>2 DEF GuardInv, Held, SeenStale, Keeps, LiveRow, Guarded
  <2>2. RowShape' /\ Recorded' /\ RowOpen'
    BY <1>2 DEF GuardInv, RowShape, Recorded, RowOpen
  <2> QED
    BY <1>1, <2>1, <2>2 DEF GuardInv
<1>3. CASE SeenRow(c)
  <2>1. ~LiveRow /\ (~deposit => ~fresh)
    BY <1>3 DEF GuardInv, SeenStale, SeenRow
  <2>2. Held'
    BY <1>3, <2>1 DEF GuardInv, Held, Keeps, LiveRow, Guarded
  <2>3. SeenStale' /\ RowShape' /\ RowOpen'
    BY <1>3 DEF SeenStale, RowShape, RowOpen, LiveRow, NoRow
  <2>4. Recorded'
    BY <1>3, <2>1 DEF GuardInv, Recorded
  <2> QED
    BY <1>1, <2>2, <2>3, <2>4 DEF GuardInv
<1> QED
  BY <1>2, <1>3

\* The insert makes a reservation nobody else holds.
LEMMA InsertStep ==
    ASSUME TypeInv, GuardInv, NEW c \in Caller, Insert(c), UNCHANGED deposit
    PROVE  GuardInv'
<1> USE DEF Insert, Goto, TypeInv, TypeOK
<1>1. rowStatus = "none" /\ ~LiveRow /\ nextId \in Nat /\ nextId # NoRow
  BY DEF GuardInv, RowShape, LiveRow, NoRow
<1>2. IdsFresh'
  BY <1>1 DEF GuardInv, IdsFresh, Guarded, Unguarded
<1>3. Unreserved'
  BY DEF GuardInv, Unreserved, Guarded, Reserving
<1>4. Held'
  BY <1>1 DEF GuardInv, Held, Keeps, LiveRow, Guarded
<1>5. SeenStale'
  BY DEF GuardInv, SeenStale, IdsFresh
<1>6. RowShape' /\ RowOpen'
  BY <1>1 DEF RowShape, RowOpen
<1>7. Recorded'
  BY <1>1 DEF GuardInv, Recorded
<1> QED
  BY <1>2, <1>3, <1>4, <1>5, <1>6, <1>7 DEF GuardInv

\* finalize records the order in the row of its own caller.
LEMMA FinalizeStep ==
    ASSUME TypeInv, GuardInv, NEW c \in Caller, Finalize(c), UNCHANGED deposit
    PROVE  GuardInv'
<1> USE DEF Finalize, Goto, TypeInv, TypeOK
<1>1. IdsFresh' /\ Unreserved'
  BY DEF GuardInv, IdsFresh, Unreserved, Guarded, Reserving
<1>2. CASE ~OwnRow(c)
  <2>1. Held' /\ SeenStale'
    BY <1>2 DEF GuardInv, Held, SeenStale, Keeps, LiveRow, Guarded
  <2>2. UNCHANGED <<rowId, rowStatus, rowOrder, fresh, open>>
    BY <1>2
  <2>3. RowShape' /\ Recorded'
    BY <2>2 DEF GuardInv, RowShape, Recorded
  <2>4. RowOpen'
    BY <2>2 DEF GuardInv, RowOpen
  <2> QED
    BY <1>1, <2>1, <2>3, <2>4 DEF GuardInv
<1>3. CASE OwnRow(c)
  <2>1. Guarded(c) /\ LiveRow /\ rowId = res[c]
    BY <1>3 DEF GuardInv, Held, Keeps, OwnRow, Guarded, Unguarded
  <2>2. Held'
    BY <1>3, <2>1 DEF GuardInv, Held, IdsFresh, Keeps, LiveRow, Guarded
  <2>3. SeenStale'
    BY <1>3, <2>1 DEF GuardInv, SeenStale, LiveRow
  <2>4. Recorded'
    BY <1>3, <2>1 DEF GuardInv, Recorded, LiveRow, OrderRef
  <2>5. RowShape' /\ RowOpen'
    BY <1>3, <2>1 DEF GuardInv, RowShape, RowOpen, LiveRow, OrderRef
  <2> QED
    BY <1>1, <2>2, <2>3, <2>4, <2>5 DEF GuardInv
<1> QED
  BY <1>2, <1>3

\* release fails the row of its own caller.
LEMMA ReleaseStep ==
    ASSUME TypeInv, GuardInv, NEW c \in Caller, Release(c), UNCHANGED deposit
    PROVE  GuardInv'
<1> USE DEF Release, Goto, TypeInv, TypeOK
<1>1. IdsFresh' /\ Unreserved'
  BY DEF GuardInv, IdsFresh, Unreserved, Guarded, Reserving
<1>2. CASE ~OwnRow(c)
  <2>1. Held' /\ SeenStale'
    BY <1>2 DEF GuardInv, Held, SeenStale, Keeps, LiveRow, Guarded
  <2>2. RowShape' /\ Recorded' /\ RowOpen'
    BY <1>2 DEF GuardInv, RowShape, Recorded, RowOpen
  <2> QED
    BY <1>1, <2>1, <2>2 DEF GuardInv
<1>3. CASE OwnRow(c)
  <2>1. Guarded(c) /\ rowId = res[c] /\ rowId # NoRow /\ (~deposit => LiveRow)
    BY <1>3 DEF GuardInv, Held, Keeps, OwnRow, Guarded, Unguarded
  <2>2. Held'
    BY <1>3, <2>1 DEF GuardInv, Held, IdsFresh, Keeps, LiveRow, Guarded
  <2>3. SeenStale'
    BY <1>3, <2>1 DEF GuardInv, SeenStale, LiveRow
  <2>4. Recorded'
    BY <1>3, <2>1 DEF GuardInv, Recorded, LiveRow
  <2>5. RowShape' /\ RowOpen'
    BY <1>3, <2>1 DEF GuardInv, RowShape, RowOpen
  <2> QED
    BY <1>1, <2>2, <2>3, <2>4, <2>5 DEF GuardInv
<1> QED
  BY <1>2, <1>3

\* Time takes nothing from a caller whose call ends within its window.
LEMMA TimeStep ==
    ASSUME WindowCovers, TypeInv, GuardInv, UNCHANGED deposit,
           Expire \/ \E o \in open : WindowEnds(o)
    PROVE  GuardInv'
<1> USE DEF TypeInv, TypeOK, callerVars
<1>1. CASE Expire
  <2>1. IdsFresh' /\ Unreserved'
    BY <1>1 DEF Expire, GuardInv, IdsFresh, Unreserved, Guarded
  <2>2. Held'
    BY <1>1 DEF Expire, GuardInv, Held, Keeps, LiveRow, Guarded, Holds, OwnRow
  <2>3. SeenStale' /\ RowShape'
    BY <1>1 DEF Expire, GuardInv, SeenStale, RowShape, LiveRow
  <2>4. Recorded' /\ RowOpen'
    BY <1>1 DEF Expire, Blocking, GuardInv, Recorded, RowOpen
  <2> QED
    BY <2>1, <2>2, <2>3, <2>4 DEF GuardInv
<1>2. ASSUME NEW o \in open, WindowEnds(o)
      PROVE  GuardInv'
  <2>1. IdsFresh' /\ Unreserved'
    BY <1>2 DEF WindowEnds, GuardInv, IdsFresh, Unreserved, Guarded
  <2>2. Held'
    BY <1>2 DEF WindowEnds, GuardInv, Held, Keeps, LiveRow, Guarded
  <2>3. SeenStale' /\ RowShape'
    BY <1>2 DEF WindowEnds, GuardInv, SeenStale, RowShape, LiveRow
  <2>4. Recorded'
    BY <1>2 DEF WindowEnds, GuardInv, Recorded
  <2>5. RowOpen'
    BY <1>2 DEF WindowEnds, GuardInv, RowOpen
  <2> QED
    BY <2>1, <2>2, <2>3, <2>4, <2>5 DEF GuardInv
<1> QED
  BY <1>1, <1>2

\* The reservation invariant is inductive for calls within their window.
LEMMA GuardStep == ASSUME WindowCovers PROVE TypeInv /\ GuardInv /\ [Next]_vars => GuardInv'
<1> SUFFICES ASSUME TypeInv, GuardInv, [Next]_vars
             PROVE  GuardInv'
  OBVIOUS
<1>1. ASSUME NEW c \in Caller, Reserve(c) \/ Create(c), UNCHANGED deposit
      PROVE  GuardInv'
  BY <1>1, MoveStep, CallStep, FindStep, DeleteStep, InsertStep, FinalizeStep, ReleaseStep
     DEF Reserve, Create
<1>2. CASE (Expire \/ \E o \in open : WindowEnds(o)) /\ UNCHANGED deposit
  BY <1>2, TimeStep
<1>3. CASE UNCHANGED vars
  BY <1>3, MoveKeeps DEF vars, callerVars, Keeps, Reserving
<1>4. CASE (\E dead \in SUBSET Caller : Crash(dead)) /\ UNCHANGED deposit
  BY <1>4, CrashStep
<1> QED
  BY <1>1, <1>2, <1>3, <1>4 DEF Next

\* The reservation invariant holds in every behaviour.
THEOREM Reserved == ASSUME WindowCovers PROVE Spec => [](TypeInv /\ GuardInv)
<1>1. Init => TypeInv /\ GuardInv
  BY TypeInit, GuardInit
<1>2. TypeInv /\ GuardInv /\ [Next]_vars => (TypeInv /\ GuardInv)'
  BY TypeStep, GuardStep
<1> QED
  BY <1>1, <1>2, PTL DEF Spec

\* Whoever talks to Shopify under a reservation owns the live row: two callers
\* never place the same order side by side.
THEOREM ReservationIsHeld == ASSUME WindowCovers PROVE Spec => []ReservationHeld
<1>1. GuardInv => ReservationHeld
  BY DEF GuardInv, Held, Keeps, LiveRow, ReservationHeld, Placing, OwnRow
<1> QED
  BY <1>1, Reserved, PTL

\* No order is placed under a reservation inside the window of a recorded one
\* (orders not paid in advance).
THEOREM OneOrder == ASSUME WindowCovers PROVE Spec => []OneOrderPerWindow
<1>1. GuardInv => OneOrderPerWindow
  BY DEF GuardInv, Held, Keeps, LiveRow, Recorded, OneOrderPerWindow, Placing
<1> QED
  BY <1>1, Reserved, PTL

\* A duplicate is answered with an order whose window is open, or with a row
\* the caller found stale and could not delete.
THEOREM DuplicatesRecent == ASSUME WindowCovers PROVE Spec => DuplicateIsRecent
<1> DEFINE Recent == \A c \in Caller : Duplicates(c) => answer'[c] \in open \/ rowId = seen[c]
<1>1. TypeInv /\ GuardInv /\ [Next]_vars => [Recent]_vars
  <2> SUFFICES ASSUME TypeInv, GuardInv, [Next]_vars, NEW d \in Caller, Duplicates(d)
               PROVE  answer'[d] \in open \/ rowId = seen[d]
    OBVIOUS
  <2>1. answer \in [Caller -> Nat]
    BY DEF TypeInv, TypeOK
  <2>2. ASSUME NEW c \in Caller, Find(c) PROVE answer'[d] \in open
    BY <2>1, <2>2 DEF Find, Duplicate, Duplicates, Known, GuardInv, RowOpen
  <2>3. ASSUME NEW c \in Caller, Reread(c) PROVE answer'[d] \in open \/ rowId = seen[d]
    <3>1. d = c /\ rowStatus = "created" /\ answer'[d] = rowOrder /\ pc[d] = "reread"
      BY <2>1, <2>3 DEF Reread, Goto, Duplicate, Duplicates
    <3> QED
      BY <3>1 DEF GuardInv, RowOpen
  <2>4. ASSUME NEW c \in Caller, Reserve(c), ~Find(c), ~Reread(c) PROVE FALSE
    BY <2>1, <2>4 DEF Reserve, Call, FailOpen, Delete, DeleteFails, Insert, InsertLoses,
                      RereadFails, Duplicates
  <2>5. ASSUME NEW c \in Caller, Create(c) PROVE FALSE
    BY <2>5 DEF Create, Confirmed, TimedOut, Rejected, Finalize, FinalizeFails, Return,
                LateFailure, Release, ReleaseFails, Duplicates
  <2>6. ASSUME \/ Expire \/ (\E o \in open : WindowEnds(o))
               \/ (\E dead \in SUBSET Caller : Crash(dead)) \/ UNCHANGED vars
        PROVE  FALSE
    BY <2>6 DEF Expire, WindowEnds, Crash, vars, callerVars, Duplicates
  <2> QED
    BY <2>2, <2>3, <2>4, <2>5, <2>6 DEF Next
<1> QED
  BY <1>1, Reserved, PTL DEF Spec, DuplicateIsRecent

-----------------------------------------------------------------------------
(* Refinement: of a cart that is not paid in advance, OrderIdempotency     *)
(* implements OrderGuard.  Under the reservation invariant an owner is     *)
(* always the only one and its row is live, so whatever moves the slot on  *)
(* either is the owner or finds none.                                      *)

\* There is at most one owner, and the row is its live reservation.
LEMMA OwnersHold ==
    ASSUME TypeInv, GuardInv, ~deposit, NEW c \in Owners
    PROVE  /\ Owners = {c} /\ OwnRow(c) /\ LiveRow /\ GuardSlot = "granted"
           /\ pc[c] \in {"create", "finalize", "release"} /\ open = {}
<1>1. ASSUME NEW d \in Owners
      PROVE  rowId = res[d] /\ LiveRow /\ Guarded(d)
  BY DEF Owners, GuardInv, Held, Keeps
<1>2. ASSUME NEW d \in Owners PROVE d = c
  BY <1>1, <1>2 DEF Owners, GuardInv, IdsFresh
<1>3. OwnRow(c) /\ LiveRow /\ GuardSlot = "granted"
  BY <1>1 DEF OwnRow, LiveRow, GuardSlot
<1>4. open = {}
  BY <1>3 DEF GuardInv, Recorded, LiveRow
<1> QED
  BY <1>2, <1>3, <1>4 DEF Owners

\* Whoever owns the row in its call is an owner.
LEMMA OwnRowOwner ==
    ASSUME TypeInv, NEW c \in Caller, OwnRow(c),
           pc[c] \in {"create", "finalize", "release"}
    PROVE  c \in Owners
  BY DEF TypeInv, TypeOK, OwnRow, Owners, Guarded, Unguarded

\* A step that leaves the slot alone and makes no owner is a stutter, or the
\* owner's leaving.
LEMMA OwnersLeave ==
    ASSUME TypeInv, GuardInv, ~deposit, Owners' \subseteq Owners,
           UNCHANGED <<GuardSlot, open>>
    PROVE  [Guard!Next]_(Guard!vars)
<1>1. CASE Owners' = Owners
  BY <1>1 DEF Guard!vars
<1>2. CASE Owners' # Owners
  <2>1. PICK c \in Owners : c \notin Owners'
    BY <1>2
  <2>2. Owners = {c}
    BY OwnersHold
  <2>3. Owners' = {} /\ Owners # {}
    BY <2>1, <2>2
  <2> QED
    BY <2>3 DEF Guard!Next, Guard!Abandon
<1> QED
  BY <1>1, <1>2

\* What a call does besides its insert, its outcome and its delete.
LEMMA MoveGuards ==
    ASSUME TypeInv, GuardInv, ~deposit, NEW c \in Caller,
           \/ Call(c) \/ Find(c) \/ FailOpen(c, "find") \/ FailOpen(c, "insert")
           \/ DeleteFails(c) \/ InsertLoses(c) \/ Reread(c) \/ RereadFails(c)
           \/ Confirmed(c) \/ TimedOut(c) \/ Rejected(c)
           \/ FinalizeFails(c) \/ Return(c) \/ LateFailure(c)
           \/ ReleaseFails(c)
    PROVE  [Guard!Next]_(Guard!vars)
<1> USE DEF Goto, TypeInv, TypeOK
<1>1. UNCHANGED <<rowStatus, fresh, open>>
  BY DEF Call, Find, FailOpen, DeleteFails, InsertLoses, Reread, RereadFails, Confirmed,
         TimedOut, Rejected, FinalizeFails, Return, LateFailure, ReleaseFails, rowVars
<1>2. \A d \in Caller : d # c => pc'[d] = pc[d] /\ res'[d] = res[d]
  BY DEF Call, Find, FailOpen, DeleteFails, InsertLoses, Reread, RereadFails, Confirmed,
         TimedOut, Rejected, FinalizeFails, Return, LateFailure, ReleaseFails
<1>3. c \in Owners' => c \in Owners
  <2>1. CASE Call(c) \/ Find(c) \/ DeleteFails(c) \/ InsertLoses(c) \/ Reread(c) \/ RereadFails(c)
    BY <2>1 DEF Call, Find, DeleteFails, InsertLoses, Reread, RereadFails, Owners
  <2>2. CASE FailOpen(c, "find") \/ FailOpen(c, "insert")
    BY <2>2 DEF FailOpen, GuardInv, Unreserved, Reserving, Owners, Guarded
  <2>3. CASE Confirmed(c) \/ TimedOut(c) \/ Rejected(c)
    BY <2>3 DEF Confirmed, TimedOut, Rejected, Owners, Guarded
  <2>4. CASE FinalizeFails(c) \/ Return(c) \/ LateFailure(c) \/ ReleaseFails(c)
    BY <2>4 DEF FinalizeFails, Return, LateFailure, ReleaseFails, Owners
  <2> QED
    BY <2>1, <2>2, <2>3, <2>4
<1>4. Owners' \subseteq Owners
  BY <1>2, <1>3 DEF Owners, Guarded
<1> QED
  BY <1>1, <1>4, OwnersLeave DEF GuardSlot

\* The delete takes a row away that bars nobody.
LEMMA DeleteGuards ==
    ASSUME TypeInv, GuardInv, ~deposit, NEW c \in Caller, Delete(c)
    PROVE  [Guard!Next]_(Guard!vars)
<1> USE DEF Goto, TypeInv, TypeOK
<1>1. Owners' \subseteq Owners
  BY DEF Delete, Owners, Guarded
<1>2. SeenRow(c) => ~fresh
  BY DEF Delete, GuardInv, SeenStale, SeenRow
<1>3. UNCHANGED <<GuardSlot, open>>
  BY <1>2 DEF Delete, GuardSlot
<1> QED
  BY <1>1, <1>3, OwnersLeave

\* The insert is the grant.
LEMMA InsertGuards ==
    ASSUME TypeInv, GuardInv, ~deposit, NEW c \in Caller, Insert(c)
    PROVE  Guard!Grant(c)
<1> USE DEF Goto, TypeInv, TypeOK
<1>1. ~fresh /\ rowStatus = "none"
  BY DEF Insert, GuardInv, RowShape
<1>2. open = {} /\ open' = open
  BY <1>1 DEF Insert, GuardInv, Recorded
<1>3. GuardSlot = "free" /\ GuardSlot' = "granted"
  BY <1>1 DEF Insert, GuardSlot
<1>4. Owners = {}
  BY <1>1, OwnersHold DEF LiveRow
<1>5. Owners' = {c}
  <2>1. res'[c] = nextId /\ nextId # Unguarded /\ pc'[c] = "create"
    BY DEF Insert, Unguarded
  <2>2. \A d \in Caller : d # c => pc'[d] = pc[d] /\ res'[d] = res[d]
    BY DEF Insert
  <2> QED
    BY <1>4, <2>1, <2>2 DEF Owners, Guarded
<1> QED
  BY <1>2, <1>3, <1>5 DEF Guard!Grant, Guard!Move

\* finalize is the record, or a stutter for a caller without the row.
LEMMA FinalizeGuards ==
    ASSUME TypeInv, GuardInv, ~deposit, NEW c \in Caller, Finalize(c)
    PROVE  [Guard!Next]_(Guard!vars)
<1> USE DEF Goto, TypeInv, TypeOK
<1>1. Owners' \subseteq Owners \ {c}
  BY DEF Finalize, Owners, Guarded
<1>2. CASE OwnRow(c)
  <2>1. c \in Owners
    BY <1>2, OwnRowOwner DEF Finalize
  <2>2. Owners = {c} /\ open = {} /\ GuardSlot = "granted"
    BY <2>1, OwnersHold
  <2>3. Owners' = {}
    BY <1>1, <2>2
  <2>4. GuardSlot' = "recorded" /\ open' = {gid[c]}
    BY <1>2, <2>2 DEF Finalize, GuardSlot
  <2> QED
    BY <2>2, <2>3, <2>4 DEF Guard!Next, Guard!Record, Guard!Move
<1>3. CASE ~OwnRow(c)
  BY <1>1, <1>3, OwnersLeave DEF Finalize, GuardSlot
<1> QED
  BY <1>2, <1>3

\* release is the failure, or a stutter for a caller without the row.
LEMMA ReleaseGuards ==
    ASSUME TypeInv, GuardInv, ~deposit, NEW c \in Caller, Release(c)
    PROVE  [Guard!Next]_(Guard!vars)
<1> USE DEF Goto, TypeInv, TypeOK
<1>1. Owners' \subseteq Owners \ {c}
  BY DEF Release, Owners, Guarded
<1>2. CASE OwnRow(c)
  <2>1. c \in Owners
    BY <1>2, OwnRowOwner DEF Release
  <2>2. Owners = {c} /\ GuardSlot = "granted"
    BY <2>1, OwnersHold
  <2>3. Owners' = {}
    BY <1>1, <2>2
  <2>4. GuardSlot' = "cooling" /\ open' = open
    BY <1>2 DEF Release, GuardSlot
  <2> QED
    BY <2>2, <2>3, <2>4 DEF Guard!Next, Guard!Fail, Guard!Move
<1>3. CASE ~OwnRow(c)
  BY <1>1, <1>3, OwnersLeave DEF Release, GuardSlot
<1> QED
  BY <1>2, <1>3

\* Time frees a slot nobody owns, or ends the window of the one order recorded.
LEMMA TimeGuards ==
    ASSUME WindowCovers, TypeInv, GuardInv, ~deposit,
           Expire \/ \E o \in open : WindowEnds(o)
    PROVE  Guard!Next
<1> USE DEF TypeInv, TypeOK
<1>1. CASE Expire
  <2>1. Owners = {}
    <3> SUFFICES ASSUME NEW c \in Owners PROVE FALSE
      OBVIOUS
    <3>1. OwnRow(c) /\ rowStatus = "in_flight" /\ pc[c] \in {"create", "finalize", "release"}
      BY OwnersHold DEF LiveRow
    <3> QED
      BY <1>1, <3>1 DEF Expire, Holds, Owners
  <2>2. GuardSlot \in {"granted", "cooling"} /\ GuardSlot' = "free"
    BY <1>1 DEF Expire, Blocking, GuardSlot
  <2>3. Owners' = Owners /\ open' = open
    BY <1>1 DEF Expire, callerVars, Owners, Guarded
  <2> QED
    BY <2>1, <2>2, <2>3 DEF Guard!Next, Guard!Lapse, Guard!Move
<1>2. ASSUME NEW o \in open, WindowEnds(o)
      PROVE  Guard!Next
  <2>1. rowStatus = "created" /\ rowOrder = o /\ fresh
    BY DEF GuardInv, Recorded
  <2>2. GuardSlot = "recorded" /\ GuardSlot' = "free"
    BY <1>2, <2>1 DEF WindowEnds, GuardSlot
  <2>3. open' = {}
    BY <1>2 DEF WindowEnds, GuardInv, Recorded
  <2>4. Owners' = Owners
    BY <1>2 DEF WindowEnds, callerVars, Owners, Guarded
  <2> QED
    BY <2>2, <2>3, <2>4 DEF Guard!Next, Guard!WindowEnds, Guard!Move
<1> QED
  BY <1>1, <1>2

\* Every step is a step of the guard or a stutter.
LEMMA StepGuards ==
    ASSUME WindowCovers, TypeInv, GuardInv, ~deposit, [Next]_vars
    PROVE  [Guard!Next]_(Guard!vars)
<1>1. ASSUME NEW c \in Caller, Reserve(c) \/ Create(c)
      PROVE  [Guard!Next]_(Guard!vars)
  <2>1. CASE Insert(c)
    BY <2>1, InsertGuards DEF Guard!Next
  <2> QED
    BY <1>1, <2>1, MoveGuards, DeleteGuards, FinalizeGuards, ReleaseGuards
       DEF Reserve, Create
<1>2. ASSUME NEW dead \in SUBSET Caller, Crash(dead)
      PROVE  [Guard!Next]_(Guard!vars)
  <2>1. Owners' \subseteq Owners
    BY <1>2 DEF Crash, Owners, Guarded
  <2> QED
    BY <1>2, <2>1, OwnersLeave DEF Crash, rowVars, GuardSlot
<1>3. CASE UNCHANGED vars
  BY <1>3 DEF vars, rowVars, callerVars, Guard!vars, GuardSlot, Owners, Guarded
<1> QED
  BY <1>1, <1>2, <1>3, TimeGuards DEF Next

\* OrderIdempotency implements the abstract guard for orders not paid in
\* advance.
THEOREM Implements == ASSUME WindowCovers PROVE Spec => ImplementsGuard
<1>1. Init => Guard!Init
  BY DEF Init, Guard!Init, GuardSlot, Owners, Guarded, Unguarded
<1>2. TypeInv /\ GuardInv /\ [Next]_vars => [~deposit => Guard!Next]_(Guard!vars)
  BY StepGuards
<1> QED
  BY <1>1, <1>2, Reserved, PTL DEF Spec, ImplementsGuard
=============================================================================
