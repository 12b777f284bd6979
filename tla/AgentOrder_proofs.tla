-------------------------- MODULE AgentOrder_proofs --------------------------
(***************************************************************************)
(* Proofs about AgentOrder for any number of turns and other callers: the  *)
(* agent is a caller like any other of OrderIdempotency, whose theorems it *)
(* inherits, the lock lets one turn at a time into the shop, and no turn   *)
(* orders again what the conversation has on record.                       *)
(***************************************************************************)
EXTENDS AgentOrder, OrderIdempotency_proofs

agent == <<vars, agentVars>>

-----------------------------------------------------------------------------
(* The agent's turns as callers of createOrder.                            *)

\* A turn's steps are those of its call, or leave the guard alone.
LEMMA StepImplements == [AgentNext]_agent => [Next]_vars
<1> SUFFICES ASSUME [AgentNext]_agent
             PROVE  Next \/ UNCHANGED vars
  OBVIOUS
<1>1. ASSUME NEW t \in Turn, TurnStep(t), UNCHANGED deposit
      PROVE  Next \/ UNCHANGED vars
  <2>1. t \in Caller
    BY TurnAssumption
  <2>2. CASE Shop(t)
    BY <1>1, <2>1, <2>2 DEF Shop, Reserve, Next
  <2>3. CASE Progress(t)
    BY <1>1, <2>1, <2>3 DEF Progress, Next
  <2>4. CASE \/ Ask(t) \/ Look(t) \/ LookFails(t) \/ NoAccess(t)
             \/ Mark(t) \/ MarkFails(t) \/ Failed(t) \/ Digress(t)
    BY <2>4 DEF Ask, Look, LookFails, NoAccess, Mark, MarkFails, Failed, Digress
  <2> QED
    BY <1>1, <2>2, <2>3, <2>4 DEF TurnStep
<1>2. ASSUME NEW dead \in SUBSET Caller, Die(dead), UNCHANGED deposit
      PROVE  Next
  BY <1>2 DEF Die, Next
<1>3. CASE Others /\ UNCHANGED deposit
  <2>1. \A dead : dead \in SUBSET (Caller \ Turn) => dead \in SUBSET Caller
    OBVIOUS
  <2> QED
    BY <1>3, <2>1 DEF Others, Next
<1>4. CASE MarkerLapses
  BY <1>4 DEF MarkerLapses
<1>5. CASE UNCHANGED agent
  BY <1>5 DEF agent
<1> QED
  BY <1>1, <1>2, <1>3, <1>4, <1>5 DEF AgentNext

\* The agent drives the guard as OrderIdempotency says a caller does, so what
\* is proved of the guard holds beside it.
THEOREM AgentCalls == AgentSpec => Spec
<1>1. AgentInit => Init
  BY DEF AgentInit
<1> QED
  BY <1>1, StepImplements, PTL DEF AgentSpec, Spec, agent

-----------------------------------------------------------------------------
(* The lock: whoever is past it is at the head of the chain.               *)

\* A turn that joins the chain goes to its end.
LEMMA Joins ==
    ASSUME TurnTypeOK, NEW t \in Turn, At(t, "idle"),
           StepTo(t, "wait") \/ StepTo(t, "aside"),
           chain' = Append(chain, t), UNCHANGED <<pc, placed, marker, mine>>
    PROVE  TurnTypeOK'
<1> USE DEF TurnTypeOK, At, StepTo
<1>1. /\ chain' \in Seq(Turn) /\ Len(chain') = Len(chain) + 1 /\ Len(chain) \in Nat
      /\ \A i \in 1..Len(chain) : chain'[i] = chain[i]
      /\ chain'[Len(chain) + 1] = t
  OBVIOUS
<1>2. step' \in [Turn -> {"idle", "wait", "shop", "called", "aside"}]
  OBVIOUS
<1>3. \A u \in Turn : InTurn(u) => InTurn(u)'
  BY <1>1 DEF InTurn
<1>4. \A u \in Turn : /\ step'[u] \in {"shop", "called"} => InTurn(u)'
                      /\ pc'[u] # "idle" => step'[u] = "called"
  BY <1>3
<1>5. \A i \in 1..Len(chain) : chain[i] # t /\ chain[i] \in Turn
  OBVIOUS
<1>6. \A i \in 1..Len(chain') : step'[chain'[i]] # "idle"
  BY <1>1, <1>5
<1>7. \A i, j \in 1..Len(chain') : chain'[i] = chain'[j] => i = j
  BY <1>1, <1>5
<1> QED
  BY <1>1, <1>2, <1>4, <1>6, <1>7

\* The holder leaves: nobody else was past the lock.
LEMMA Leaves ==
    ASSUME TurnTypeOK, NEW t \in Turn, InTurn(t), pc[t] = "idle", Leave(t),
           UNCHANGED <<pc, placed>>, marker' \in 0..placed, mine' \subseteq 1..placed
    PROVE  /\ TurnTypeOK'
           /\ \A u \in Turn : step'[u] \notin {"shop", "called"}
<1> USE DEF TurnTypeOK, Leave, StepTo
<1>1. /\ chain' \in Seq(Turn) /\ Len(chain') = Len(chain) - 1 /\ Len(chain) \in Nat \ {0}
      /\ \A i \in 1..Len(chain') : chain'[i] = chain[i + 1] /\ i + 1 \in 1..Len(chain)
  BY DEF InTurn
<1>2. step' \in [Turn -> {"idle", "wait", "shop", "called", "aside"}]
  OBVIOUS
<1>3. chain[1] = t /\ 1 \in 1..Len(chain)
  BY <1>1 DEF InTurn
<1>4. \A u \in Turn : step'[u] \notin {"shop", "called"}
  BY DEF InTurn
<1>5. \A i \in 1..Len(chain') : chain'[i] # t /\ chain'[i] \in Turn
  BY <1>1, <1>3
<1>6. \A i \in 1..Len(chain') : step'[chain'[i]] # "idle"
  BY <1>1, <1>5
<1>7. \A i, j \in 1..Len(chain') : chain'[i] = chain'[j] => i = j
  BY <1>1
<1>8. \A u \in Turn : pc'[u] # "idle" => step'[u] = "called"
  OBVIOUS
<1> QED
  BY <1>1, <1>2, <1>4, <1>6, <1>7, <1>8

\* The holder moves on, and leaves the chain as it is.
LEMMA MovesOn ==
    ASSUME TurnTypeOK, NEW t \in Turn, InTurn(t),
           \/ StepTo(t, "shop") /\ pc[t] = "idle" /\ UNCHANGED pc
           \/ StepTo(t, "called") /\ \A u \in Turn \ {t} : pc'[u] = pc[u]
           \/ UNCHANGED step /\ At(t, "called") /\ \A u \in Turn \ {t} : pc'[u] = pc[u],
           UNCHANGED chain, marker' \in 0..placed', mine' \subseteq 1..placed'
    PROVE  TurnTypeOK'
<1> USE DEF TurnTypeOK, StepTo, At
<1>1. \A u \in Turn : InTurn(u)' <=> InTurn(u)
  BY DEF InTurn
<1>2. \A i \in 1..Len(chain) : chain[i] \in Turn
  OBVIOUS
<1>3. step' \in [Turn -> {"idle", "wait", "shop", "called", "aside"}]
  OBVIOUS
<1>4. \A u \in Turn : /\ step'[u] \in {"shop", "called"} => InTurn(u)'
                      /\ pc'[u] # "idle" => step'[u] = "called"
  BY <1>1
<1>5. \A i \in 1..Len(chain') : step'[chain'[i]] # "idle"
  BY <1>2
<1> QED
  BY <1>3, <1>4, <1>5

\* A step of createOrder moves its own caller, and orders are only added.
LEMMA OwnCall ==
    ASSUME TypeInv, NEW c \in Caller, Reserve(c) \/ Create(c)
    PROVE  /\ \A d \in Caller \ {c} : pc'[d] = pc[d] /\ gid'[d] = gid[d] /\ answer'[d] = answer[d]
           /\ placed \in Nat /\ placed' \in {placed, placed + 1}
<1> USE DEF TypeInv, TypeOK, Goto
<1>1. CASE Reserve(c)
  BY <1>1 DEF Reserve, Call, Find, FailOpen, Delete, DeleteFails, Insert, InsertLoses,
              Reread, RereadFails, Duplicate
<1>2. CASE Create(c)
  BY <1>2 DEF Create, Confirmed, TimedOut, Rejected, Finalize, FinalizeFails, Return,
              LateFailure, Release, ReleaseFails
<1> QED
  BY <1>1, <1>2

\* What a call has heard and been told: orders that exist.
Answers == \A c \in Caller : gid[c] \in 0..placed /\ answer[c] \in 0..placed

\* The orders a call knows: its own once Shopify has confirmed it, or the one
\* reserve knew, never both.
Outcome ==
    \A c \in Caller :
        /\ pc[c] \in {"find", "delete", "insert", "reread", "create"} =>
               gid[c] = NoOrder /\ answer[c] = NoOrder
        /\ gid[c] # NoOrder => answer[c] = NoOrder

CallInv == Answers /\ Outcome

\* One step of a call keeps its results apart; an order it hears of is new, and
\* an order it records is its own.
LEMMA CallKeeps ==
    ASSUME TypeInv, CallInv, NEW c \in Caller, Reserve(c) \/ Create(c)
    PROVE  /\ CallInv'
           /\ gid'[c] \in {gid[c], NoOrder, placed + 1}
           /\ gid'[c] # NoOrder => gid'[c] \in {gid[c], placed'}
           /\ gid'[c] = placed + 1 => placed' = placed + 1
           /\ pc[c] # "idle" => gid'[c] = gid[c] \/ (gid[c] = NoOrder /\ gid'[c] = placed + 1)
           /\ open' \subseteq open \cup ({gid[c]} \ {NoOrder})
           /\ open' # open => gid'[c] = gid[c] /\ pc[c] # "idle"
<1> USE DEF TypeInv, TypeOK, Confirmation, CallInv, Answers, Outcome, Goto, rowVars, NoOrder
<1>0. placed \in Nat /\ pc \in [Caller -> Step] /\ gid \in [Caller -> Nat] /\ answer \in [Caller -> Nat]
  OBVIOUS
<1>1. CASE Call(c)
  BY <1>1 DEF Call
<1>2. CASE Find(c)
  BY <1>2 DEF Find, Duplicate
<1>3. CASE FailOpen(c, "find") \/ FailOpen(c, "insert")
  BY <1>3 DEF FailOpen
<1>4. CASE Delete(c) \/ DeleteFails(c) \/ Insert(c) \/ InsertLoses(c) \/ RereadFails(c)
  BY <1>4 DEF Delete, DeleteFails, Insert, InsertLoses, RereadFails
<1>5. CASE Reread(c)
  BY <1>5 DEF Reread, Duplicate
<1>6. CASE Confirmed(c)
  BY <1>6 DEF Confirmed
<1>7. CASE TimedOut(c) \/ Rejected(c)
  BY <1>7 DEF TimedOut, Rejected
<1>8. CASE Finalize(c)
  BY <1>8 DEF Finalize
<1>9. CASE FinalizeFails(c) \/ Return(c) \/ LateFailure(c)
  BY <1>9 DEF FinalizeFails, Return, LateFailure
<1>10. CASE Release(c) \/ ReleaseFails(c)
  BY <1>10 DEF Release, ReleaseFails
<1> QED
  BY <1>1, <1>2, <1>3, <1>4, <1>5, <1>6, <1>7, <1>8, <1>9, <1>10 DEF Reserve, Create

-----------------------------------------------------------------------------
(* The conversation's orders.                                              *)

\* Nobody but turns holds an order of the conversation.
Apart ==
    /\ \A c \in Caller \ Turn : gid[c] # NoOrder =>
           gid[c] \notin mine /\ \A t \in Turn : gid[t] # gid[c]
    /\ mine \subseteq 1..placed

\* A turn past the look has found no marker, and none is left beside it.
NoMarker == \A t \in Turn : step[t] \in {"shop", "called"} => marker = NoOrder

\* An order on record has its marker, or the turn that placed it is still to
\* leave it.
Covered ==
    \A o \in open \cap mine : o = marker \/ \E t \in Turn : At(t, "called") /\ gid[t] = o

ChatInv == CallInv /\ TurnTypeOK /\ Apart /\ NoMarker /\ Covered

\* Initially nobody has ordered.
LEMMA ChatInit == AgentInit => ChatInv
<1> SUFFICES ASSUME AgentInit PROVE ChatInv
  OBVIOUS
<1> USE DEF AgentInit, Init, NoOrder
<1>1. CallInv
  BY DEF CallInv, Answers, Outcome
<1>2. TurnTypeOK
  <2>1. chain \in Seq(Turn) /\ Len(chain) = 0
    OBVIOUS
  <2>2. \A t \in Turn : pc[t] = "idle"
    BY TurnAssumption
  <2> QED
    BY <2>1, <2>2 DEF TurnTypeOK
<1>3. Apart /\ NoMarker /\ Covered
  BY DEF Apart, NoMarker, Covered
<1> QED
  BY <1>1, <1>2, <1>3 DEF ChatInv

\* The turn with the lock is the only one past it.
LEMMA Alone ==
    ASSUME TurnTypeOK, NEW t \in Turn, NEW u \in Turn, InTurn(t), step[u] \in {"shop", "called"}
    PROVE  u = t
BY DEF TurnTypeOK, InTurn

\* A turn with the lock and without an order of its own on record: nothing of
\* the conversation is on record beside the marker.
LEMMA LeaveKeeps ==
    ASSUME TypeInv, ChatInv, NEW t \in Turn, InTurn(t), pc[t] = "idle", Leave(t), UNCHANGED vars,
           marker' \in 0..placed, mine' \subseteq mine,
           At(t, "called") => gid[t] \notin open \cap mine' \/ marker' = gid[t],
           ~At(t, "called") => marker' = marker \/ mine' = {}
    PROVE  ChatInv'
<1> USE DEF ChatInv, vars, callerVars
<1>1. TurnTypeOK' /\ \A u \in Turn : step'[u] \notin {"shop", "called"}
  <2>1. mine' \subseteq 1..placed
    BY DEF Apart
  <2> QED
    BY <2>1, Leaves
<1>2. CallInv'
  BY DEF CallInv, Answers, Outcome
<1>3. Apart' /\ NoMarker'
  BY <1>1 DEF Apart, NoMarker
<1>4. Covered'
  <2> SUFFICES ASSUME NEW o \in open \cap mine'
               PROVE  o = marker'
    BY DEF Covered
  <2>1. o # NoOrder
    BY DEF TypeInv, TypeOK, NoOrder
  <2>2. CASE At(t, "called")
    <3>1. marker = NoOrder
      BY <2>2 DEF NoMarker, At
    <3>2. PICK u \in Turn : At(u, "called") /\ gid[u] = o
      BY <2>1, <3>1 DEF Covered
    <3>3. u = t
      BY <3>2, Alone DEF At
    <3> QED
      BY <2>2, <3>2, <3>3
  <2>3. CASE ~At(t, "called")
    <3>1. \A u \in Turn : ~At(u, "called")
      BY <2>3, Alone DEF At
    <3> QED
      BY <2>3, <3>1 DEF Covered
  <2> QED
    BY <2>2, <2>3
<1> QED
  BY <1>1, <1>2, <1>3, <1>4

\* Every step of a turn keeps the invariant.
LEMMA TurnKeeps ==
    ASSUME TypeInv, ChatInv, NEW t \in Turn, TurnStep(t), UNCHANGED deposit
    PROVE  ChatInv'
<1>0. t \in Caller /\ placed \in Nat /\ marker \in 0..placed /\ mine \subseteq 1..placed
  BY TurnAssumption DEF ChatInv, TurnTypeOK, TypeInv, TypeOK
<1>1. CASE Ask(t)
  <2>1. UNCHANGED <<vars, marker, mine>> /\ At(t, "idle")
        /\ (StepTo(t, "wait") \/ StepTo(t, "aside"))
    BY <1>1 DEF Ask
  <2>2. TurnTypeOK'
    BY <1>1, Joins DEF Ask, ChatInv, vars, callerVars
  <2>3. CallInv' /\ Apart'
    BY <2>1 DEF ChatInv, CallInv, Answers, Outcome, Apart, vars, callerVars
  <2>4. \A u \in Turn : u # t => step'[u] = step[u]
    BY <2>1 DEF StepTo, ChatInv, TurnTypeOK
  <2>5. step'[t] \in {"wait", "aside"} /\ step[t] = "idle"
    BY <2>1 DEF StepTo, At, ChatInv, TurnTypeOK
  <2>6. NoMarker' /\ Covered'
    BY <2>1, <2>4, <2>5 DEF ChatInv, NoMarker, Covered, At, vars, callerVars
  <2> QED
    BY <2>2, <2>3, <2>6 DEF ChatInv
<1>2. CASE Look(t)
  <2>0. pc[t] = "idle" /\ InTurn(t) /\ ~At(t, "called") /\ UNCHANGED <<vars, marker, mine>>
    BY <1>2 DEF Look, At, HasLock, ChatInv, TurnTypeOK
  <2>1. CASE Leave(t)
    BY <1>0, <2>0, <2>1, LeaveKeeps DEF Apart, ChatInv
  <2>2. CASE marker = NoOrder /\ StepTo(t, "shop") /\ UNCHANGED chain
    <3>1. TurnTypeOK'
      <4>1. marker' \in 0..placed' /\ mine' \subseteq 1..placed' /\ UNCHANGED pc
        BY <1>0, <2>0 DEF vars, callerVars
      <4> QED
        BY <2>0, <2>2, <4>1, MovesOn DEF ChatInv
    <3>2. CallInv' /\ Apart'
      BY <2>0 DEF ChatInv, CallInv, Answers, Outcome, Apart, vars, callerVars
    <3>3. NoMarker'
      BY <2>0, <2>2 DEF NoMarker
    <3>4. \A u \in Turn : At(u, "called") => At(u, "called")'
      BY <2>0, <2>2 DEF At, StepTo, ChatInv, TurnTypeOK
    <3>5. Covered'
      BY <2>0, <3>4 DEF ChatInv, Covered, vars, callerVars
    <3> QED
      BY <3>1, <3>2, <3>3, <3>5 DEF ChatInv
  <2> QED
    BY <1>2, <2>1, <2>2 DEF Look
<1>3. CASE LookFails(t) \/ NoAccess(t)
  <2>1. pc[t] = "idle" /\ InTurn(t) /\ ~At(t, "called") /\ UNCHANGED <<vars, marker, mine>> /\ Leave(t)
    BY <1>3 DEF LookFails, NoAccess, At, HasLock, ChatInv, TurnTypeOK
  <2> QED
    BY <1>0, <2>1, LeaveKeeps DEF Apart, ChatInv
<1>4. CASE Shop(t)
  <2>1. /\ At(t, "shop") /\ InTurn(t) /\ StepTo(t, "called") /\ Call(t)
        /\ UNCHANGED <<chain, marker, mine, placed, open>>
    BY <1>4 DEF Shop, Call, At, ChatInv, TurnTypeOK
  <2>2. \A u \in Caller \ {t} : pc'[u] = pc[u] /\ gid'[u] = gid[u]
    BY <1>0, <2>1, OwnCall DEF Reserve
  <2>3. gid'[t] = NoOrder
    BY <1>0, <2>1 DEF Call, TypeInv, TypeOK
  <2>4. TurnTypeOK'
    BY <1>0, <2>1, <2>2, MovesOn, TurnAssumption DEF ChatInv
  <2>5. CallInv'
    BY <1>0, <2>1, CallKeeps DEF ChatInv, Reserve
  <2>6. Apart'
    BY <1>0, <2>1, <2>2, <2>3, TurnAssumption DEF ChatInv, Apart
  <2>7. NoMarker'
    <3>1. marker = NoOrder
      BY <2>1 DEF ChatInv, NoMarker, At
    <3> QED
      BY <2>1, <3>1 DEF NoMarker
  <2>8. Covered'
    <3>1. \A u \in Turn : ~At(u, "called")
      BY <2>1, Alone DEF At, ChatInv
    <3>2. \A o \in open \cap mine : o = marker
      BY <3>1 DEF ChatInv, Covered
    <3> QED
      BY <2>1, <3>2 DEF Covered
  <2> QED
    BY <2>4, <2>5, <2>6, <2>7, <2>8 DEF ChatInv
<1>5. CASE Progress(t)
  <2>1. /\ At(t, "called") /\ InTurn(t) /\ pc[t] # "idle" /\ (Reserve(t) \/ Create(t))
        /\ mine' = mine \cup ({gid'[t]} \ {NoOrder})
        /\ UNCHANGED <<chain, step, marker>>
    BY <1>5 DEF Progress, At, ChatInv, TurnTypeOK
  <2>2. /\ \A u \in Caller \ {t} : pc'[u] = pc[u] /\ gid'[u] = gid[u]
        /\ placed' \in {placed, placed + 1}
    BY <1>0, <2>1, OwnCall
  <2>3. /\ CallInv'
        /\ gid'[t] = gid[t] \/ (gid[t] = NoOrder /\ gid'[t] = placed + 1)
        /\ open' \subseteq open \cup ({gid[t]} \ {NoOrder})
        /\ open' # open => gid'[t] = gid[t]
    BY <1>0, <2>1, CallKeeps DEF ChatInv
  <2>4. gid'[t] \in 0..placed'
    BY <1>0, <2>3 DEF CallInv, Answers
  <2>5. marker' \in 0..placed' /\ mine' \subseteq 1..placed'
    <3>1. \A o \in mine : o \in 1..placed'
      BY <1>0, <2>2
    <3>2. gid'[t] # NoOrder => gid'[t] \in 1..placed'
      BY <1>0, <2>2, <2>4 DEF NoOrder
    <3>3. \A o \in mine' : o \in 1..placed'
      BY <2>1, <3>1, <3>2
    <3>4. marker' \in 0..placed'
      BY <1>0, <2>1, <2>2
    <3> QED
      BY <3>3, <3>4
  <2>6. TurnTypeOK'
    BY <1>0, <2>1, <2>2, <2>5, MovesOn, TurnAssumption DEF ChatInv
  <2>7. Apart'
    <3> SUFFICES ASSUME NEW c \in Caller \ Turn, gid'[c] # NoOrder
                 PROVE  gid'[c] \notin mine' /\ \A u \in Turn : gid'[u] # gid'[c]
      BY <2>5 DEF Apart
    <3>1. gid'[c] = gid[c] /\ gid[c] \in 0..placed
      BY <2>2 DEF ChatInv, CallInv, Answers
    <3>2. gid[c] \notin mine /\ \A u \in Turn : gid[u] # gid[c]
      BY <3>1 DEF ChatInv, Apart
    <3>3. gid'[t] # gid[c]
      BY <1>0, <2>3, <3>1, <3>2
    <3> QED
      BY <2>1, <2>2, <3>1, <3>2, <3>3, TurnAssumption
  <2>8. NoMarker'
    BY <2>1 DEF ChatInv, NoMarker
  <2>9. Covered'
    <3> SUFFICES ASSUME NEW o \in open' \cap mine'
                 PROVE  o = marker \/ \E u \in Turn : At(u, "called") /\ gid'[u] = o
      BY <2>1 DEF Covered, At
    <3>1. CASE o = gid'[t]
      BY <2>1, <3>1
    <3>2. CASE o # gid'[t]
      <4>1. o \in mine
        BY <2>1, <3>2
      <4>2. o \in open
        BY <2>3, <3>2
      <4>3. o = marker \/ \E u \in Turn : At(u, "called") /\ gid[u] = o
        BY <4>1, <4>2 DEF ChatInv, Covered
      <4>4. marker = NoOrder /\ o # NoOrder
        BY <1>0, <2>1, <4>1 DEF ChatInv, NoMarker, At, NoOrder
      <4>5. PICK u \in Turn : At(u, "called") /\ gid[u] = o
        BY <4>3, <4>4
      <4>6. u = t
        BY <2>1, <4>5, Alone DEF ChatInv, At
      <4>7. gid[t] = o
        BY <4>5, <4>6
      <4> QED
        BY <2>3, <3>2, <4>4, <4>7
    <3> QED
      BY <3>1, <3>2
  <2> QED
    BY <2>3, <2>6, <2>7, <2>8, <2>9 DEF ChatInv
<1>6. CASE Mark(t) \/ MarkFails(t) \/ Failed(t)
  <2>1. /\ At(t, "called") /\ InTurn(t) /\ pc[t] = "idle" /\ Leave(t) /\ UNCHANGED vars
        /\ mine' \subseteq mine
    BY <1>6 DEF Mark, MarkFails, Failed, Returned, At, ChatInv, TurnTypeOK
  <2>2. gid[t] \in 0..placed /\ answer[t] \in 0..placed
        /\ (gid[t] # NoOrder => answer[t] = NoOrder)
    BY <1>0 DEF ChatInv, CallInv, Answers, Outcome
  <2>3. marker' \in 0..placed
    BY <1>0, <1>6, <2>2 DEF Mark, MarkFails, Failed, Result
  <2>4. gid[t] \notin open \cap mine' \/ marker' = gid[t]
    BY <1>0, <1>6, <2>2 DEF Mark, MarkFails, Failed, Result, NoOrder
  <2> QED
    BY <2>1, <2>3, <2>4, LeaveKeeps
<1>7. CASE Digress(t)
  <2>1. /\ ~At(t, "called") /\ InTurn(t) /\ pc[t] = "idle" /\ Leave(t) /\ UNCHANGED vars
        /\ mine' \subseteq mine /\ (marker' = marker \/ mine' = {})
        /\ marker' \in {marker, NoOrder}
    BY <1>7 DEF Digress, HasLock, At, ChatInv, TurnTypeOK
  <2>2. marker' \in 0..placed
    BY <1>0, <2>1 DEF NoOrder
  <2> QED
    BY <2>1, <2>2, LeaveKeeps
<1> QED
  BY <1>1, <1>2, <1>3, <1>4, <1>5, <1>6, <1>7 DEF TurnStep

\* The other callers have orders of their own.
LEMMA OthersKeep ==
    ASSUME TypeInv, ChatInv, Others, UNCHANGED deposit
    PROVE  ChatInv'
<1>0. placed \in Nat /\ open \subseteq 1..placed /\ UNCHANGED agentVars
  BY DEF Others, TypeInv, TypeOK
<1>1. ASSUME NEW c \in Caller \ Turn, Reserve(c) \/ Create(c)
      PROVE  ChatInv'
  <2>1. /\ \A d \in Caller \ {c} : pc'[d] = pc[d] /\ gid'[d] = gid[d]
        /\ placed' \in {placed, placed + 1}
    BY <1>1, OwnCall
  <2>2. /\ CallInv'
        /\ gid'[c] \in {gid[c], NoOrder, placed + 1}
        /\ open' \subseteq open \cup ({gid[c]} \ {NoOrder})
    BY <1>1, CallKeeps DEF ChatInv
  <2>3. \A t \in Turn : t \in Caller \ {c}
    BY TurnAssumption
  <2>4. TurnTypeOK'
    BY <1>0, <2>1, <2>3 DEF ChatInv, TurnTypeOK, agentVars, InTurn
  <2>5. Apart'
    <3>1. mine' \subseteq 1..placed'
      BY <1>0, <2>1 DEF ChatInv, Apart, agentVars
    <3>2. \A t \in Turn : gid'[t] = gid[t] /\ gid[t] \in 0..placed
      BY <2>1, <2>3 DEF ChatInv, CallInv, Answers
    <3>3. ASSUME NEW d \in Caller \ Turn, gid'[d] # NoOrder
          PROVE  gid'[d] \notin mine' /\ \A t \in Turn : gid'[t] # gid'[d]
      <4>1. CASE gid'[d] = gid[d]
        BY <1>0, <3>2, <3>3, <4>1 DEF ChatInv, Apart, agentVars
      <4>2. CASE gid'[d] # gid[d]
        <5>1. d = c /\ gid'[d] = placed + 1
          BY <2>1, <2>2, <3>3, <4>2
        <5>2. mine' \subseteq 1..placed
          BY <1>0 DEF ChatInv, Apart, agentVars
        <5> QED
          BY <1>0, <3>2, <5>1, <5>2
      <4> QED
        BY <4>1, <4>2
    <3> QED
      BY <3>1, <3>3 DEF Apart
  <2>6. NoMarker'
    BY <1>0 DEF ChatInv, NoMarker, agentVars
  <2>7. Covered'
    <3> SUFFICES ASSUME NEW o \in open' \cap mine
                 PROVE  o = marker \/ \E t \in Turn : At(t, "called") /\ gid'[t] = o
      BY <1>0 DEF Covered, At, agentVars
    <3>1. o \in open
      BY <2>2 DEF ChatInv, Apart
    <3>2. \A t \in Turn : gid'[t] = gid[t]
      BY <2>1, <2>3
    <3> QED
      BY <3>1, <3>2 DEF ChatInv, Covered
  <2> QED
    BY <2>2, <2>4, <2>5, <2>6, <2>7 DEF ChatInv
<1>2. ASSUME NEW dead \in SUBSET (Caller \ Turn), Crash(dead)
      PROVE  ChatInv'
  <2>1. /\ UNCHANGED <<gid, answer, placed, open>>
        /\ \A d \in Caller : pc'[d] \in {pc[d], "idle"}
        /\ \A t \in Turn : pc'[t] = pc[t]
    BY <1>2, TurnAssumption DEF Crash
  <2>2. CallInv'
    BY <2>1 DEF ChatInv, CallInv, Answers, Outcome
  <2>3. TurnTypeOK'
    BY <1>0, <2>1 DEF ChatInv, TurnTypeOK, agentVars, InTurn
  <2>4. Apart' /\ NoMarker' /\ Covered'
    BY <1>0, <2>1 DEF ChatInv, Apart, NoMarker, Covered, At, agentVars
  <2> QED
    BY <2>2, <2>3, <2>4 DEF ChatInv
<1>3. CASE Expire \/ \E o \in open : WindowEnds(o)
  <2>1. UNCHANGED <<pc, gid, answer, placed>> /\ open' \subseteq open
    BY <1>3 DEF Expire, WindowEnds, callerVars
  <2>2. CallInv'
    BY <2>1 DEF ChatInv, CallInv, Answers, Outcome
  <2>3. TurnTypeOK'
    BY <1>0, <2>1 DEF ChatInv, TurnTypeOK, agentVars, InTurn
  <2>4. Apart' /\ NoMarker' /\ Covered'
    BY <1>0, <2>1 DEF ChatInv, Apart, NoMarker, Covered, At, agentVars
  <2> QED
    BY <2>2, <2>3, <2>4 DEF ChatInv
<1> QED
  BY <1>1, <1>2, <1>3 DEF Others

\* A death empties the chain; what a dead turn had placed is nobody's.
LEMMA DieKeeps ==
    ASSUME TypeInv, ChatInv, NEW dead \in SUBSET Caller, Die(dead), UNCHANGED deposit
    PROVE  ChatInv'
<1>1. /\ UNCHANGED <<gid, answer, placed, open, marker>>
      /\ \A d \in Caller : pc'[d] \in {pc[d], "idle"}
      /\ \A t \in Turn : pc'[t] = "idle"
      /\ mine' = mine \ {gid[t] : t \in {u \in Turn : At(u, "called")}}
      /\ chain' = <<>> /\ step' = [t \in Turn |-> "idle"]
  BY TurnAssumption DEF Die, Crash
<1>2. CallInv'
  BY <1>1 DEF ChatInv, CallInv, Answers, Outcome
<1>3. TurnTypeOK'
  <2>1. chain' \in Seq(Turn) /\ Len(chain') = 0
    BY <1>1
  <2>2. \A t \in Turn : step'[t] = "idle"
    BY <1>1
  <2>3. step' \in [Turn -> {"idle", "wait", "shop", "called", "aside"}]
    BY <1>1
  <2>4. /\ marker' \in 0..placed' /\ mine' \subseteq 1..placed'
        /\ \A t \in Turn : pc'[t] = "idle"
    BY <1>1 DEF ChatInv, TurnTypeOK
  <2> QED
    BY <2>1, <2>2, <2>3, <2>4 DEF TurnTypeOK
<1>4. Apart' /\ NoMarker'
  BY <1>1 DEF ChatInv, Apart, NoMarker
<1>5. Covered'
  BY <1>1 DEF ChatInv, Covered
<1> QED
  BY <1>2, <1>3, <1>4, <1>5 DEF ChatInv

\* The invariant is inductive beside the types of the guard.
LEMMA ChatStep == TypeInv /\ ChatInv /\ [AgentNext]_agent => ChatInv'
<1> SUFFICES ASSUME TypeInv, ChatInv, [AgentNext]_agent
             PROVE  ChatInv'
  OBVIOUS
<1>1. CASE MarkerLapses
  <2>1. /\ UNCHANGED <<vars, chain, step, mine>> /\ marker' = NoOrder /\ marker \notin open
    BY <1>1 DEF MarkerLapses
  <2>2. CallInv' /\ Apart' /\ NoMarker'
    BY <2>1 DEF ChatInv, CallInv, Answers, Outcome, Apart, NoMarker, vars, callerVars
  <2>3. TurnTypeOK'
    <3>1. NoOrder \in 0..placed
      BY DEF TypeInv, TypeOK, NoOrder
    <3> QED
      BY <2>1, <3>1 DEF ChatInv, TurnTypeOK, InTurn, vars, callerVars
  <2>4. Covered'
    BY <2>1 DEF ChatInv, Covered, At, vars, callerVars
  <2> QED
    BY <2>2, <2>3, <2>4 DEF ChatInv
<1>2. CASE UNCHANGED agent
  BY <1>2 DEF agent, agentVars, vars, callerVars, ChatInv, CallInv, Answers, Outcome,
              TurnTypeOK, InTurn, Apart, NoMarker, Covered, At
<1> QED
  BY <1>1, <1>2, TurnKeeps, OthersKeep, DieKeeps DEF AgentNext

\* The invariant of the conversation holds in every behaviour.
THEOREM ChatInvariant == AgentSpec => [](TypeInv /\ ChatInv)
<1>1. AgentInit => TypeInv /\ ChatInv
  BY TypeInit, ChatInit DEF AgentInit
<1>2. TypeInv /\ ChatInv /\ [AgentNext]_agent => (TypeInv /\ ChatInv)'
  BY TypeStep, ChatStep, StepImplements
<1> QED
  BY <1>1, <1>2, PTL DEF AgentSpec, agent

\* The lock: whoever is past it is at the head of the chain, whoever waits is
\* in it, and nobody twice.
THEOREM TurnTypes == AgentSpec => []TurnTypeOK
<1>1. ChatInv => TurnTypeOK
  BY DEF ChatInv
<1> QED
  BY <1>1, ChatInvariant, PTL

\* No turn orders again what its conversation has on record and marked.
THEOREM ChatOrders == AgentSpec => []ChatOrdersOnce
<1>1. TypeInv /\ ChatInv => ChatOrdersOnce
  <2> SUFFICES ASSUME TypeInv, ChatInv, NEW t \in Turn, At(t, "called"), pc[t] = "create"
               PROVE  marker = NoOrder /\ open \cap mine = {}
    BY DEF ChatOrdersOnce
  <2>1. marker = NoOrder /\ InTurn(t)
    BY DEF ChatInv, NoMarker, TurnTypeOK, At
  <2>2. gid[t] = NoOrder
    BY TurnAssumption DEF ChatInv, CallInv, Outcome
  <2>3. ASSUME NEW o \in open \cap mine PROVE FALSE
    <3>1. o # NoOrder
      BY DEF TypeInv, TypeOK, NoOrder
    <3>2. PICK u \in Turn : At(u, "called") /\ gid[u] = o
      BY <2>1, <3>1 DEF ChatInv, Covered
    <3>3. u = t
      BY <2>1, <3>2, Alone DEF ChatInv, At
    <3> QED
      BY <2>2, <3>1, <3>2, <3>3
  <2> QED
    BY <2>1, <2>3
<1> QED
  BY <1>1, ChatInvariant, PTL

\* The agent's turns and the other callers of createOrder together see one
\* guard with one owner: with it, reservations and the window hold of the
\* composition as well.
THEOREM AgentGuarded ==
    ASSUME WindowCovers
    PROVE  AgentSpec => /\ ImplementsGuard
                        /\ [](ReservationHeld /\ OneOrderPerWindow)
  BY AgentCalls, Implements, ReservationIsHeld, OneOrder, PTL
=============================================================================
