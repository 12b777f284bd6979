----------------------------- MODULE AgentOrder -----------------------------
(***************************************************************************)
(* The AI agent's orders (placeCodOrder of backend/src/modules/            *)
(* integrations/shopify/ai-agent.service.ts) over OrderIdempotency: turns  *)
(* of one conversation about one cart take the order lock, look for the    *)
(* marker of a recent order, call createOrder as one of its callers, and   *)
(* leave the marker.  Turns about other carts reserve other fingerprints,  *)
(* but take the same lock and leave the same marker.  The lock and its     *)
(* waiters live in one process; the other callers (the agent's modal,      *)
(* other chats) need not.                                                  *)
(***************************************************************************)
EXTENDS OrderIdempotency, Sequences

CONSTANT Turn       \* the callers that are turns of the conversation

ASSUME TurnAssumption == Turn \subseteq Caller

VARIABLES
    chain,      \* orderChains: the holder of the lock, then those who wait
    step,       \* turn: idle, wait for the lock, shop, called createOrder, or
                \* aside: waits or is served with another cart
    marker,     \* ai_last_order_signature is this cart, less than 25 minutes
                \* old: the order it was left for, which the code does not store
    mine        \* ghost: orders of turns, marked or about to be, whose marker
                \* no other cart has taken since

agentVars == <<chain, step, marker, mine>>

InTurn(t) == chain # <<>> /\ Head(chain) = t

TurnTypeOK ==
    /\ chain \in Seq(Turn)
    /\ step \in [Turn -> {"idle", "wait", "shop", "called", "aside"}]
    /\ \A t \in Turn : /\ step[t] \in {"shop", "called"} => InTurn(t)
                       /\ pc[t] # "idle" => step[t] = "called"
    /\ \A i \in 1..Len(chain) : step[chain[i]] # "idle"
    /\ \A i, j \in 1..Len(chain) : chain[i] = chain[j] => i = j
    /\ marker \in 0..placed /\ mine \subseteq 1..placed

AgentInit ==
    /\ Init
    /\ chain = <<>> /\ step = [t \in Turn |-> "idle"] /\ marker = NoOrder /\ mine = {}

-----------------------------------------------------------------------------
(* withOrderLock.  A definition directly above another with the same        *)
(* parameters is a faulty variant that the mutation runs put in the place   *)
(* of the one below it.                                                     *)

At(t, from)     == step[t] = from
StepTo(t, to)   == step' = [step EXCEPT ![t] = to]

\* The lock is per conversation, whatever the cart, and a cash order is never
\* paid in advance.
Ask(t) ==
    /\ At(t, "idle") /\ ~deposit /\ (StepTo(t, "wait") \/ StepTo(t, "aside"))
    /\ chain' = Append(chain, t)
    /\ UNCHANGED <<vars, marker, mine>>

NoLock(t)   == TRUE
HasLock(t)  == InTurn(t)

\* finally: the next in the chain runs.
Hold(t)     == StepTo(t, "idle") /\ UNCHANGED chain
Leave(t)    == StepTo(t, "idle") /\ chain' = Tail(chain)

-----------------------------------------------------------------------------
(* placeCodOrderLocked.                                                     *)

\* A recent order of this cart is reported as a duplicate.
Look(t) ==
    /\ At(t, "wait") /\ HasLock(t)
    /\ IF marker # NoOrder THEN Leave(t) ELSE StepTo(t, "shop") /\ UNCHANGED chain
    /\ UNCHANGED <<vars, marker, mine>>

\* The marker or the store cannot be read: the job is retried.
LookFails(t) ==
    /\ At(t, "wait") /\ HasLock(t) /\ Leave(t)
    /\ UNCHANGED <<vars, marker, mine>>

Shop(t) ==
    /\ At(t, "shop") /\ StepTo(t, "called") /\ Call(t)
    /\ UNCHANGED <<chain, marker, mine>>

\* createOrder finds no access to the shop, before it reserves.
NoAccess(t) ==
    /\ At(t, "shop") /\ Leave(t)
    /\ UNCHANGED <<vars, marker, mine>>

Progress(t) ==
    /\ At(t, "called") /\ pc[t] # "idle" /\ (Reserve(t) \/ Create(t))
    /\ mine' = mine \cup ({gid'[t]} \ {NoOrder})
    /\ UNCHANGED <<chain, step, marker>>

Returned(t) == At(t, "called") /\ pc[t] = "idle"
Result(t)   == IF answer[t] # NoOrder THEN answer[t] ELSE gid[t]

\* createOrder has returned an order, its own or the one reserve knew.
Mark(t) ==
    /\ Returned(t) /\ Result(t) # NoOrder /\ Leave(t)
    /\ marker' = Result(t)
    /\ UNCHANGED <<vars, mine>>

\* .catch(() => undefined): the customer is told, the marker is not left.
MarkFails(t) ==
    /\ Returned(t) /\ Result(t) # NoOrder /\ Leave(t)
    /\ mine' = mine \ {gid[t]}
    /\ UNCHANGED <<vars, marker>>

Failed(t) ==
    /\ Returned(t) /\ Result(t) = NoOrder /\ Leave(t)
    /\ UNCHANGED <<vars, marker, mine>>

\* A turn about another cart: a duplicate or a failure, or an order of that cart
\* whose signature overwrites the one the conversation has room for.
Digress(t) ==
    /\ At(t, "aside") /\ HasLock(t) /\ Leave(t)
    /\ UNCHANGED <<marker, mine>> \/ (marker' = NoOrder /\ mine' = {})
    /\ UNCHANGED vars

-----------------------------------------------------------------------------
(* The other callers, the process, and time.                                *)

\* The process of the agent dies, with the lock, its turns and other callers.
Die(dead) ==
    /\ Turn \subseteq dead /\ Crash(dead)
    /\ mine' = mine \ {gid[t] : t \in {u \in Turn : At(u, "called")}}
    /\ chain' = <<>> /\ step' = [t \in Turn |-> "idle"]
    /\ UNCHANGED marker

Others ==
    /\ \/ \E c \in Caller \ Turn : Reserve(c) \/ Create(c)
       \/ \E dead \in SUBSET (Caller \ Turn) : Crash(dead)
       \/ Expire
       \/ \E o \in open : WindowEnds(o)
    /\ UNCHANGED agentVars

\* The marker is left after its order was recorded, so its 25 minutes
\* (REORDER_DUPLICATE_WINDOW_MS) end after those of the order.
MarkerLapses ==
    /\ marker # NoOrder /\ marker \notin open /\ marker' = NoOrder
    /\ UNCHANGED <<vars, chain, step, mine>>

TurnStep(t) ==
    \/ Ask(t) \/ Look(t) \/ LookFails(t) \/ Shop(t) \/ NoAccess(t)
    \/ Progress(t) \/ Mark(t) \/ MarkFails(t) \/ Failed(t) \/ Digress(t)

AgentNext ==
    /\ \/ \E t \in Turn : TurnStep(t)
       \/ \E dead \in SUBSET Caller : Die(dead)
       \/ Others
       \/ MarkerLapses
    /\ UNCHANGED deposit

AgentSpec == AgentInit /\ [][AgentNext]_<<vars, agentVars>>

-----------------------------------------------------------------------------
(* Properties.                                                             *)

\* A turn asks the shop for an order, even when reserve has failed open, only
\* while no marker is there and no order of this chat is on record whose marker
\* is kept.  A failed write of the marker, a crash before it and an order of
\* another cart, which takes the one marker over, leave the reservation alone to
\* stop it (OneOrderPerWindow).  So "a retry inside the cross-path window is
\* never treated as a legitimate reorder by this one" does not hold for a chat
\* that orders two carts.
ChatOrdersOnce ==
    \A t \in Turn : At(t, "called") /\ pc[t] = "create" =>
        marker = NoOrder /\ open \cap mine = {}
=============================================================================
