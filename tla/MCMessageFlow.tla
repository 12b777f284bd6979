--------------------------- MODULE MCMessageFlow ---------------------------
(* Small instances of MessageFlow: the webhook bodies Meta may deliver.     *)
EXTENDS MessageFlow, TLC

CONSTANTS p1, p2, m1, m2, x1, y1, s1, s2

MsgIn(id)          == [kind |-> "message", id |-> id]
StatusOf(id, to)   == [kind |-> "status", id |-> id, send |-> 1, to |-> to]

\* m1 and both outbound messages belong to p's conversation, m2 to q's.
ChatOf == (m1 :> p1) @@ (m2 :> p2) @@ (x1 :> p1) @@ (y1 :> p1)

\* Two events of one participant, single ones, and two that mix participants.
Bodies == {<<MsgIn(m1), StatusOf(x1, "delivered")>>,
           <<StatusOf(y1, "delivered")>>, <<StatusOf(y1, "read")>>,
           <<MsgIn(m2), StatusOf(y1, "delivered")>>}
SlotSymmetry == Permutations(Slot)
=============================================================================
