---------------------------- MODULE MCWithdrawal ----------------------------
(* Withdrawal with a creator, her agency's owner and up to three payouts.   *)
EXTENDS Withdrawal

CONSTANTS creator, agent, w1, w2, w3, p1, p2, p3

MCUser    == {creator, agent}
MCOwner   == [w \in Payout |-> creator]
MCGross   == [w \in Payout |-> IF w = w1 THEN 2 ELSE IF w = w2 THEN 4 ELSE 3]
MCFee     == [w \in Payout |-> IF w = w1 THEN 1 ELSE 0]
MCOpening == [u \in User |-> [bal |-> IF u = creator THEN 8 ELSE 0, frz |-> 0]]
MCPoor    == [u \in User |-> [bal |-> IF u = creator THEN 5 ELSE 0, frz |-> 0]]

\* What three requests may be about: one payout, or three for the daily
\* limits.  Only the one payout may be held.
Cases  == {<<w1, w1, w1>>, <<w2, w2, w2>>, <<w1, w2, w3>>}
MCInit == /\ Init
          /\ \E c \in Cases : \A p \in Session : item[p] = c[IF p = p1 THEN 1 ELSE IF p = p2 THEN 2 ELSE 3]
          /\ held = {} \/ {item[p] : p \in Session} = held
MCSpec == MCInit /\ [][Next]_vars /\ \A p \in Session : WF_vars(Advance(p))
=============================================================================
