----------------------------- MODULE MCPayment -----------------------------
(* Payment with one user: deposits of one order, withdrawals of two.        *)
EXTENDS Payment, TLC

CONSTANTS u1, o1, x1, x2

MCOwner   == [i \in Order \cup Payout |-> u1]
MCAmount  == [i \in Order \cup Payout |-> IF i = x2 THEN 1 ELSE 2]
MCOpening == [u \in User |-> [bal |-> 5, frz |-> 0]]

\* The requests of a behaviour are all about the deposit, or about the
\* withdrawals, or two about each.
Deposits == {p \in Session : item[p] \in Order}
MCInit == Init /\ (Order # {} => Cardinality(Deposits) \in {0, 2, Cardinality(Session)})
MCSpec == MCInit /\ [][Next]_vars

Symmetry == Permutations(Session)
=============================================================================
