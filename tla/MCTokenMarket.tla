--------------------------- MODULE MCTokenMarket ---------------------------
(* TokenMarket with two users and four requests.                            *)
EXTENDS TokenMarket, TLC

CONSTANTS u1, u2, p1, p2, p3, p4

MCOpening == [u \in User |-> [bal |-> IF u = u1 THEN 90 ELSE 60, frz |-> 0]]

Buy(u, n)          == [kind |-> "buy", user |-> u, amount |-> n]
Wager(u, n, s, c)  == [kind |-> "bet", user |-> u, amount |-> n, side |-> s, cur |-> c]
Resolve(s)         == [kind |-> "resolve", side |-> s]

Run(a, b, c, d) == (p1 :> a) @@ (p2 :> b) @@ (p3 :> c) @@ (p4 :> d)

\* Purchases up to the limit; two bets on each side and two resolutions;
\* purchases, bets of tokens and a resolution; bets of both currencies.
MCJobs ==
  {Run(Buy(u1, 2), Buy(u2, 2), Buy(u1, 1), Buy(u2, 1)),
   Run(Wager(u1, 40, "yes", "wallet"), Wager(u2, 20, "no", "wallet"), Resolve("yes"), Resolve("no")),
   Run(Wager(u1, 40, "yes", "wallet"), Wager(u2, 70, "no", "wallet"), Resolve("yes"), Resolve("yes")),
   Run(Buy(u1, 3), Wager(u1, 2, "yes", "token"), Wager(u1, 20, "no", "wallet"), Resolve("yes")),
   Run(Buy(u1, 2), Wager(u1, 1, "yes", "token"), Wager(u2, 1, "no", "token"), Resolve("no")),
   Run(Buy(u1, 2), Wager(u1, 2, "yes", "token"), Wager(u1, 20, "yes", "wallet"), Resolve("yes"))}
=============================================================================
