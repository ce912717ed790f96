--------------------------- MODULE MCMarketplace ----------------------------
(* Marketplace with two viewers, a host and up to four requests.            *)
EXTENDS Marketplace, TLC

CONSTANTS r1, u1, u2, host1, p1, p2, p3, p4, s1, s2, early, late, f1, f2

MCOpening  == u1 :> [bal |-> 35, frz |-> 0] @@ u2 :> [bal |-> 15, frz |-> 0]
              @@ host1 :> [bal |-> 30, frz |-> 0]
MCAgencyOf == u1 :> NoAgency @@ u2 :> NoAgency @@ host1 :> u2
MCShowOf   == s1 :> [user |-> u1, host |-> host1, tips |-> 15] @@ s2 :> [user |-> u2, host |-> host1, tips |-> 10]
MCClash    == early :> {early} @@ late :> {late}
MCVipPrice == <<10, 15>>
MCFamilyHost == f1 :> host1 @@ f2 :> u1
MCSeats    == <<2, 3>>
MCPrizes   == {0, 12, Thing}

Gift(u, to, n) == [kind |-> "gift", user |-> u, host |-> to, amount |-> n, room |-> NoRoom,
                   live |-> FALSE]
InRoom(u, to, n) == [Gift(u, to, n) EXCEPT !.room = r1]
OnAir(u, to, n) == [InRoom(u, to, n) EXCEPT !.live = TRUE]
Flush          == [kind |-> "flush"]
Join(u, to)    == [kind |-> "join", user |-> u, host |-> to, amount |-> 10]
Toy(u, n)      == [kind |-> "toy", user |-> u, host |-> host1, amount |-> n]
Ask(k, s)      == [kind |-> k, show |-> s]
Chat(u, rude)  == [kind |-> "chat", user |-> u, host |-> host1, rude |-> rude]
Reserve(k, u, s) == [kind |-> k, user |-> u, host |-> host1, slot |-> s]
End(p)         == [kind |-> "end", of |-> p]
Do(k, u)       == [kind |-> k, user |-> u]
Offer(u)       == [kind |-> "userOffer", user |-> u, amount |-> 10]
BuyVip(u, l)      == [kind |-> "vip", user |-> u, level |-> l]
Auto(u, on)    == [kind |-> "autoRenew", user |-> u, on |-> on]
Fam(k, u, f)   == [kind |-> k, user |-> u, family |-> f]
Give(u, n)     == [kind |-> "give", user |-> u, amount |-> n]
None           == [kind |-> "none"]

Run(a, b, c, d) == (p1 :> a) @@ (p2 :> b) @@ (p3 :> c) @@ (p4 :> d)

MCJobs ==
  {Run(InRoom(u1, host1, 10), Gift(host1, u1, 10), InRoom(u1, u2, 10), None),
   Run(OnAir(u1, u2, 10), Flush, Flush, None),
   Run(OnAir(u1, u2, 10), OnAir(u2, host1, 10), Flush, None),
   Run(Gift(u1, host1, 15), Join(u1, host1), Join(host1, host1), None),
   Run(Ask("submit", s2), Ask("accept", s2), Ask("reject", s2), None),
   Run(Ask("accept", s1), Ask("accept", s1), Toy(u1, 10), None),
   Run(Ask("accept", s1), Ask("reject", s1), Toy(u1, 0), None),
   Run(Chat(u1, FALSE), Chat(u1, FALSE), Chat(u1, TRUE), None),
   Run(Reserve("book", u1, early), Reserve("book", host1, early), End(p1), [kind |-> "answer"]),
   Run(Reserve("bookOffer", u1, early), Reserve("bookOffer", host1, late), Reserve("bookOffer", host1, early), None),
   Run(Offer(u1), Offer(u2), [kind |-> "answer"], None),
   Run(Do("bag", host1), Do("claim", u1), Do("claim", u1), Do("claim", u2)),
   Run(Do("spin", u1), Do("spin", u1), Do("spin", u1), None),
   Run(BuyVip(u1, 1), BuyVip(u1, 1), None, None),
   Run(BuyVip(u1, 1), BuyVip(u1, 2), Do("renew", u1), Auto(u1, FALSE)),
   Run(Do("renew", u1), Do("renew", u1), Auto(u1, FALSE), BuyVip(u1, 2)),
   Run(Fam("enter", u1, f1), Fam("enter", u2, f1), Fam("leave", u1, f1), Fam("leave", host1, f1)),
   Run(Fam("found", u1, f2), Fam("found", u1, f2), Fam("enter", u2, f2), Fam("enter", u2, f1)),
   Run(Fam("enter", u1, f1), Give(host1, 10), Give(host1, 15), Give(u1, 10)),
   Run(Do("clip", u1), Do("clip", u1), Do("clip", host1), None)}
=============================================================================
