----------------------------- MODULE MCAccounts -----------------------------
(* Accounts with two members, one user to register and up to four calls.    *)
EXTENDS Accounts, TLC

CONSTANTS u1, u2, joe, anna, budi, cici, p1, p2, p3, p4, strict, harsh, mild, i1, m1, m2, m3, m4,
          c1, c2, c3, g1, g2, l1, l2, s1, v1, x1, x2, x3, h1, heart, wow, frown, open, closed, sol, btc, usdt, bep, trc

MCNameOf == u1 :> anna @@ u2 :> budi
MCRule == strict :> [action |-> "ban_temp", lasts |-> 1, strikes |-> 2, next |-> harsh]
          @@ harsh :> [action |-> "ban_perm", lasts |-> 0, strikes |-> 3, next |-> NoRule]
          @@ mild :> [action |-> "mute", lasts |-> 1, strikes |-> 3, next |-> NoRule]
MCOldMethods == u1 :> <<m1, m2>> @@ u2 :> <<m3>>

MCWhitelist == {<<u1, sol>>, <<u1, usdt>>, <<u2, sol>>}
MCOldChats == c1 :> [initiator |-> u1, recipient |-> u2] @@ c2 :> NoRow @@ c3 :> NoRow

User2(k, u)    == [kind |-> k, user |-> u]
Register1(n)   == [kind |-> "register", user |-> joe, name |-> n]
Rename(u, n)   == [kind |-> "profile", user |-> u, name |-> n]
Kyc(u, f, a)   == [kind |-> "submitKYC", user |-> u, flagged |-> f, allowed |-> a]
Report(u, s, l) == [kind |-> "report", user |-> u, severe |-> s, stream |-> l]
LogIn(u, ok)   == [kind |-> "login", user |-> u, password |-> ok]
Of(k, p)       == [kind |-> k, of |-> p]
Get(p, b, n)   == [kind |-> "request", of |-> p, bearer |-> b, ahead |-> n]
LogOut(p, b)   == [kind |-> "logout", of |-> p, bearer |-> b, ahead |-> 0]
Say(u, r, s, t) == [kind |-> "chat", user |-> u, rule |-> r, severity |-> s, spam |-> t]
Override(u, a) == [kind |-> "override", user |-> u, action |-> a]
Img(k)         == [kind |-> k, image |-> i1]
Just(k)        == [kind |-> k]
NewMethod(u, i, is) == [kind |-> "createMethod", user |-> u, method |-> i, primary |-> is]
Change(u, i, is) == [kind |-> "updateMethod", user |-> u, method |-> i, primary |-> is]
Choose1(k, u, i) == [kind |-> k, user |-> u, method |-> i]
Host(k, a, u)  == [kind |-> k, owner |-> a, user |-> u]
Found(a)       == [kind |-> "createAgency", owner |-> a]
Begin1(u, v, c) == [kind |-> "startChat", user |-> u, other |-> v, conv |-> c]
Send(u, c, g, d) == [kind |-> "send", user |-> u, conv |-> c, message |-> g, mode |-> d]
Chat(k, u, c)  == [kind |-> k, user |-> u, conv |-> c]
React(u, g, e) == [kind |-> "react", user |-> u, message |-> g, emoji |-> e]
See(u, g)      == [kind |-> "view", user |-> u, message |-> g]
To(k, u, v)    == [kind |-> k, user |-> u, other |-> v]
Hush(u, v, n)  == [kind |-> "muteUser", user |-> u, other |-> v, lasts |-> n]
Open1(r)       == [kind |-> "getRoom", stream |-> s1, room |-> r]
In(k, u, r)    == [kind |-> k, user |-> u, room |-> r]
Spoken(k, u)   == [kind |-> k, user |-> u, room |-> l1, message |-> g1]
Upload         == [kind |-> "upload", video |-> x1, visibility |-> open]
Watch(x)       == [kind |-> "watch", video |-> x]
Publish(u, x, is) == [kind |-> "publish", user |-> u, video |-> x, visibility |-> is]
Vod(k, u, x)   == [kind |-> k, user |-> u, video |-> x]
Segment(x)     == [kind |-> "segment", of |-> p1, video |-> x]
On1(k, u)      == [kind |-> k, user |-> u, short |-> h1]
On2(k, u)      == [kind |-> k, user |-> u, comment |-> c1]
On3(k, u)      == [kind |-> k, user |-> u, content |-> c2]
On4(k, u, c)   == [kind |-> k, user |-> u, chain |-> c]
None           == [kind |-> "none"]

Run(a, b, c, d) == (p1 :> a) @@ (p2 :> b) @@ (p3 :> c) @@ (p4 :> d)

MCAccountJobs ==
  {Run(Register1(anna), Register1(anna), Rename(u1, budi), None),
   Run(Rename(u1, cici), User2("getProfile", u1), User2("deleteAccount", u1), None),
   Run(Kyc(u1, FALSE, TRUE), Rename(u1, cici), User2("getProfile", u1), User2("verify", u1)),
   Run(Rename(u1, cici), User2("getProfile", u1), User2("banPermanent", u1), None),
   Run(Rename(u1, anna), User2("verify", u1), User2("banPermanent", u1), User2("submitKYC", u1) @@
         [flagged |-> FALSE, allowed |-> TRUE]),
   Run(Kyc(u1, FALSE, TRUE), User2("verify", u1), User2("reject", u1), Kyc(u1, TRUE, TRUE)),
   Run(Kyc(u1, FALSE, TRUE), User2("verify", u1), User2("banUser", u1), Kyc(u1, TRUE, TRUE)),
   Run(Kyc(u1, FALSE, TRUE), User2("verify", u1), User2("banPermanent", u1), Kyc(u1, TRUE, FALSE)),
   Run(User2("goLive", u1), User2("banUser", u1), User2("unbanUser", u1), User2("goLive", u1)),
   Run(User2("goLive", u1), Report(u1, TRUE, TRUE), User2("terminate", u1), User2("goLive", u1)),
   Run(User2("goLive", u1), Report(u1, TRUE, FALSE), User2("submitAgency", u1), User2("submitAgency", u1)),
   Run(LogIn(u1, TRUE), Of("refresh", p1), Of("refresh", p1), LogOut(p1, "access")),
   Run(LogIn(u1, TRUE), LogOut(p1, "access"), Get(p1, "access", 0), Get(p1, "access", 1)),
   Run(LogIn(u1, TRUE), LogOut(p1, "access"), Of("refresh", p1), Get(p1, "refresh", 0)),
   Run(LogIn(u1, TRUE), LogOut(p1, "refresh"), Get(p1, "refresh", 0), Get(p1, "access", 1)),
   Run(LogIn(u1, TRUE), Get(p1, "access", 0), Get(p1, "refresh", 0), User2("banUser", u1)),
   Run(LogIn(u2, TRUE), Get(p1, "access", 0), Get(p1, "access", 0), Get(p1, "access", 0)),
   Run(LogIn(u2, TRUE), LogIn(u2, FALSE), Of("refresh", p1), Get(p3, "access", 0)),
   Run(Say(u1, strict, 0, "none"), Override(u1, "ban_perm"), Just("syncStates"), None),
   Run(Say(u1, mild, 0, "none"), Override(u1, "ban_perm"), Just("syncStates"), None),
   Run(Say(u1, strict, 0, "none"), Say(u1, strict, 0, "none"), None, None),
   Run(Say(u1, strict, 0, "none"), Say(u1, NoRule, 3, "none"), None, None),
   Run(Override(u1, "ban_perm"), Just("syncStates"), Override(u1, "unban"), None),
   Run(Override(u1, "mute"), Just("syncStates"), Just("syncStates"), Of("appeal", p1)),
   Run(Say(u2, strict, 0, "none"), Override(u1, "mute"), Just("syncStates"), None),
   Run(Say(u1, NoRule, 2, "none"), Override(u1, "unmute"), Of("appeal", p1), None),
   Run(Say(u1, NoRule, 0, "mentions"), Override(u1, "unmute"), None, None),
   Run(Img("enqueue"), Just("scanNext"), Img("approveImage"), Img("rejectImage")),
   Run(NewMethod(u1, m3, TRUE), Change(u1, m2, "keep"),
       Choose1("setPrimary", u1, m2), Choose1("setPrimary", u2, m3)),
   Run(NewMethod(u1, m3, FALSE), NewMethod(u1, m4, FALSE), None, None),
   Run(NewMethod(u2, m1, FALSE), NewMethod(u2, m2, TRUE), Change(u2, m3, "no"), None),
   Run(Change(u1, m2, "yes"), Choose1("deleteMethod", u1, m2), Choose1("setPrimary", u1, m1),
       NewMethod(u2, m1, TRUE)),
   Run(User2("createAddress", u1), User2("createAddress", u1), User2("createAddress", u2),
       Of("deleteAddress", p1) @@ [user |-> u1]),
   Run(User2("apply", u1), User2("apply", u1), Of("approveHost", p1), Of("rejectHost", p1)),
   Run(Found(u2), Found(u2), Host("invite", u2, joe), Host("accept", u2, joe)),
   Run(Found(u2), Host("accept", u2, joe), Host("removeHost", u2, joe), Host("invite", u2, joe)),
   Run(Found(u1), Found(u2), Host("accept", u1, joe), Host("accept", u2, joe)),
   Run(On4("depositAddress", u1, sol), On4("depositAddress", u2, sol), None, None),
   Run(On4("depositAddress", u1, usdt), On4("depositAddress", u2, bep), None, None),
   Run(On4("depositAddress", u1, sol), On4("depositAddress", u1, btc),
       On4("depositAddress", u1, trc), None),
   Run(On4("cryptoWithdrawal", u1, sol), On4("cryptoWithdrawal", u1, usdt),
       Just("trackConfirmations"), Just("trackConfirmations")),
   Run(On4("cryptoWithdrawal", u2, sol), On4("cryptoWithdrawal", u1, sol),
       On4("cryptoWithdrawal", u2, usdt), Just("trackConfirmations"))}

MCContentJobs ==
  {Run(Begin1(u1, joe, c2), Begin1(joe, u1, c3), To("block", joe, u1), Send(u1, c2, g1, "none")),
   Run(Send(u1, c1, g1, "timed"), See(u2, g1), See(u2, g1), Just("expireMessages")),
   Run(Send(u1, c1, g1, "view_once"), See(u2, g1), Just("expireMessages"), Chat("markRead", u2, c1)),
   Run(Send(u1, c1, g1, "none"), Send(u1, c1, g2, "none"), Chat("markRead", u2, c1), None),
   Run(Hush(u2, u1, 1), Send(u1, c1, g1, "none"), Chat("markRead", u2, c1), To("unmute", u2, u1)),
   Run(Send(u1, c1, g1, "none"), React(u2, g1, heart), React(u2, g1, wow), React(u2, g1, heart)),
   Run(React(u2, g1, frown), Chat("pin", u1, c1), User2("privacy", u1), User2("e2eeKey", u2)),
   Run(To("block", u1, u2), Hush(u2, u1, 0), Send(u2, c1, g1, "none"), Chat("screenshot", u2, c1)),
   Run(Open1(l1), Open1(l2), In("joinRoom", u1, l1), Spoken("speak", u1)),
   Run(Open1(l1), In("joinRoom", u1, l1), In("leaveRoom", u1, l1), Spoken("speak", u1)),
   Run(Open1(l1), In("joinRoom", u1, l1), Spoken("speak", u1), Spoken("deleteSpoken", u2)),
   Run(In("createVoice", u2, v1), In("joinVoice", u1, v1), In("requestStage", u1, v1), In("endVoice", u2, v1)),
   Run(In("createVoice", u2, v1), In("requestStage", u2, v1), In("joinVoice", u2, v1), In("endVoice", u1, v1)),
   Run(In("createVoice", u2, v1), In("joinVoice", u1, v1), In("leaveVoice", u2, v1), In("requestStage", u1, v1)),
   Run(Upload, Of("transcode", p1), Publish(u2, x1, closed), Watch(x1)),
   Run(Upload, Of("transcode", p1), Vod("removeVideo", u2, x1), Watch(x1)),
   Run(Watch(x2), Publish(u2, x2, closed), Publish(u2, x2, open), Watch(x2)),
   Run(Watch(x2), Vod("removeVideo", u2, x2), Publish(u1, x2, closed), Watch(x2)),
   Run(Vod("playToken", u1, x2), Segment(x2), Segment(x3), None),
   Run(Vod("playToken", u1, x2), Segment(x2), Just("cleanVideos"), Segment(x2)),
   Run(On1("uploadShort", u2), On1("likeShort", u1), On1("unlikeShort", u1), On1("likeShort", u1)),
   Run(On1("uploadShort", u2), On1("likeShort", u1), On1("likeShort", u2), On1("unlikeShort", u2)),
   Run(On1("uploadShort", u2), On1("commentShort", u1), On1("shareShort", u1), On1("deleteShort", u2)),
   Run(On1("uploadShort", u2), On1("viewShort", u1), On1("commentShort", u2), On1("deleteShort", u1)),
   Run(On2("comment", u1), On2("editComment", u1), On2("deleteComment", u2), On2("likeComment", u2)),
   Run(On2("comment", u1), On2("likeComment", u2), On2("unlikeComment", u2), On2("likeComment", u2)),
   Run(On3("like", u1), On3("like", u1), On3("unlike", u1), On3("countLikes", u1)),
   Run(On3("like", u1), On3("like", u2), On3("countLikes", u1), On3("countLikes", u2))}

MCJobs == MCAccountJobs \cup MCContentJobs
=============================================================================
