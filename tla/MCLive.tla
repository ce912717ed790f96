------------------------------- MODULE MCLive -------------------------------
(* Live with two hosts and two viewers, and up to four calls.               *)
EXTENDS Live, TLC

CONSTANTS h1, h2, g1, g2, v1, v2, s1, s2, t1, t2, k1, k2, r1, r2, p1, p2, p3, p4

MCOldStreams == t1 :> [host |-> h1, live |-> TRUE] @@ t2 :> [host |-> h2, live |-> TRUE]
                @@ s2 :> [host |-> g2, live |-> FALSE]
MCOldSchedules == k2 :> [host |-> g2, rule |-> r2]

MCStartsOf == r1 :> (1 :> 2) @@ r2 :> (1 :> 1 @@ 2 :> 2)

New(u, s, m)     == [kind |-> "createStream", user |-> u, stream |-> s, mode |-> m]
On(k, s)         == [kind |-> k, stream |-> s]
Mode1(u, s, m)   == [kind |-> "switchMode", user |-> u, stream |-> s, mode |-> m]
HostAt(u, s, n)  == [kind |-> "hostWS", user |-> u, stream |-> s, negotiates |-> n]
ViewerAt(k, u, s, w, c) == [kind |-> k, user |-> u, stream |-> s, way |-> w, can |-> c,
                            negotiates |-> FALSE]
Just(k)          == [kind |-> k]
None             == Just("none")
Invite(a, b)     == [kind |-> "invitePK", user |-> a, target |-> b]
Reply(k, u, p)   == [kind |-> k, user |-> u, of |-> p]
Status(p)        == [kind |-> "statusPK", of |-> p]
Vote(s, u)       == [kind |-> "vote", stream |-> s, user |-> u, points |-> 1]
Sched(k, u, s, r) == [kind |-> k, user |-> u, schedule |-> s, rule |-> r]
Cancel(u, s)     == [kind |-> "cancelSchedule", user |-> u, schedule |-> s]
CancelOne(u, s, d) == [kind |-> "cancelOccurrence", user |-> u, schedule |-> s, date |-> d]
Sub(k, u, s)     == [kind |-> k, user |-> u, schedule |-> s]
Wait(u, s, d, n) == [kind |-> "waitWS", user |-> u, schedule |-> s, date |-> d, says |-> n]
Talk(u, says)    == [kind |-> "chatWS", user |-> u, says |-> says, leaves |-> TRUE]
Stay(u, says)    == [kind |-> "chatWS", user |-> u, says |-> says, leaves |-> FALSE]
Chat1            == [is |-> "chat"]
Other            == [is |-> "other"]
Pinned           == [is |-> "pin"]
Mute1(u, n)      == [is |-> "mute", target |-> u, lasts |-> n]
Kick1(u)         == [is |-> "kick", target |-> u]
Set(n, g)        == [is |-> "settings", slow |-> n, gated |-> g]

Run(a, b, c, d) == (p1 :> a) @@ (p2 :> b) @@ (p3 :> c) @@ (p4 :> d)

MCJobs ==
  {Run(New(g1, s1, "public"), On("startStream", s1), On("endStream", s1), Just("syncCounts")),
   Run(New(h1, s1, "public"), On("startStream", t1), On("startStream", s2), Mode1(g2, s2, "paid")),
   Run(On("startStream", s2), New(g2, s1, "paid"), On("startStream", s1), On("endStream", s2)),
   Run(On("endStream", t1), On("startStream", t1), Mode1(h1, t1, "paid"), None),
   Run(HostAt(h1, t1, TRUE), HostAt(h1, t1, FALSE), None, None),
   Run(HostAt(h1, t1, FALSE), HostAt(g1, t1, FALSE), On("endStream", t1), None),
   Run(HostAt(h1, t1, FALSE), ViewerAt("viewerWS", v1, t1, "own", {}), Just("syncCounts"), None),
   Run(ViewerAt("viewerWS", v1, t1, "room", {}), ViewerAt("signalWS", v2, t1, "room", {}),
       Mode1(h1, t1, "paid"), None),
   Run(ViewerAt("viewerWS", v1, t1, "room", {}), ViewerAt("signalWS", v1, t1, "own", {"paid"}),
       Mode1(h1, t1, "paid"), None),
   Run(ViewerAt("viewerWS", v1, t1, "room", {}), ViewerAt("signalWS", v1, t1, "room", {}), None, None),
   Run(ViewerAt("signalWS", v1, s2, "room", {}), On("startStream", s2), On("endStream", s2), None),
   Run(Invite(h1, h2), Reply("acceptPK", h2, p1), Vote(t1, h1), Status(p1)),
   Run(Invite(h1, h2), Reply("acceptPK", h2, p1), Reply("rejectPK", h2, p1), Vote(t2, h2)),
   Run(Invite(h1, h2), Reply("acceptPK", h2, p1), Status(p1), Status(p1)),
   Run(Invite(h1, h2), Invite(h2, h1), Reply("acceptPK", h2, p1), Reply("acceptPK", h1, p2)),
   Run(Sched("createSchedule", g1, k1, r1), Sched("updateSchedule", g1, k1, r2), Cancel(g1, k1), None),
   Run(Sched("createSchedule", g2, k1, r1), CancelOne(g2, k2, 1), Just("refill"), None),
   Run(CancelOne(g2, k2, 2), Just("remind"), Just("refill"), None),
   Run(Cancel(g2, k2), Sched("updateSchedule", g2, k2, r1), Just("refill"), None),
   Run(Cancel(g2, k2), On("startStream", s2), Just("refill"), None),
   Run(Sub("subscribe", v1, k2), Sub("unsubscribe", v1, k2), Just("remind"), None),
   Run(Sub("subscribe", v1, k2), Just("remind"), CancelOne(g2, k2, 2), None),
   Run(Sub("subscribe", v1, k2), Sub("unsubscribe", v1, k2), On("startStream", s2), None),
   Run(Wait(v1, k2, 2, 1), Wait(v2, k2, 2, 0), None, None),
   Run(Wait(v1, k2, 1, 2), Wait(v1, k2, 1, 0), None, None),
   Run(Wait(v1, k2, 1, 0), Just("remind"), None, None),
   Run(Talk(v1, <<Chat1>>), Stay(v2, <<>>), None, None),
   Run(Stay(v1, <<Chat1>>), Stay(h1, <<Mute1(v1, 1)>>), None, None),
   Run(Stay(h1, <<Mute1(h1, 1), Pinned, Chat1>>), Just("redisDown"), None, None),
   Run(Stay(v1, <<Chat1>>), Stay(h1, <<Kick1(v1)>>), None, None),
   Run(Stay(v1, <<Chat1>>), Stay(h1, <<Set(0, TRUE)>>), None, None),
   Run(Stay(v1, <<Chat1, Other>>), Stay(h1, <<Mute1(v1, 2), Mute1(v1, 1)>>), None, None),
   Run(Stay(v1, <<Other>>), Stay(h1, <<Mute1(v1, 0), Set(2, TRUE)>>), None, None),
   Run(Stay(h1, <<Kick1(h1)>>), Stay(v1, <<Chat1>>), None, None),
   Run(Talk(v1, <<Chat1, Chat1>>), Just("broadcast"), None, None),
   Run(Talk(v1, <<>>), Just("redisDown"), Just("broadcast"), Just("redisBack")),
   Run(Talk(v1, <<Set(0, FALSE)>>), Just("broadcast"), Just("broadcast"), None),
   Run(Talk(v1, <<>>), Talk(v2, <<>>), Just("stopHub"), None),
   Run(Stay(v1, <<>>), Stay(v2, <<>>), Just("redisDown"), Just("broadcast"))}
=============================================================================
