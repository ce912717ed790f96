------------------------------ MODULE Streams -------------------------------
(***************************************************************************)
(* Live streams (internal/usecase/stream.go, internal/repository/stream.go *)
(* and stream_session.go) and the sockets that signal for them             *)
(* (internal/delivery/webrtc_handlers.go, internal/webrtc/signaling.go).   *)
(* A stream is known by two ids, its own and that of its room: a path may  *)
(* hold either, and the signaling rooms and the viewer counters are named  *)
(* by the one the path holds.                                              *)
(***************************************************************************)
EXTENDS Calls, Integers

CONSTANTS Host, Viewer,
          Stream,
          OldStreams, \* some streams, each with its host and whether it is live, there from the start
          Grace,    \* how long a host may be away, and a peer not negotiate
          NoPeer

ASSUME StreamAssumption ==
  /\ Grace \in Nat /\ NoPeer \notin Proc /\ Host # {}
  /\ DOMAIN OldStreams \subseteq Stream /\ IsFiniteSet(DOMAIN OldStreams)
  /\ \A s \in DOMAIN OldStreams : OldStreams[s] \in [host : Host, live : BOOLEAN]

VARIABLES row,       \* row[s] in streams
          session,   \* session[p]: the row of viewer socket p in stream_sessions
          count,     \* count[s][w]: stream:viewer_count by the id w of s
          hostKey,   \* hostKey[s]: stream:host_connected
          room,      \* room[s][w]: the signaling room of that name
          link,      \* link[p]: the peer connection of socket p
          wasTwo     \* history: the rooms whose host has come while one was there
streamVars == <<row, session, count, hostKey, room, link, wasTwo>>

Way == {"own", "room"}
Mode == {"public", "password", "paid"}
Row == [status : {"none", "preparing", "live", "ended"}, host : Host, mode : Mode, peak : Int]
EmptyRoom == [host |-> NoPeer, viewers |-> [v \in Viewer |-> NoPeer]]

StreamTypeOK ==
  /\ row \in [Stream -> Row]
  /\ session \in [Proc -> {"none", "open", "left"}]
  /\ count \in [Stream -> [Way -> Int]]
  /\ hostKey \in [Stream -> BOOLEAN]
  /\ room \in [Stream -> [Way -> [host : Proc \cup {NoPeer},
                                  viewers : [Viewer -> Proc \cup {NoPeer}]]]]
  /\ link \in [Proc -> {"none", "new", "negotiated", "closed"}]
  /\ wasTwo \subseteq Stream

StreamInit ==
  /\ row = [s \in Stream |->
       IF s \in DOMAIN OldStreams
       THEN [status |-> IF OldStreams[s].live THEN "live" ELSE "preparing", host |-> OldStreams[s].host,
             mode |-> "public", peak |-> 0]
       ELSE [status |-> "none", host |-> CHOOSE h \in Host : TRUE, mode |-> "public", peak |-> 0]]
  /\ session = [p \in Proc |-> "none"]
  /\ count = [s \in Stream |-> [w \in Way |-> 0]]
  /\ hostKey = [s \in Stream |-> FALSE]
  /\ room = [s \in Stream |-> [w \in Way |-> EmptyRoom]]
  /\ link = [p \in Proc |-> "none"]
  /\ wasTwo = {}

CreateStreamRequest == [kind : {"createStream"}, user : Host, stream : Stream, mode : Mode]
StartStreamRequest == [kind : {"startStream"}, stream : Stream]
EndStreamRequest == [kind : {"endStream"}, stream : Stream]
SwitchRoomModeRequest == [kind : {"switchMode"}, user : Host, stream : Stream, mode : Mode]
ServeHostWS == [kind : {"hostWS"}, user : Host, stream : Stream, negotiates : BOOLEAN]
\* can: the closed rooms this viewer knows the password of, or can pay.
ServeViewerWS == [kind : {"viewerWS"}, user : Viewer, stream : Stream, way : Way,
                  can : SUBSET Mode, negotiates : BOOLEAN]
SignalWS == [kind : {"signalWS"}, user : Viewer, stream : Stream, way : Way,
             can : SUBSET Mode, negotiates : BOOLEAN]
StreamRequests == CreateStreamRequest \cup StartStreamRequest \cup EndStreamRequest
                  \cup SwitchRoomModeRequest \cup ServeHostWS \cup ServeViewerWS
                  \cup SignalWS \cup [kind : {"syncCounts"}]

Of(p) == job[p].stream

\* The row of a stream, as a use case reads it; and as the socket of a host does.
GetByID(s) == row[s]
GetStreamByID(p) == row[Of(p)]
LiveOf(h) == {s \in Stream : row[s].status = "live" /\ row[s].host = h}
Others == UNCHANGED <<session, hostKey, room, link, wasTwo>>

\* UPDATE streams: every column, as it was read.  One stream of a host is live.
Update(s, r) == row' = [row EXCEPT ![s] = r]
Allowed(s, r) == r.status = "live" => LiveOf(r.host) \ {s} = {}

\* A host that is live gets that stream back.
CreateStream(p) ==
  /\ Asked(p, "createStream")
  /\ IF LiveOf(job[p].user) # {} \/ row[Of(p)].status # "none" THEN Return(p)
     ELSE Begin(p, <<"insertStream">>, Nothing)
  /\ UNCHANGED streamVars

Create(p) ==
  /\ At(p, "insertStream")
  /\ Update(Of(p), [status |-> "preparing", host |-> job[p].user, mode |-> job[p].mode, peak |-> 0])
  /\ Continue(p)
  /\ UNCHANGED count /\ Others

\* Mutant: a stream starts from any state.
StartAnyStream(p) ==
  /\ Asked(p, "startStream")
  /\ Begin(p, <<"updateStream", "resetCount", "autoLink">>,
           [stream |-> Of(p), row |-> [row[Of(p)] EXCEPT !.status = "live"]])
  /\ UNCHANGED streamVars

\* A read of the row, and the change the call will write: StartStream.
StartStream(p) ==
  /\ Asked(p, "startStream")
  /\ LET r == GetByID(Of(p)) IN
       CASE r.status = "live" -> Begin(p, <<"resetCount", "autoLink">>, Nothing)
         [] r.status = "preparing" ->
              Begin(p, <<"updateStream", "resetCount", "autoLink">>,
                    [stream |-> Of(p), row |-> [r EXCEPT !.status = "live"]])
         [] OTHER -> Refuse(p)
  /\ UNCHANGED streamVars

SwitchRoomMode(p) ==
  /\ Asked(p, "switchMode")
  /\ IF row[Of(p)].status # "none" /\ row[Of(p)].host = job[p].user
     THEN Begin(p, <<"updateStream">>,
                [stream |-> Of(p), row |-> [GetByID(Of(p)) EXCEPT !.mode = job[p].mode]])
     ELSE Refuse(p)
  /\ UNCHANGED streamVars

Larger(a, b) == IF a > b THEN a ELSE b
AsEnded(s) == [GetByID(s) EXCEPT !.status = "ended", !.peak = Larger(@, count[s]["room"])]

EndStream(p) ==
  /\ Asked(p, "endStream")
  /\ IF row[Of(p)].status = "live"
     THEN Begin(p, <<"updateStream", "clearCount">>, [stream |-> Of(p), row |-> AsEnded(Of(p))])
     ELSE Refuse(p)
  /\ UNCHANGED streamVars

UpdateStream(p) ==
  /\ At(p, "updateStream")
  /\ IF Allowed(seen[p].stream, seen[p].row)
     THEN Update(seen[p].stream, seen[p].row) /\ Continue(p)
     ELSE Stop(p) /\ UNCHANGED row
  /\ UNCHANGED count /\ Others

SetCount(s, w, n) == count' = [count EXCEPT ![s][w] = n]

ResetCount(p) == /\ At(p, "resetCount")
                 /\ SetCount(Of(p), "room", 0) /\ Continue(p)
                 /\ UNCHANGED row /\ Others

ClearCount(p) == /\ At(p, "clearCount")
                 /\ SetCount(Of(p), "room", 0) /\ Continue(p)
                 /\ UNCHANGED row /\ Others

(***************************************************************************)
(* The socket of a host: when it closes, the stream ends unless the key    *)
(* says after the grace that the host is back.                             *)
(***************************************************************************)
HostPresent == {"hostOn", "hostPeer", "serving", "removePeer", "hostOff"}
HostsOf(s) == {q \in Kind("hostWS") : /\ Of(q) = s /\ fate[q] = "running"
                                      /\ Head(plan[q]) \in HostPresent}

OpenHostSocket(p) ==
  /\ Asked(p, "hostWS")
  /\ IF GetStreamByID(p).status # "none" /\ GetStreamByID(p).host = job[p].user
     THEN /\ Begin(p, <<"hostOn", "hostPeer", "serving">>, Nothing)
          /\ wasTwo' = IF HostsOf(Of(p)) # {} THEN wasTwo \cup {Of(p)} ELSE wasTwo
     ELSE Refuse(p) /\ UNCHANGED wasTwo
  /\ UNCHANGED <<row, session, count, hostKey, room, link>>

\* Mutant: the key of a host that comes back is not set again.
HostOnOnce(p) == /\ At(p, "hostOn")
                 /\ hostKey' = [hostKey EXCEPT ![Of(p)] = past[p] = {}]
                 /\ Continue(p)
                 /\ UNCHANGED <<row, session, count, room, link, wasTwo>>

HostOn(p) == /\ At(p, "hostOn")
             /\ hostKey' = [hostKey EXCEPT ![Of(p)] = TRUE]
             /\ Continue(p)
             /\ UNCHANGED <<row, session, count, room, link, wasTwo>>

Close(S) == [q \in Proc |-> IF q \in S THEN "closed" ELSE link[q]]

HandleHostConnection(p) ==
  /\ At(p, "hostPeer")
  /\ link' = [Close({room[Of(p)]["own"].host}) EXCEPT ![p] = "new"]
  /\ room' = [room EXCEPT ![Of(p)]["own"].host = p]
  /\ Hold(p, [since |-> now])
  /\ UNCHANGED <<row, session, count, hostKey, wasTwo>>

\* While the socket is open: an offer and its answer, or none in time.
Negotiate(p) == /\ At(p, "serving") /\ job[p].negotiates /\ link[p] = "new"
                /\ link' = [link EXCEPT ![p] = "negotiated"]
                /\ UNCHANGED <<callVars, row, session, count, hostKey, room, wasTwo>>

ExpirePeer(p) == /\ At(p, "serving") /\ link[p] = "new" /\ now >= seen[p].since + Grace
                 /\ link' = Close({p})
                 /\ UNCHANGED <<callVars, row, session, count, hostKey, room, wasTwo>>

CloseSocket(p) ==
  /\ At(p, "serving")
  /\ Go(p, <<"removePeer">> \o
           IF job[p].kind = "hostWS" THEN <<"hostOff", "grace">> ELSE <<"leave">>, [since |-> now])
  /\ UNCHANGED streamVars

\* The peer of that user, whichever socket it came by.
RemovePeer(p) ==
  /\ At(p, "removePeer")
  /\ IF job[p].kind = "hostWS"
     THEN LET h == room[Of(p)]["own"].host IN
            /\ link' = Close({h})
            /\ room' = [room EXCEPT ![Of(p)]["own"].host = NoPeer]
     ELSE LET w == job[p].way IN
            /\ link' = Close({room[Of(p)][w].viewers[job[p].user]})
            /\ room' = [room EXCEPT ![Of(p)][w].viewers[job[p].user] = NoPeer]
  /\ Continue(p)
  /\ UNCHANGED <<row, session, count, hostKey, wasTwo>>

HostOff(p) == /\ At(p, "hostOff")
              /\ hostKey' = [hostKey EXCEPT ![Of(p)] = FALSE]
              /\ Hold(p, [since |-> now])
              /\ UNCHANGED <<row, session, count, room, link, wasTwo>>

RejoinTimer(p) ==
  /\ At(p, "grace") /\ now >= seen[p].since + Grace
  /\ Go(p, IF hostKey[Of(p)] THEN <<>> ELSE <<"endGone">>, Nothing)
  /\ UNCHANGED streamVars

\* EndStream, its error ignored.
EndGone(p) ==
  /\ At(p, "endGone")
  /\ IF row[Of(p)].status = "live"
     THEN Go(p, <<"updateStream", "clearCount", "removeRoom">>,
             [stream |-> Of(p), row |-> AsEnded(Of(p))])
     ELSE Go(p, <<"removeRoom">>, Nothing)
  /\ UNCHANGED streamVars

RemoveRoom(p) ==
  /\ At(p, "removeRoom")
  /\ LET r == room[Of(p)]["own"] IN link' = Close({r.host} \cup {r.viewers[v] : v \in Viewer})
  /\ room' = [room EXCEPT ![Of(p)]["own"] = EmptyRoom]
  /\ Continue(p)
  /\ UNCHANGED <<row, session, count, hostKey, wasTwo>>

(***************************************************************************)
(* The socket of a viewer.  SignalWS joins the stream and then its room,   *)
(* ServeViewerWS the room and then the stream: a viewer who may not join   *)
(* stays in the room.  Left out: with role=host SignalWS takes any user    *)
(* for the host's peer; which peer is the host's is no matter here.        *)
(***************************************************************************)
OpenViewerSocket(p) ==
  /\ \/ Asked(p, "viewerWS") /\ Begin(p, <<"viewerPeer", "join", "serving">>, Nothing)
     \/ Asked(p, "signalWS") /\ Begin(p, <<"join", "viewerPeer", "serving">>, Nothing)
  /\ UNCHANGED streamVars

HandleViewerConnection(p) ==
  /\ At(p, "viewerPeer")
  /\ room' = [room EXCEPT ![Of(p)][job[p].way].viewers[job[p].user] = p]
  /\ link' = [link EXCEPT ![p] = "new"]
  /\ Hold(p, [since |-> now])
  /\ UNCHANGED <<row, session, count, hostKey, wasTwo>>

JoinStream(p) ==
  /\ At(p, "join")
  /\ IF row[Of(p)].status = "live" /\ row[Of(p)].mode \in job[p].can \cup {"public"}
     THEN Go(p, <<"openSession", "incrCount">> \o Tail(plan[p]), seen[p])
     ELSE Stop(p)
  /\ UNCHANGED streamVars

OpenSession(p) == /\ At(p, "openSession")
                  /\ session' = [session EXCEPT ![p] = "open"]
                  /\ Continue(p)
                  /\ UNCHANGED <<row, count, hostKey, room, link, wasTwo>>

IncrCount(p) == /\ At(p, "incrCount")
                /\ SetCount(Of(p), job[p].way, count[Of(p)][job[p].way] + 1)
                /\ Continue(p)
                /\ UNCHANGED row /\ Others

ActiveSession(p) == {q \in Kinds({"viewerWS", "signalWS"}) :
                       /\ session[q] = "open"
                       /\ job[q].user = job[p].user /\ Of(q) = Of(p)}

\* Mutant: a leave counts although the session was never opened.
LeaveUnseen(p) ==
  /\ At(p, "leave")
  /\ Go(p, IF job[p].way = "room" THEN <<"decrCount">> ELSE <<>>, Nothing)
  /\ UNCHANGED streamVars

\* Leaving looks for the stream by the id of its room alone.
LeaveStream(p) ==
  /\ At(p, "leave")
  /\ IF job[p].way = "room" /\ ActiveSession(p) # {}
     THEN \E q \in ActiveSession(p) : Go(p, <<"closeSession", "decrCount">>, [of |-> q])
     ELSE Stop(p)
  /\ UNCHANGED streamVars

CloseSession(p) == /\ At(p, "closeSession")
                   /\ session' = [session EXCEPT ![seen[p].of] = "left"]
                   /\ Continue(p)
                   /\ UNCHANGED <<row, count, hostKey, room, link, wasTwo>>

DecrCount(p) == /\ At(p, "decrCount")
                /\ SetCount(Of(p), job[p].way, count[Of(p)][job[p].way] - 1)
                /\ Continue(p)
                /\ UNCHANGED row /\ Others

(***************************************************************************)
(* Once a minute: the live rows are read, and for each in turn the counter *)
(* becomes the size of its signaling room and the row is written back.     *)
(***************************************************************************)
ListLive == {s \in Stream : row[s].status = "live"}

SyncCounts(p) ==
  /\ Asked(p, "syncCounts")
  /\ Begin(p, [i \in 1..2 * Cardinality(ListLive) |-> IF i % 2 = 1 THEN "syncCount" ELSE "syncRow"],
           [rows |-> [s \in ListLive |-> row[s]]])
  /\ UNCHANGED streamVars

GetViewerCount(s) == Cardinality({v \in Viewer : room[s]["own"].viewers[v] # NoPeer})

SyncCount(p) ==
  /\ At(p, "syncCount")
  /\ \E s \in DOMAIN seen[p].rows :
       SetCount(s, "own", GetViewerCount(s)) /\ Hold(p, [rows |-> seen[p].rows, stream |-> s])
  /\ UNCHANGED row /\ Others

SyncRow(p) ==
  /\ At(p, "syncRow")
  /\ LET s == seen[p].stream IN
       /\ row' = IF Allowed(s, seen[p].rows[s]) THEN [row EXCEPT ![s] = seen[p].rows[s]] ELSE row
       /\ Hold(p, [rows |-> [t \in DOMAIN seen[p].rows \ {s} |-> seen[p].rows[t]]])
  /\ UNCHANGED count /\ Others

StreamStep(p) ==
  \/ CreateStream(p) \/ Create(p) \/ StartStream(p) \/ SwitchRoomMode(p) \/ EndStream(p)
  \/ UpdateStream(p) \/ ResetCount(p) \/ ClearCount(p)
  \/ OpenHostSocket(p) \/ HostOn(p) \/ HandleHostConnection(p) \/ Negotiate(p) \/ ExpirePeer(p)
  \/ CloseSocket(p) \/ RemovePeer(p) \/ HostOff(p) \/ RejoinTimer(p) \/ EndGone(p) \/ RemoveRoom(p)
  \/ OpenViewerSocket(p) \/ HandleViewerConnection(p) \/ JoinStream(p) \/ OpenSession(p)
  \/ IncrCount(p) \/ LeaveStream(p) \/ CloseSession(p) \/ DecrCount(p)
  \/ SyncCounts(p) \/ SyncCount(p) \/ SyncRow(p)

\* The answers of Redis are not looked at, nor those of the autoLink.
IgnoredStream == {"resetCount", "clearCount", "hostOn", "hostOff", "incrCount", "decrCount",
                  "autoLink"}

-----------------------------------------------------------------------------
StreamWriters == Kinds({"createStream", "startStream", "endStream", "switchMode", "hostWS",
                        "syncCounts"})

(* A stream that has ended stays ended, unless a call that had read its row  *)
(* before writes it back: every writer of streams writes the whole row.      *)
EndedStaysEnded ==
  \A p \in Kind("endStream") :
    Done(p) => \/ row[Of(p)].status = "ended"
               \/ \E q \in StreamWriters : Overlap(p, q)

\* Between its statements a viewer's socket is counted in one place only.
Settled(s) == \A p \in Kinds({"viewerWS", "signalWS"}) :
                Of(p) = s /\ fate[p] = "running" => Head(plan[p]) \in {"serving", "viewerPeer", "join"}
CountedFrom(s) ==
  \A p \in Proc : job[p].kind # "none" =>
    CASE job[p].kind \in {"viewerWS", "signalWS"} -> job[p].way = "room"
      [] job[p].kind = "startStream" ->
           \A q \in Kinds({"viewerWS", "signalWS"}) : fate[q] # "new" => Before(p, q)
      [] OTHER -> job[p].kind \in {"createStream", "switchMode"}

\* No viewer has two sockets there at once: the two may leave by one session.
OneEach(s) == \A p, q \in Kinds({"viewerWS", "signalWS"}) :
                Of(p) = s /\ Of(q) = s /\ job[p].user = job[q].user => ~Overlap(p, q)

(* The counter of a live stream is the number of its open sessions, for      *)
(* viewers that come by the id of the room after the stream has started      *)
(* (the other id is never counted down, and starting again sets it to 0),    *)
(* none of them twice at once (both sockets could close one session, and     *)
(* each counts down for it).                                                 *)
CountIsSessions ==
  faults = 0 => \A s \in Stream :
    row[s].status = "live" /\ Settled(s) /\ CountedFrom(s) /\ OneEach(s)
      => count[s]["room"] = Cardinality({p \in Proc : session[p] = "open" /\ Of(p) = s})

(* The timer of a host that has left does not end the stream of one that is  *)
(* back, unless two of its sockets were there together: the older one then   *)
(* clears the key of the younger.                                            *)
TimerSparesHost ==
  [][\A p \in Kind("hostWS") :
       At(p, "grace") /\ At(p, "endGone")' /\ faults = 0 /\ Of(p) \notin wasTwo
         => \A q \in HostsOf(Of(p)) : Head(plan[q]) \in {"hostOn", "removePeer", "hostOff"}]_callVars

-----------------------------------------------------------------------------
(***************************************************************************)
(* PK battles between two hosts (internal/usecase/pk.go,                   *)
(* internal/repository/pk.go) and the gifts that score in them             *)
(* (internal/usecase/gift.go).  A battle is the call that invited to it.   *)
(* Nothing but GetPKStatus moves a battle on: it is as late as it is       *)
(* asked for.                                                              *)
(***************************************************************************)

CONSTANTS BattleTime, PunishTime,  \* how long a battle and its punishment last
          KeyLife,                 \* how long stream:active_pk lives
          NoBattle

ASSUME BattleAssumption == /\ {BattleTime, PunishTime, KeyLife} \subseteq Nat
                           /\ BattleTime + PunishTime <= KeyLife
                           /\ NoBattle \notin Proc

VARIABLES battle,    \* battle[b]: the row in pk_battles
          activeKey, \* activeKey[s]: stream:active_pk, a battle and when the key expires
          score,     \* score[b][h]: pk:battle:scores
          twice      \* history: the hosts that were in two open battles at once
battleVars == <<battle, activeKey, score, twice>>

Open == {"invite", "active", "punishment"}
BattleTypeOK ==
  /\ DOMAIN battle = Proc
  /\ \A b \in Proc : battle[b].status \in {"none", "rejected", "ended"} \cup Open
  /\ activeKey \in [Stream -> [battle : Proc \cup {NoBattle}, until : Nat]]
  /\ score \in [Proc -> [Host -> Nat]]
  /\ twice \subseteq Host

BattleInit ==
  /\ battle = [b \in Proc |-> [status |-> "none"]]
  /\ activeKey = [s \in Stream |-> [battle |-> NoBattle, until |-> 0]]
  /\ score = [b \in Proc |-> [h \in Host |-> 0]]
  /\ twice = {}

InvitePKRequest == [kind : {"invitePK"}, user : Host, target : Host]
AcceptPKRequest == [kind : {"acceptPK"}, user : Host, of : Proc]
RejectPKRequest == [kind : {"rejectPK"}, user : Host, of : Proc]
StatusRequest == [kind : {"statusPK"}, of : Proc]
GiftVote == [kind : {"vote"}, stream : Stream, user : Host, points : Nat]
BattleRequests == InvitePKRequest \cup AcceptPKRequest \cup RejectPKRequest
                  \cup StatusRequest \cup GiftVote

Fights(h, b) == battle[b].status # "none" /\ h \in {battle[b].a, battle[b].b}
OpenBattles(h) == {b \in Proc : Fights(h, b) /\ battle[b].status \in Open}

\* Of the two, only the host that invites is looked up in the open battles.
InvitePKBattle(p) ==
  /\ Asked(p, "invitePK")
  /\ LET a == job[p].user b == job[p].target IN
       IF LiveOf(a) # {} /\ LiveOf(b) # {} /\ OpenBattles(a) = {}
       THEN \E s \in LiveOf(a), t \in LiveOf(b) :
              Begin(p, <<"insertPK">>, [status |-> "invite", a |-> a, b |-> b, streamA |-> s,
                                        streamB |-> t, winner |-> NoPeer, since |-> 0])
       ELSE Refuse(p)
  /\ UNCHANGED battleVars

InsertPK(p) ==
  /\ At(p, "insertPK")
  /\ battle' = [battle EXCEPT ![p] = seen[p]]
  /\ twice' = twice \cup {h \in {seen[p].a, seen[p].b} : OpenBattles(h) # {}}
  /\ Continue(p)
  /\ UNCHANGED <<activeKey, score>>

Writes(b, r) == [battle |-> b, row |-> r]

\* A call about a battle comes when its invitation has ended; it may have failed.
AskedAbout(p, k) == Asked(p, k) /\ job[p].of \in Ended
Found(b) == battle[b].status # "none"

AcceptPKBattle(p) ==
  /\ AskedAbout(p, "acceptPK")
  /\ LET b == job[p].of r == battle[b] IN
       IF Found(b) /\ r.b = job[p].user /\ r.status = "invite"
       THEN Begin(p, <<"updatePK", "keyA", "keyB", "zeroScores">>,
                  Writes(b, [r EXCEPT !.status = "active", !.since = now]))
       ELSE Refuse(p)
  /\ UNCHANGED battleVars

\* Whatever the battle has come to.
RejectPKBattle(p) ==
  /\ AskedAbout(p, "rejectPK")
  /\ LET b == job[p].of r == battle[b] IN
       IF Found(b) /\ r.b = job[p].user
       THEN Begin(p, <<"updatePK">>, Writes(b, [r EXCEPT !.status = "rejected"]))
       ELSE Refuse(p)
  /\ UNCHANGED battleVars

Winner(b, r) == IF score[b][r.a] > score[b][r.b] THEN r.a
                ELSE IF score[b][r.b] > score[b][r.a] THEN r.b ELSE NoPeer

GetPKStatus(p) ==
  /\ AskedAbout(p, "statusPK")
  /\ LET b == job[p].of r == battle[b] IN
       CASE ~Found(b) -> Refuse(p)
         [] r.status = "active" /\ now >= r.since + BattleTime ->
              Begin(p, <<"updatePK">>, Writes(b, [r EXCEPT !.status = "punishment", !.since = now,
                                                           !.winner = Winner(b, r)]))
         [] r.status = "punishment" /\ now >= r.since + PunishTime ->
              Begin(p, <<"updatePK", "dropA", "dropB">>, Writes(b, [r EXCEPT !.status = "ended"]))
         [] OTHER -> Return(p)
  /\ UNCHANGED battleVars

UpdatePK(p) ==
  /\ At(p, "updatePK")
  /\ LET b == seen[p].battle r == seen[p].row IN
       /\ battle' = [battle EXCEPT ![b] = r]
       /\ twice' = twice \cup {h \in {r.a, r.b} : r.status \in Open /\ OpenBattles(h) \ {b} # {}}
  /\ Continue(p)
  /\ UNCHANGED <<activeKey, score>>

\* Mutant: both keys are those of one stream.
SameSide(p) == seen[p].row.streamA

Side(p) == IF Head(plan[p]) \in {"keyA", "dropA"} THEN seen[p].row.streamA ELSE seen[p].row.streamB

SetActiveKey(p) ==
  /\ At(p, "keyA") \/ At(p, "keyB")
  /\ activeKey' = [activeKey EXCEPT ![Side(p)] = [battle |-> seen[p].battle, until |-> now + KeyLife]]
  /\ Continue(p)
  /\ UNCHANGED <<battle, score, twice>>

\* The key of the stream, whichever battle it names.
DelActiveKey(p) ==
  /\ At(p, "dropA") \/ At(p, "dropB")
  /\ activeKey' = [activeKey EXCEPT ![Side(p)] = [battle |-> NoBattle, until |-> 0]]
  /\ Continue(p)
  /\ UNCHANGED <<battle, score, twice>>

ZeroScores(p) ==
  /\ At(p, "zeroScores")
  /\ score' = [score EXCEPT ![seen[p].battle][seen[p].row.a] = 0,
                            ![seen[p].battle][seen[p].row.b] = 0]
  /\ Continue(p)
  /\ UNCHANGED <<battle, activeKey, twice>>

ActiveIn(s) == IF now < activeKey[s].until THEN activeKey[s].battle ELSE NoBattle

\* A gift sent in a stream scores for the battle its key names.
SendGift(p) ==
  /\ Asked(p, "vote")
  /\ IF ActiveIn(job[p].stream) # NoBattle
     THEN Begin(p, <<"addPoints">>, [battle |-> ActiveIn(job[p].stream)])
     ELSE Return(p)
  /\ UNCHANGED battleVars

\* A critical vote counts twice.
AddPoints(p) ==
  /\ At(p, "addPoints")
  /\ \E times \in {1, 2} :
       score' = [score EXCEPT ![seen[p].battle][job[p].user] = @ + times * job[p].points]
  /\ Continue(p)
  /\ UNCHANGED <<battle, activeKey, twice>>

BattleStep(p) ==
  /\ \/ InvitePKBattle(p) \/ InsertPK(p) \/ AcceptPKBattle(p) \/ RejectPKBattle(p)
     \/ GetPKStatus(p) \/ UpdatePK(p) \/ SetActiveKey(p) \/ DelActiveKey(p)
     \/ ZeroScores(p) \/ SendGift(p) \/ AddPoints(p)
  /\ UNCHANGED streamVars

IgnoredBattle == {"keyA", "keyB", "dropA", "dropB", "zeroScores", "addPoints"}

-----------------------------------------------------------------------------
(* Between two hosts that are in no other battle, gifts score in an active   *)
(* battle on both sides, from the time it is accepted until its keys expire: *)
(* unless another was accepted at the same time, and the later of the two is *)
(* slow, or another was just being ended, which takes whatever keys there    *)
(* are.                                                                      *)
ActiveBattleScores ==
  faults = 0 => \A p \in Kind("acceptPK") : LET b == job[p].of r == battle[b] IN
    (/\ Done(p) /\ r.status = "active" /\ now < r.since + KeyLife
     /\ {r.a, r.b} \cap twice = {}
     /\ \A q \in Kind("acceptPK") : ~Overlap(p, q)
     /\ \A q \in Kind("statusPK") : job[q].of # b => ~Overlap(p, q))
    => ActiveIn(r.streamA) = b /\ ActiveIn(r.streamB) = b
=============================================================================
