-------------------------------- MODULE Hub ---------------------------------
(***************************************************************************)
(* The chat of one room: the hub (internal/websocket/hub.go), the sockets  *)
(* that talk to it (internal/websocket/client.go) and the broker that      *)
(* carries the messages back to it (pkg/broker/broker.go).  One goroutine, *)
(* Run, takes the sockets that come and go, from two queues, and the       *)
(* messages, from those that offer one.  A message is known by its number  *)
(* in the order of publication.  The hub goes on after a statement that    *)
(* fails, as if a key were not there or had been set; that the news of the *)
(* hub itself fails to be published, that a command has a payload of       *)
(* another form, and the chat moderation, which nothing connects to the    *)
(* hub, are left out.                                                      *)
(***************************************************************************)
EXTENDS Calls

CONSTANTS Chatter,         \* the users; of whom one is
          ChatHost,        \* the host of the room, and some are
          Senior,          \* above its level gate and its slow mode
          StreamSlow,      \* slow mode of the room in streams
          ChatRate,        \* token bucket: its size, and what a tick adds to it
          KickLife,
          NoSocket

ASSUME HubAssumption == /\ ChatHost \in Chatter /\ Senior \subseteq Chatter
                        /\ "hub" \notin Chatter
                        /\ {StreamSlow, ChatRate, KickLife} \subseteq Nat
                        /\ NoSocket \notin Proc

VARIABLES registerQ, unregisterQ, \* the queues of the hub, of sockets
          member,      \* the sockets in its maps, clients and rooms[room]
          open,        \* rooms has the room, with or without sockets
          shut,        \* the sockets whose channel is closed
          heard,       \* history: heard[c], the last message sent to c
          settings,    \* the cached settings of the room, or none
          redisUp,
          subs,        \* the subscriptions of the hub to the room, each with what it has to handle
          handlers,    \* the handlers of a message that are under way
          published,   \* how many messages were published, by whom the last, and what it is
          key,         \* the keys in Redis: when mute, kick and slow mode of a user end; when he spoke
          bucket,      \* ratelimit:ws of a user
          crashed,     \* a goroutine has panicked, the process is gone
          ledTo,       \* history: what may have led to it or to a socket left behind
          silent       \* history: the end of the last mute, and kick, of a user
hubVars == <<registerQ, unregisterQ, member, open, shut, heard, settings, redisUp, subs,
             handlers, published, key, bucket, crashed, ledTo, silent>>

\* A mute that lasts 0 is one without end.
NoSettings == [host |-> FALSE, slow |-> 0, gated |-> FALSE, cached |-> FALSE]
Chat == [is : {"chat", "other"}]
Command == [is : {"mute"}, target : Chatter, lasts : Nat]
           \cup [is : {"kick"}, target : Chatter] \cup [is : {"pin"}]
           \cup [is : {"settings"}, slow : Nat, gated : BOOLEAN]
ServeWS == [kind : {"chatWS"}, user : Chatter, says : Seq(Chat \cup Command), leaves : BOOLEAN]
ChatRequests == ServeWS \cup [kind : {"stopHub", "redisDown", "redisBack", "broadcast"}]

HubTypeOK ==
  /\ registerQ \in Seq(Proc) /\ unregisterQ \in Seq(Proc)
  /\ member \subseteq Proc /\ shut \subseteq Proc
  /\ heard \in [Proc -> Nat]
  /\ settings \in [host : BOOLEAN, slow : Nat, gated : BOOLEAN, cached : BOOLEAN]
  /\ open \in BOOLEAN /\ redisUp \in BOOLEAN /\ crashed \in BOOLEAN
  /\ subs \in Seq([redis : BOOLEAN, queue : Seq(Nat)])
  /\ handlers \subseteq [sub : Nat, message : Nat, at : {"ready", "sending", "full", "shut"},
                         todo : SUBSET Proc, socket : Proc \cup {NoSocket}]
  /\ published \in [n : Nat, from : Chatter \cup {"hub"}, is : {"message", "pin", "news"}]
  /\ key \in [{"mute", "kick", "slow", "spoke"} -> [Chatter -> Nat]]
  /\ bucket \in [Chatter -> [tokens : 0..ChatRate, at : Nat]]
  /\ ledTo \subseteq {"twoReaders", "overtaken", "reopened", "disorder"}
  /\ silent \in [{"mute", "kick"} -> [Chatter -> Nat]]

HubInit ==
  /\ registerQ = <<>> /\ unregisterQ = <<>> /\ member = {} /\ open = FALSE /\ shut = {}
  /\ heard = [p \in Proc |-> 0]
  /\ settings = NoSettings /\ redisUp = TRUE /\ subs = <<>> /\ handlers = {}
  /\ published = [n |-> 0, from |-> "hub", is |-> "news"]
  /\ key = [k \in {"mute", "kick", "slow", "spoke"} |-> [u \in Chatter |-> 0]]
  /\ bucket = [u \in Chatter |-> [tokens |-> ChatRate, at |-> 0]]
  /\ crashed = FALSE /\ ledTo = {}
  /\ silent = [k \in {"mute", "kick"} |-> [u \in Chatter |-> 0]]

(***************************************************************************)
(* The broker: to Redis, which gives a message to each subscription that   *)
(* was made with it; or, when Redis does not answer, to the handlers that  *)
(* subscribed while it did not, each in a goroutine of its own.            *)
(***************************************************************************)
Reached == {i \in DOMAIN subs : subs[i].redis = redisUp}
NextNumber == published.n + 1
Numbered(from, is) == [n |-> NextNumber, from |-> from, is |-> is]
Ready(i, n) == [sub |-> i, message |-> n, at |-> "ready", todo |-> {}, socket |-> NoSocket]

Publish(from, is) ==
  /\ published' = Numbered(from, is)
  /\ IF redisUp
     THEN /\ subs' = [i \in DOMAIN subs |-> IF i \in Reached
                        THEN [subs[i] EXCEPT !.queue = Append(@, NextNumber)] ELSE subs[i]]
          /\ UNCHANGED handlers
     ELSE /\ handlers' = handlers \cup {Ready(i, NextNumber) : i \in Reached}
          /\ UNCHANGED subs

\* A handler holds the read lock of the maps while it sends; Run the write lock.
Sending == {h \in handlers : h.at # "ready"}
Locked == Sending = {}

\* h goes on as g, or is over when it has come by every socket.
Becomes(h, g) ==
  LET hs == (handlers \ {h}) \cup IF g.at = "sending" /\ g.todo = {} THEN {} ELSE {g} IN
  /\ handlers' = hs
  /\ ledTo' = IF Cardinality({k \in hs : k.at # "ready"}) > 1 THEN ledTo \cup {"twoReaders"} ELSE ledTo

\* A subscription of Redis handles one message at a time.
Take(i) == /\ subs[i].queue # <<>> /\ ~\E h \in handlers : h.sub = i
           /\ LET h == Ready(i, Head(subs[i].queue)) IN
                Becomes(h, [h EXCEPT !.at = "sending", !.todo = member])
           /\ subs' = [subs EXCEPT ![i].queue = Tail(@)]
           /\ UNCHANGED <<heard, shut, member, crashed, faults>>

StartSending(h) == /\ h.at = "ready"
                   /\ Becomes(h, [h EXCEPT !.at = "sending", !.todo = member])
                   /\ UNCHANGED <<subs, heard, shut, member, crashed, faults>>

\* The next socket that is still in the maps: to a closed channel one cannot
\* send, and a socket may be so far behind that its channel is full, which is
\* counted as a fault.
Send(h) ==
  /\ h.at = "sending"
  /\ \E c \in h.todo :
       LET rest == [h EXCEPT !.todo = @ \ {c}] IN
       \/ c \in shut /\ crashed' = TRUE /\ UNCHANGED <<handlers, heard, ledTo, faults>>
       \/ /\ c \notin shut
          /\ heard' = [heard EXCEPT ![c] = h.message]
          /\ handlers' = (handlers \ {h}) \cup IF rest.todo = {} THEN {} ELSE {rest}
          /\ ledTo' = IF h.message > heard[c] THEN ledTo ELSE ledTo \cup {"disorder"}
          /\ UNCHANGED <<crashed, faults>>
       \/ /\ c \notin shut /\ faults < Faults /\ faults' = faults + 1
          /\ Becomes(h, [rest EXCEPT !.at = "full", !.socket = c])
          /\ UNCHANGED <<heard, crashed>>
  /\ UNCHANGED <<subs, shut, member>>

\* A full channel is closed.
CloseSend(h) ==
  /\ h.at = "full"
  /\ crashed' = (h.socket \in shut)
  /\ shut' = shut \cup {h.socket}
  /\ Becomes(h, [h EXCEPT !.at = "shut"])
  /\ UNCHANGED <<subs, heard, member, faults>>

\* The maps are written while another may read or write them.
DropClient(h) ==
  /\ h.at = "shut"
  /\ member' = member \ {h.socket}
  /\ crashed' \in IF Sending = {h} THEN {FALSE} ELSE BOOLEAN
  /\ LET left == {[g EXCEPT !.todo = @ \ {h.socket}] :
                    g \in (handlers \ {h}) \cup {[h EXCEPT !.at = "sending", !.socket = NoSocket]}} IN
       handlers' = {g \in left : g.at # "sending" \/ g.todo # {}}
  /\ UNCHANGED <<subs, heard, shut, ledTo, faults>>

BrokerStep ==
  /\ \/ \E i \in DOMAIN subs : Take(i)
     \/ \E h \in handlers : StartSending(h) \/ Send(h) \/ CloseSend(h) \/ DropClient(h)
  /\ UNCHANGED <<job, fate, plan, seen, past, now>>
  /\ UNCHANGED <<registerQ, unregisterQ, open, settings, redisUp, published, key, bucket, silent>>

(***************************************************************************)
(* The sockets.                                                            *)
(***************************************************************************)
NewClient(p) ==
  /\ Asked(p, "chatWS")
  /\ Begin(p, [i \in 1..Len(job[p].says) |-> "send"] \o <<"chatting">>, [says |-> job[p].says])
  /\ registerQ' = Append(registerQ, p)
  /\ UNCHANGED <<unregisterQ, member, open, shut, heard, settings, redisUp, subs, handlers,
                 published, key, bucket, crashed, ledTo, silent>>

\* Mutant: the goroutine ends and does not tell the hub.
LeaveUntold(p) ==
  /\ fate[p] = "running" /\ job[p].kind = "chatWS" /\ job[p].leaves /\ Head(plan[p]) \in {"send", "chatting"}
  /\ Go(p, <<>>, Nothing)
  /\ UNCHANGED hubVars

\* It goes, or is gone: its goroutine tells the hub.
ReadPumpEnds(p) ==
  /\ fate[p] = "running" /\ job[p].kind = "chatWS" /\ job[p].leaves /\ Head(plan[p]) \in {"send", "chatting"}
  /\ Go(p, <<>>, Nothing)
  /\ unregisterQ' = Append(unregisterQ, p)
  /\ UNCHANGED <<registerQ, member, open, shut, heard, settings, redisUp, subs, handlers,
                 published, key, bucket, crashed, ledTo, silent>>

(***************************************************************************)
(* Run.  A kick is published before the sockets of the user are dropped.   *)
(***************************************************************************)
RunIsFree == \A p \in Proc : ~At(p, "dropKicked")
Subscribe == Append(subs, [redis |-> redisUp, queue |-> <<>>])

RunRegister(Opens) ==
  /\ RunIsFree /\ Locked /\ registerQ # <<>>
  /\ LET c == Head(registerQ)
         made == IF Opens THEN Subscribe ELSE subs IN
       /\ member' = member \cup {c}
       /\ \E told \in {Len(subs), Len(made)} :
            subs' = [i \in DOMAIN made |-> IF redisUp /\ made[i].redis /\ i <= told
                       THEN [made[i] EXCEPT !.queue = Append(@, NextNumber)] ELSE made[i]]
       /\ handlers' = handlers \cup IF redisUp THEN {}
                                    ELSE {Ready(i, NextNumber) : i \in {j \in DOMAIN made : ~made[j].redis}}
       /\ published' = Numbered("hub", "news")
       /\ ledTo' = ledTo
            \cup {x \in {"overtaken"} : fate[c] # "running" /\ \A i \in DOMAIN unregisterQ : unregisterQ[i] # c}
            \cup {x \in {"reopened"} : ~open /\ subs # <<>>}
  /\ open' = TRUE
  /\ registerQ' = Tail(registerQ)
  /\ UNCHANGED <<callVars, unregisterQ, shut, heard, settings, redisUp, key, bucket, crashed,
                 silent>>

\* Mutant: a socket that comes to an empty room subscribes to it.
RegisterEmptied == RunRegister(member = {})

\* The socket for which the room is entered in rooms subscribes to it, and
\* nothing ever unsubscribes: a room that a kick has emptied is still entered.
\* That it came is published, perhaps before Redis knows of the subscription.
HubRegister == RunRegister(~open)

RunUnregister(known) ==
  /\ RunIsFree /\ Locked /\ unregisterQ # <<>>
  /\ LET c == Head(unregisterQ) IN
       IF c \in known
       THEN /\ crashed' = (c \in shut)
            /\ shut' = shut \cup {c}
            /\ member' = member \ {c}
            /\ IF member = {c} THEN open' = FALSE /\ settings' = NoSettings
                               ELSE UNCHANGED <<open, settings>>
       ELSE UNCHANGED <<crashed, shut, member, open, settings>>
  /\ unregisterQ' = Tail(unregisterQ)
  /\ UNCHANGED <<callVars, registerQ, heard, redisUp, subs, handlers, published, key,
                 bucket, ledTo, silent>>

\* Mutant: the channel is closed whether or not the hub still has the socket.
UnregisterUnknown == RunUnregister(Proc)

\* Its channel is closed if it is still in the maps; with the last the room goes
\* and its settings.  That it left is published by a goroutine: a "broadcast".
HubUnregister == RunUnregister(member)

(***************************************************************************)
(* A message of a socket.  One statement may fail: to read the settings, a *)
(* key or the level, to count the message, to set a key or to publish.     *)
(***************************************************************************)
Statement == {"settings", "kick", "mute", "rate", "level", "slow", "set", "publish"}

\* Without the row of its stream the room has no host and no limits.
Room1(f) == IF settings.cached THEN settings
            ELSE IF f = "settings" THEN [NoSettings EXCEPT !.cached = TRUE]
            ELSE [host |-> TRUE, slow |-> StreamSlow, gated |-> FALSE, cached |-> TRUE]

Holds(k, u, f) == redisUp /\ f # k /\ now < key[k][u]

\* A key that is set for no time stays for ever.
Ever == MaxTime + 1
Until(t) == IF t = 0 THEN Ever ELSE now + t
SetKey(k, u, t, f) == key' = IF redisUp /\ f # "set" THEN [key EXCEPT ![k][u] = Until(t)] ELSE key

\* Published, unless that fails: in memory it does not.
Published(from, is, f) == IF redisUp /\ f = "publish" THEN UNCHANGED <<subs, handlers, published>>
                          ELSE Publish(from, is)

\* An error is sent to the sockets of the user, under the read lock too.
PrivateError(u) == /\ crashed' = (\E c \in member \cap shut : job[c].user = u)
                   /\ ledTo' = IF Locked THEN ledTo ELSE ledTo \cup {"twoReaders"}
Untroubled == UNCHANGED <<crashed, ledTo>>

\* The word is dealt with; what comes next is s.
Deal(p, s, v, f) == IF f = "none" THEN Go(p, s, v) ELSE Slip(p, s, v)
Said(p, f) == Deal(p, Tail(plan[p]), [says |-> Tail(seen[p].says)], f)
Refused(p, f) == /\ Said(p, f) /\ PrivateError(job[p].user)
                 /\ UNCHANGED <<subs, handlers, published, key>>

\* Mutant: the bucket is filled beyond its size.
UncappedTokens(u) == bucket[u].tokens + (now - bucket[u].at) * ChatRate

Tokens(u) == LET b == bucket[u] t == b.tokens + (now - b.at) * ChatRate IN
             IF t > ChatRate THEN ChatRate ELSE t
IsCounted(f) == redisUp /\ f # "rate"
Limited(u, f) == IsCounted(f) /\ Tokens(u) < 1
HighLevel(u, f) == u \in Senior /\ f # "level"
IsHost(u, f) == u = ChatHost /\ Room1(f).host
Exempt(u, f) == IsHost(u, f) \/ HighLevel(u, f)

\* Mutant: a mute is set for the one who asks for it.
MuteOwn(p, m, f) ==
  SetKey("mute", job[p].user, m.lasts, f) /\ Published("hub", "news", f) /\ Said(p, f)

Mute(p, m, f) ==
  SetKey("mute", m.target, m.lasts, f) /\ Published("hub", "news", f) /\ Said(p, f)

Kick(p, m, f) == /\ SetKey("kick", m.target, KickLife, f) /\ Published("hub", "news", f)
                 /\ Deal(p, <<"dropKicked">> \o Tail(plan[p]), seen[p], f)

\* What is pinned is of the one who pins it, be he muted or not.
Pin(p, f) == Published(job[p].user, "pin", f) /\ Said(p, f) /\ UNCHANGED key

ChatSettings(p, m, f) ==
  /\ settings' = [Room1(f) EXCEPT !.slow = m.slow, !.gated = m.gated]
  /\ Published("hub", "news", f) /\ Said(p, f) /\ UNCHANGED key

\* The host commands: moderators of a room are users of the same rights.  What
\* a later mute or kick says replaces the earlier one.
ExecuteModeratorCommand(p, m, f) ==
  /\ \/ m.is = "mute" /\ Mute(p, m, f) /\ settings' = Room1(f)
     \/ m.is = "kick" /\ Kick(p, m, f) /\ settings' = Room1(f)
     \/ m.is = "pin" /\ Pin(p, f) /\ settings' = Room1(f)
     \/ m.is = "settings" /\ ChatSettings(p, m, f)
  /\ silent' = CASE m.is = "mute" /\ redisUp -> [silent EXCEPT !["mute"][m.target] = Until(m.lasts)]
                 [] m.is = "kick" /\ redisUp -> [silent EXCEPT !["kick"][m.target] = Until(KickLife)]
                 [] OTHER -> silent
  /\ UNCHANGED bucket /\ Untroubled

\* A message counts.  Chat passes the level gate and the slow mode, which asks
\* when the user last spoke and starts anew; another type passes neither.
HandleChat(p, m, u, f) ==
  /\ bucket' = IF IsCounted(f) THEN [bucket EXCEPT ![u] = [tokens |-> Tokens(u) - 1, at |-> now]] ELSE bucket
  /\ UNCHANGED silent
  /\ \/ /\ m.is = "other"
        /\ Said(p, f) /\ Published(u, "message", f) /\ Untroubled /\ UNCHANGED key
     \/ m.is = "chat" /\ Room1(f).gated /\ ~HighLevel(u, f) /\ Refused(p, f)
     \/ /\ m.is = "chat" /\ (Room1(f).gated => HighLevel(u, f))
        /\ IF Room1(f).slow = 0 \/ Exempt(u, f)
           THEN Said(p, f) /\ Published(u, "message", f) /\ Untroubled /\ UNCHANGED key
           ELSE IF Holds("slow", u, f) /\ now < key["spoke"][u] + Room1(f).slow THEN Refused(p, f)
           ELSE /\ key' = IF redisUp /\ f # "set"
                          THEN [key EXCEPT !["slow"][u] = now + Room1(f).slow, !["spoke"][u] = now]
                          ELSE key
                /\ Said(p, f) /\ Published(u, "message", f) /\ Untroubled

HubBroadcast(p) ==
  /\ RunIsFree /\ At(p, "send")
  /\ settings.cached \/ Locked
  /\ LET m == Head(seen[p].says) u == job[p].user IN
       \E f \in Statement \cup {"none"} :
         \/ /\ m.is \in {"mute", "kick", "pin", "settings"} /\ ~Holds("kick", u, f) /\ IsHost(u, f)
            /\ ExecuteModeratorCommand(p, m, f)
         \/ /\ m.is \in {"chat", "other"}
            /\ ~Holds("kick", u, f) /\ ~Holds("mute", u, f) /\ ~Limited(u, f)
            /\ HandleChat(p, m, u, f) /\ settings' = Room1(f)
         \/ /\ \/ Holds("kick", u, f)
               \/ m.is \in {"chat", "other"} /\ (Holds("mute", u, f) \/ Limited(u, f))
               \/ m.is \notin {"chat", "other"} /\ ~IsHost(u, f)
            /\ Refused(p, f) /\ settings' = Room1(f) /\ UNCHANGED <<bucket, silent>>
  /\ UNCHANGED <<registerQ, unregisterQ, member, open, shut, heard, redisUp>>

\* The sockets of a user that is kicked leave the maps; their channels stay open,
\* and so does the room, even if none is left.
DropKicked(p) ==
  /\ At(p, "dropKicked") /\ Locked
  /\ member' = {c \in member : job[c].user # Head(seen[p].says).target}
  /\ Said(p, "none")
  /\ UNCHANGED <<registerQ, unregisterQ, open, shut, heard, settings, redisUp, subs, handlers,
                 published, key, bucket, crashed, ledTo, silent>>

(***************************************************************************)
(* Others: a use case that broadcasts, the end of the process, and Redis.  *)
(***************************************************************************)
BroadcastToRoom(p) ==
  /\ Asked(p, "broadcast") /\ Publish("hub", "news") /\ Return(p)
  /\ UNCHANGED <<registerQ, unregisterQ, member, open, shut, heard, settings, redisUp, key,
                 bucket, crashed, ledTo, silent>>

StopHub(p) ==
  /\ Asked(p, "stopHub") /\ Locked
  /\ member' = {} /\ open' = FALSE /\ settings' = NoSettings
  /\ Return(p)
  /\ UNCHANGED <<registerQ, unregisterQ, shut, heard, redisUp, subs, handlers, published,
                 key, bucket, crashed, ledTo, silent>>

\* What Redis has not delivered when it goes is lost.
RedisHealth(p) ==
  /\ \/ Asked(p, "redisDown") /\ redisUp' = FALSE
        /\ subs' = [i \in DOMAIN subs |-> [subs[i] EXCEPT !.queue = <<>>]]
     \/ Asked(p, "redisBack") /\ redisUp' = TRUE /\ UNCHANGED subs
  /\ Return(p)
  /\ UNCHANGED <<registerQ, unregisterQ, member, open, shut, heard, settings, handlers, published,
                 key, bucket, crashed, ledTo, silent>>

ChatStep ==
  \/ \E p \in {q \in Proc : job[q] \in ChatRequests} :
       \/ NewClient(p) \/ ReadPumpEnds(p) \/ HubBroadcast(p) \/ DropKicked(p)
       \/ BroadcastToRoom(p) \/ StopHub(p) \/ RedisHealth(p)
  \/ HubRegister \/ HubUnregister \/ BrokerStep

-----------------------------------------------------------------------------
(* The process does not panic, by a channel that is closed twice or sent to   *)
(* when closed, or by maps written at once, unless two goroutines held the    *)
(* read lock, which is enough to send, at the same time.                      *)
PanicNeedsTwoReaders == crashed => "twoReaders" \in ledTo

(* A socket hears what is published in its order and never twice, while      *)
(* Redis answers and the room, once open, is never empty and opened again:    *)
(* it then has a second subscription, and nothing ever ends the first.        *)
HeardOnceInOrder == Kind("redisDown") = {} /\ "reopened" \notin ledTo => "disorder" \notin ledTo

(* A socket that is gone, and that the hub has been told of, is not in its   *)
(* maps, unless its leave overtook its coming: two queues have no order.     *)
GoneAreForgotten ==
  "overtaken" \notin ledTo /\ registerQ = <<>> /\ unregisterQ = <<>> =>
    \A c \in member : fate[c] = "running"

(* A user who is muted or kicked publishes nothing until the last mute, and   *)
(* the last kick, is over, but what a host who is muted pins: while Redis is  *)
(* there to tell and no statement has failed.                                 *)
SilenceKept ==
  [][\A u \in Chatter :
       /\ redisUp /\ faults' = 0 /\ published' # published /\ published'.from = u
       => /\ now >= silent["kick"][u]
          /\ published'.is = "pin" \/ now >= silent["mute"][u]]_hubVars
=============================================================================
