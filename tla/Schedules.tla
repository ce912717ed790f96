----------------------------- MODULE Schedules ------------------------------
(***************************************************************************)
(* Scheduled streams (internal/usecase/schedule.go,                        *)
(* internal/repository/schedule.go): a recurring schedule has occurrences, *)
(* one a date, that are generated ahead, cancelled, reminded of and linked *)
(* to the stream that starts near them.  A goroutine that goes on after    *)
(* the answer of a call is still that call here.  The waiting room of an   *)
(* occurrence (internal/websocket/waitroom.go) is at the end.              *)
(***************************************************************************)
EXTENDS Streams

CONSTANTS Schedule,
          OldSchedules,   \* some schedules, each with its host and its rule, there from the start
          StartsOf,       \* StartsOf[r]: the dates of a recurrence rule, and the start of each
          ScheduleLimit,
          OpenLead, Tier, \* the waits that are reminded of; the one that opens a room
          Late,           \* an occurrence this late is missed
          Window          \* a stream this near to an occurrence is its stream

ASSUME ScheduleAssumption ==
  /\ {ScheduleLimit, OpenLead, Late, Window} \subseteq Nat
  /\ OpenLead \in Tier /\ Tier \subseteq Nat \ {0}
  /\ DOMAIN StartsOf # {} /\ IsFiniteSet(Schedule)
  /\ \A r \in DOMAIN StartsOf : /\ IsFiniteSet(DOMAIN StartsOf[r])
                               /\ \A d \in DOMAIN StartsOf[r] : StartsOf[r][d] \in Nat
  /\ \A s \in DOMAIN OldSchedules : /\ s \in Schedule
                                   /\ OldSchedules[s].host \in Host
                                   /\ OldSchedules[s].rule \in DOMAIN StartsOf

VARIABLES schedule,    \* schedule[s]: the row in live_schedules
          occurrence,  \* occurrence[s][d]: the row in schedule_occurrences
          subscriber,  \* the viewers that are reminded: user_schedule_reminders
          reminded,    \* reminder_logs: who, of what, that it comes or starts, and the call that did
          waitRoom     \* waitRoom[s][d]: the row in wait_rooms
scheduleVars == <<schedule, occurrence, subscriber, reminded, waitRoom>>

Rule == DOMAIN StartsOf
Date == UNION {DOMAIN StartsOf[r] : r \in Rule}
NoRoom == [there |-> FALSE, current |-> 0, peak |-> 0]

ScheduleTypeOK ==
  /\ schedule \in [Schedule -> [status : {"none", "scheduled", "cancelled", "live"},
                                host : Host, rule : Rule]]
  /\ occurrence \in [Schedule -> [Date -> [status : {"none", "upcoming", "cancelled", "live", "missed"},
                                           start : Nat, opened : BOOLEAN]]]
  /\ subscriber \subseteq Viewer \X Schedule
  /\ reminded \subseteq [user : Viewer, schedule : Schedule, date : Date, by : Proc,
                   is : {"tier", "start"}]
  /\ waitRoom \in [Schedule -> [Date -> [there : BOOLEAN, current : Nat, peak : Nat]]]

ScheduleInit ==
  /\ schedule = [s \in Schedule |->
       IF s \in DOMAIN OldSchedules
       THEN [status |-> "scheduled", host |-> OldSchedules[s].host, rule |-> OldSchedules[s].rule]
       ELSE [status |-> "none", host |-> CHOOSE h \in Host : TRUE, rule |-> CHOOSE r \in Rule : TRUE]]
  /\ occurrence = [s \in Schedule |-> [d \in Date |->
       IF s \in DOMAIN OldSchedules /\ d \in DOMAIN StartsOf[schedule[s].rule]
       THEN [status |-> "upcoming", start |-> StartsOf[schedule[s].rule][d], opened |-> FALSE]
       ELSE [status |-> "none", start |-> 0, opened |-> FALSE]]]
  /\ subscriber = {} /\ reminded = {}
  /\ waitRoom = [s \in Schedule |-> [d \in Date |-> NoRoom]]

CreateScheduleRequest == [kind : {"createSchedule"}, user : Host, schedule : Schedule, rule : Rule]
UpdateScheduleRequest == [kind : {"updateSchedule"}, user : Host, schedule : Schedule, rule : Rule]
CancelScheduleRequest == [kind : {"cancelSchedule"}, user : Host, schedule : Schedule]
CancelOccurrenceRequest == [kind : {"cancelOccurrence"}, user : Host, schedule : Schedule,
                            date : Date]
SubscribeReminderRequest == [kind : {"subscribe"}, user : Viewer, schedule : Schedule]
UnsubscribeReminderRequest == [kind : {"unsubscribe"}, user : Viewer, schedule : Schedule]
ScheduleRequests ==
  CreateScheduleRequest \cup UpdateScheduleRequest \cup CancelScheduleRequest
  \cup CancelOccurrenceRequest \cup SubscribeReminderRequest \cup UnsubscribeReminderRequest
  \cup [kind : {"refill", "remind"}]

Sch(p) == job[p].schedule
GetActiveSchedulesCount(h) ==
  Cardinality({s \in Schedule : schedule[s].host = h /\ schedule[s].status = "scheduled"})
OwnedBy(h, s) == schedule[s].status # "none" /\ schedule[s].host = h

GetOccurrenceByID(s, d) == occurrence[s][d]
GetActiveRecurringSchedules == {s \in Schedule : schedule[s].status = "scheduled"}
GetSubscribersForSchedule(s) == {v \in Viewer : <<v, s>> \in subscriber}

\* The occurrences of s under the rule r from now on; one INSERT for each of the set S.
Coming(s, r) == {[schedule |-> s, date |-> d, start |-> StartsOf[r][d]] :
                   d \in {e \in DOMAIN StartsOf[r] : StartsOf[r][e] >= now}}
Inserts(S) == [i \in 1..Cardinality(S) |-> "insertOccurrence"]

CreateSchedule(p) ==
  /\ Asked(p, "createSchedule")
  /\ IF GetActiveSchedulesCount(job[p].user) < ScheduleLimit
     THEN Begin(p, <<"insertSchedule", "generate">>, Nothing)
     ELSE Refuse(p)
  /\ UNCHANGED scheduleVars

SetSchedule(s, r) == /\ schedule' = [schedule EXCEPT ![s] = r]
                     /\ UNCHANGED <<occurrence, subscriber, reminded, waitRoom>>

InsertSchedule(p) ==
  /\ At(p, "insertSchedule")
  /\ SetSchedule(Sch(p), [status |-> "scheduled", host |-> job[p].user, rule |-> job[p].rule])
  /\ Continue(p)

GenerateOccurrences(p) ==
  /\ At(p, "generate")
  /\ LET todo == Coming(Sch(p), job[p].rule) IN
       Go(p, Inserts(todo), [todo |-> todo])
  /\ UNCHANGED scheduleVars

InsertOne(p, kept) ==
  /\ At(p, "insertOccurrence")
  /\ \E o \in seen[p].todo :
       /\ occurrence' = IF o \in kept THEN occurrence
                        ELSE [occurrence EXCEPT ![o.schedule][o.date] =
                                [status |-> "upcoming", start |-> o.start, opened |-> FALSE]]
       /\ Hold(p, [todo |-> seen[p].todo \ {o}])
  /\ UNCHANGED <<schedule, subscriber, reminded, waitRoom>>

\* Mutant: a date that is there is written again, not left alone.
OverwriteOccurrence(p) == InsertOne(p, {})

\* ON CONFLICT (schedule_id, occurrence_date) DO NOTHING.
CreateOccurrence(p) ==
  InsertOne(p, {o \in seen[p].todo : occurrence[o.schedule][o.date].status # "none"})

\* The whole row is written, with the status it was read with.
UpdateSchedule(p) ==
  /\ Asked(p, "updateSchedule")
  /\ IF OwnedBy(job[p].user, Sch(p))
     THEN LET r == schedule[Sch(p)] IN
          Begin(p, <<"updateSchedule">> \o
                   IF r.rule # job[p].rule THEN <<"cancelFuture", "generate">>
                   ELSE <<>>,
                [row |-> [r EXCEPT !.rule = job[p].rule]])
     ELSE Refuse(p)
  /\ UNCHANGED scheduleVars

WriteSchedule(p) ==
  At(p, "updateSchedule") /\ SetSchedule(Sch(p), seen[p].row) /\ Continue(p)

CancelSchedule(p) ==
  /\ Asked(p, "cancelSchedule")
  /\ IF OwnedBy(job[p].user, Sch(p)) THEN Begin(p, <<"deleteSchedule", "cancelFuture">>, Nothing)
     ELSE Refuse(p)
  /\ UNCHANGED scheduleVars

Delete(p) ==
  /\ At(p, "deleteSchedule")
  /\ SetSchedule(Sch(p), [schedule[Sch(p)] EXCEPT !.status = "cancelled"])
  /\ Continue(p)

\* Occurrences S of s become k where they are still upcoming.
Mark(s, S, k) ==
  occurrence' = [occurrence EXCEPT ![s] = [d \in Date |->
                   IF d \in S /\ @[d].status = "upcoming" THEN [@[d] EXCEPT !.status = k] ELSE @[d]]]

CancelFutureOccurrences(p) ==
  /\ At(p, "cancelFuture")
  /\ Mark(Sch(p), {d \in Date : occurrence[Sch(p)][d].start > now}, "cancelled")
  /\ Continue(p)
  /\ UNCHANGED <<schedule, subscriber, reminded, waitRoom>>

CancelOccurrence(p) ==
  /\ Asked(p, "cancelOccurrence")
  /\ IF OwnedBy(job[p].user, Sch(p)) /\ GetOccurrenceByID(Sch(p), job[p].date).status # "none"
     THEN Begin(p, <<"cancelOne">>, Nothing)
     ELSE Refuse(p)
  /\ UNCHANGED scheduleVars

CancelSingleOccurrence(p) ==
  /\ At(p, "cancelOne")
  /\ Mark(Sch(p), {job[p].date}, "cancelled")
  /\ Continue(p)
  /\ UNCHANGED <<schedule, subscriber, reminded, waitRoom>>

\* Twice a day, for the schedules that are neither cancelled nor live.
RefillAllOccurrences(p) ==
  /\ Asked(p, "refill")
  /\ LET todo == UNION {Coming(s, schedule[s].rule) : s \in GetActiveRecurringSchedules}
     IN Begin(p, Inserts(todo), [todo |-> todo])
  /\ UNCHANGED scheduleVars

\* Mutant: a subscription is switched off by nothing.
SubscriptionStays(p) ==
  /\ \/ Asked(p, "subscribe") /\ subscriber' = subscriber \cup {<<job[p].user, Sch(p)>>}
     \/ Asked(p, "unsubscribe") /\ UNCHANGED subscriber
  /\ Return(p)
  /\ UNCHANGED <<schedule, occurrence, reminded, waitRoom>>

Subscription(p) ==
  /\ \/ Asked(p, "subscribe") /\ subscriber' = subscriber \cup {<<job[p].user, Sch(p)>>}
     \/ Asked(p, "unsubscribe") /\ subscriber' = subscriber \ {<<job[p].user, Sch(p)>>}
  /\ Return(p)
  /\ UNCHANGED <<schedule, occurrence, reminded, waitRoom>>

(***************************************************************************)
(* Every minute: the upcoming occurrences are read, and those that start   *)
(* in one of the given waits are reminded of, one after another.  At the   *)
(* last wait the row is written back as it was read and the room opens.    *)
(***************************************************************************)
CheckAndSendTieredReminders(p) ==
  /\ Asked(p, "remind")
  /\ Begin(p, <<"remindNext", "markMissed">>,
           [rows |-> {[schedule |-> o[1], date |-> o[2], row |-> occurrence[o[1]][o[2]]] : o \in
                        {o \in Schedule \X Date : /\ occurrence[o[1]][o[2]].status = "upcoming"
                                                  /\ occurrence[o[1]][o[2]].start >= now}}])
  /\ UNCHANGED scheduleVars

RemindNext(p) ==
  /\ At(p, "remindNext")
  /\ IF seen[p].rows = {} THEN Continue(p)
     ELSE \E o \in seen[p].rows :
            LET left == [rows |-> seen[p].rows \ {o}, of |-> o]
                wait == o.row.start - now IN
            CASE wait = OpenLead -> Go(p, <<"writeOccurrence", "openRoom", "log">> \o plan[p], left)
              [] wait \in Tier \ {OpenLead} -> Go(p, <<"log">> \o plan[p], left)
              [] OTHER -> Go(p, plan[p], left)
  /\ UNCHANGED scheduleVars

UpdateOccurrence(p) ==
  /\ At(p, "writeOccurrence")
  /\ LET o == seen[p].of IN
       occurrence' = [occurrence EXCEPT ![o.schedule][o.date] = [o.row EXCEPT !.opened = TRUE]]
  /\ Continue(p)
  /\ UNCHANGED <<schedule, subscriber, reminded, waitRoom>>

\* A room that is there is set to be empty.
CreateWaitRoom(p) ==
  /\ At(p, "openRoom")
  /\ LET o == seen[p].of IN
       waitRoom' = [waitRoom EXCEPT ![o.schedule][o.date] = [@ EXCEPT !.there = TRUE, !.current = 0]]
  /\ Continue(p)
  /\ UNCHANGED <<schedule, occurrence, subscriber, reminded>>

\* The entries of p for those who subscribe.
Log(p, s, d, k) == {[user |-> u, schedule |-> s, date |-> d, by |-> p, is |-> k] :
                      u \in GetSubscribersForSchedule(s)}

LogReminder(p) ==
  /\ At(p, "log")
  /\ LET o == seen[p].of IN reminded' = reminded \cup Log(p, o.schedule, o.date, "tier")
  /\ Continue(p)
  /\ UNCHANGED <<schedule, occurrence, subscriber, waitRoom>>

MarkMissedOccurrences(p) ==
  /\ At(p, "markMissed")
  /\ occurrence' = [s \in Schedule |-> [d \in Date |->
       LET o == occurrence[s][d] IN
       IF o.status = "upcoming" /\ o.start + Late < now THEN [o EXCEPT !.status = "missed"] ELSE o]]
  /\ Continue(p)
  /\ UNCHANGED <<schedule, subscriber, reminded, waitRoom>>

(***************************************************************************)
(* A stream has started: an occurrence of its host near now is linked to   *)
(* it, and its schedule, whatever either has become.                       *)
(***************************************************************************)
InWindow(h) == {o \in Schedule \X Date : LET r == occurrence[o[1]][o[2]] IN
                  /\ schedule[o[1]].host = h /\ r.status = "upcoming"
                  /\ r.start <= now + Window /\ now <= r.start + Window}

CheckAndAutoLinkStream(p) ==
  /\ At(p, "autoLink")
  /\ LET near == InWindow(row[Of(p)].host) IN
       IF near = {} THEN Continue(p)
       ELSE \E o \in near : Go(p, <<"linkOccurrence", "linkSchedule">>, [schedule |-> o[1], date |-> o[2]])
  /\ UNCHANGED scheduleVars

LinkOccurrence(p) ==
  /\ At(p, "linkOccurrence")
  /\ occurrence' = [occurrence EXCEPT ![seen[p].schedule][seen[p].date].status = "live"]
  /\ Continue(p)
  /\ UNCHANGED <<schedule, subscriber, reminded, waitRoom>>

\* And who subscribes to the schedule is told of it and logged.
LinkSchedule(p) ==
  /\ At(p, "linkSchedule")
  /\ LET s == seen[p].schedule IN
       /\ schedule' = [schedule EXCEPT ![s].status = "live"]
       /\ reminded' = reminded \cup Log(p, s, seen[p].date, "start")
  /\ Continue(p)
  /\ UNCHANGED <<occurrence, subscriber, waitRoom>>

ScheduleStep(p) ==
  /\ \/ CreateSchedule(p) \/ InsertSchedule(p) \/ GenerateOccurrences(p) \/ CreateOccurrence(p)
     \/ UpdateSchedule(p) \/ WriteSchedule(p) \/ CancelSchedule(p) \/ Delete(p)
     \/ CancelFutureOccurrences(p) \/ CancelOccurrence(p) \/ CancelSingleOccurrence(p)
     \/ RefillAllOccurrences(p) \/ Subscription(p)
     \/ CheckAndSendTieredReminders(p) \/ RemindNext(p) \/ UpdateOccurrence(p)
     \/ CreateWaitRoom(p) \/ LogReminder(p) \/ MarkMissedOccurrences(p)
     \/ CheckAndAutoLinkStream(p) \/ LinkOccurrence(p) \/ LinkSchedule(p)
  /\ UNCHANGED streamVars

IgnoredSchedule == {"cancelFuture", "insertOccurrence", "writeOccurrence", "openRoom", "log",
                    "markMissed"}

-----------------------------------------------------------------------------
\* A schedule that is updated afterwards is generated anew, cancelled or not.
Cancels(p, s, d) == \/ /\ job[p].kind = "cancelSchedule" /\ Sch(p) = s
                       /\ \A q \in Kind("updateSchedule") : fate[q] # "new" => Before(q, p)
                    \/ job[p].kind = "cancelOccurrence" /\ Sch(p) = s /\ job[p].date = d
\* Calls that write what they have read before, or add dates.
OccurrenceWriters == Kinds({"createSchedule", "updateSchedule", "refill", "remind", "startStream"})

(* An occurrence that was to come when it was cancelled is never again       *)
(* upcoming, whatever is generated, updated or reminded of later: only a     *)
(* call that was under way can bring it back.  And nobody is reminded that   *)
(* it comes.                                                                 *)
CancelledStays ==
  faults = 0 => \A p \in Kinds({"cancelSchedule", "cancelOccurrence"}), s \in Schedule, d \in Date :
    Done(p) /\ Cancels(p, s, d) /\ (\A q \in OccurrenceWriters : ~Overlap(p, q)) =>
      /\ occurrence[s][d].status = "upcoming" => occurrence[s][d].start <= now
      /\ \A r \in reminded : r.schedule = s /\ r.date = d /\ r.is = "tier" => Before(r.by, p)

(* A viewer who has unsubscribed is not told, that a date comes or that the  *)
(* stream has started, by a later call, unless one that subscribes comes     *)
(* after it or at the same time.                                             *)
UnsubscribedIsLeftAlone ==
  \A p \in Kind("unsubscribe"), r \in reminded :
    Done(p) /\ Before(p, r.by) /\ r.user = job[p].user /\ r.schedule = Sch(p)
      => \E q \in Kind("subscribe") : /\ job[q].user = r.user /\ Sch(q) = Sch(p)
                                     /\ fate[q] # "new" /\ ~Before(q, p)

-----------------------------------------------------------------------------
(***************************************************************************)
(* The hub of the waiting rooms (internal/websocket/waitroom.go): who is   *)
(* in a room is known to one goroutine; how many they are is written to    *)
(* the row of the room by another goroutine for every change.  A room is   *)
(* an occurrence, named [schedule, date].                                  *)
(***************************************************************************)
CONSTANTS RoomLimit,    \* how many may wait in a room
          ChatPause,    \* how long a viewer is silent after a message
          MissedAfter   \* a room whose host is this late is closed

ASSUME WaitRoomAssumption == {RoomLimit, ChatPause, MissedAfter} \subseteq Nat

VARIABLES waiting,   \* waiting[p]: "no", "in" the maps of the hub, "out" of them, "closed" by it
          counting,  \* the goroutines that write a count
          mayChat,   \* mayChat[r][u]: when waitroom:rate of u in r expires
          chat,      \* waitroom:chat: the messages, by room
          highest,   \* history: the highest count of a room
          untold     \* history: the rooms whose count was changed or written otherwise meanwhile
waitRoomVars == <<waiting, counting, mayChat, chat, highest, untold>>

Room == [schedule : Schedule, date : Date]

WaitRoomTypeOK ==
  /\ waiting \in [Proc -> {"no", "in", "out", "closed"}]
  /\ counting \subseteq [by : Proc, room : Room, n : Nat, at : {"look", "update", "insert"}]
  /\ mayChat \in [Room -> [Viewer -> Nat]]
  /\ chat \in [Room -> Nat]
  /\ highest \in [Room -> Nat]
  /\ untold \subseteq Room

WaitRoomInit ==
  /\ waiting = [p \in Proc |-> "no"]
  /\ counting = {}
  /\ mayChat = [r \in Room |-> [v \in Viewer |-> 0]]
  /\ chat = [r \in Room |-> 0]
  /\ highest = [r \in Room |-> 0]
  /\ untold = {}

ServeWaitRoomWS == [kind : {"waitWS"}, user : Viewer, schedule : Schedule, date : Date, says : Nat]
WaitRoomRequests == ServeWaitRoomWS

RoomOf(p) == [schedule |-> job[p].schedule, date |-> job[p].date]
Occ(r) == occurrence[r.schedule][r.date]
In(r) == {p \in Kind("waitWS") : RoomOf(p) = r /\ waiting[p] = "in"}

\* The state of the occurrence and the size of the room are read before the
\* socket is registered.
OpenWaitSocket(p) ==
  /\ Asked(p, "waitWS")
  /\ LET r == RoomOf(p) IN
       IF Occ(r).status \in {"upcoming", "live"} /\ Cardinality(In(r)) < RoomLimit
       THEN Begin(p, <<"register">> \o [i \in 1..job[p].says |-> "say"] \o <<"waiting">>, Nothing)
       ELSE Refuse(p)
  /\ UNCHANGED waitRoomVars

\* go updateWaitRoomCount(n): this goroutine and those before it, in any order.
TellCount(p, n) ==
  LET r == RoomOf(p) IN
  /\ counting' = counting \cup {[by |-> p, room |-> r, n |-> n, at |-> "look"]}
  /\ untold' = IF \E c \in counting : c.room = r THEN untold \cup {r} ELSE untold
  /\ highest' = [highest EXCEPT ![r] = Larger(@, n)]

Register(p) ==
  /\ At(p, "register")
  /\ waiting' = [waiting EXCEPT ![p] = "in"]
  /\ TellCount(p, Cardinality(In(RoomOf(p))) + 1)
  /\ Continue(p)
  /\ UNCHANGED <<mayChat, chat>>

\* A message within the pause is refused; it is let through when the key cannot
\* be read, and is the last without a pause when it cannot be set.
Say(p) ==
  /\ At(p, "say")
  /\ LET r == RoomOf(p) u == job[p].user IN
       \E f \in {"none", "exists", "set"} :
         /\ IF In(r) # {} /\ (now >= mayChat[r][u] \/ f = "exists")
            THEN /\ mayChat' = IF f = "set" THEN mayChat ELSE [mayChat EXCEPT ![r][u] = now + ChatPause]
                 /\ chat' = [chat EXCEPT ![r] = @ + 1]
            ELSE UNCHANGED <<mayChat, chat>>
         /\ IF f = "none" THEN Continue(p) ELSE Slip(p, Tail(plan[p]), seen[p])
  /\ UNCHANGED <<waiting, counting, highest, untold>>

\* A broadcast finds the buffer of p full: p is closed, and the row not told.
DropSlow(p) ==
  /\ waiting[p] = "in"
  /\ waiting' = [waiting EXCEPT ![p] = "closed"]
  /\ untold' = untold \cup {RoomOf(p)}
  /\ UNCHANGED <<callVars, counting, mayChat, chat, highest>>

\* The socket is closed, by either side.
LeaveSocket(p) ==
  /\ fate[p] = "running" /\ Head(plan[p]) \in {"say", "waiting"}
  /\ Go(p, <<"unregister">>, Nothing)
  /\ UNCHANGED waitRoomVars

\* Mutant: the count is not told when somebody leaves.
UnregisterUntold(p) ==
  /\ At(p, "unregister")
  /\ waiting' = [waiting EXCEPT ![p] = "out"]
  /\ Continue(p)
  /\ UNCHANGED <<counting, mayChat, chat, highest, untold>>

Unregister(p) ==
  /\ At(p, "unregister")
  /\ waiting' = [waiting EXCEPT ![p] = "out"]
  /\ TellCount(p, Cardinality(In(RoomOf(p)) \ {p}))
  /\ Continue(p)
  /\ UNCHANGED <<mayChat, chat>>

\* Every second: a room whose host is too late is closed; its row is not told.
HostMissed(r) ==
  /\ In(r) # {} /\ now > Occ(r).start + MissedAfter
  /\ waiting' = [p \in Proc |-> IF p \in In(r) THEN "out" ELSE waiting[p]]
  /\ untold' = untold \cup {r}
  /\ UNCHANGED <<callVars, counting, mayChat, chat, highest>>

HubStep == /\ \/ \E p \in Kind("waitWS") : \/ OpenWaitSocket(p) \/ Register(p) \/ Say(p)
                                           \/ LeaveSocket(p) \/ Unregister(p) \/ DropSlow(p)
              \/ \E r \in Room : HostMissed(r)
           /\ UNCHANGED scheduleVars

(***************************************************************************)
(* updateWaitRoomCount: is there a row, and then UPDATE or INSERT, which a *)
(* row that has come meanwhile refuses.  A SELECT that fails is taken for  *)
(* no row; an INSERT or an UPDATE that fails, or the host that cannot be   *)
(* read, leaves the row as it is, and nobody is told.                      *)
(***************************************************************************)
Row1(r) == waitRoom[r.schedule][r.date]
SetRow(r, w) == waitRoom' = [waitRoom EXCEPT ![r.schedule][r.date] = w]

Fails == faults < Faults /\ faults' = faults + 1

LookForRoom(c) ==
  /\ c \in counting /\ c.at = "look"
  /\ \E found \in BOOLEAN :
       /\ counting' = (counting \ {c}) \cup {[c EXCEPT !.at = IF found THEN "update" ELSE "insert"]}
       /\ \/ found = Row1(c.room).there /\ UNCHANGED faults
          \/ Row1(c.room).there /\ ~found /\ Fails
  /\ UNCHANGED waitRoom

\* Mutant: the highest count is the last one.
WriteCountAsPeak(c) ==
  /\ c \in counting /\ c.at # "look"
  /\ counting' = counting \ {c}
  /\ UNCHANGED faults
  /\ SetRow(c.room, [there |-> TRUE, current |-> c.n, peak |-> c.n])

LoseCount(c) ==
  /\ c \in counting /\ c.at # "look" /\ Fails
  /\ counting' = counting \ {c}
  /\ UNCHANGED waitRoom

WriteCount(c) ==
  /\ c \in counting /\ c.at # "look"
  /\ counting' = counting \ {c}
  /\ UNCHANGED faults
  /\ IF c.at = "insert" /\ Row1(c.room).there THEN UNCHANGED waitRoom
     ELSE SetRow(c.room, [there |-> TRUE, current |-> c.n, peak |-> Larger(c.n, Row1(c.room).peak)])

UpdateWaitRoomCount ==
  /\ \E c \in counting : LookForRoom(c) \/ WriteCount(c) \/ LoseCount(c)
  /\ UNCHANGED <<job, fate, plan, seen, past, now, schedule, occurrence, subscriber, reminded,
                 waiting, mayChat, chat, highest, untold>>

WaitRoomStep == (HubStep \/ UpdateWaitRoomCount) /\ UNCHANGED streamVars

-----------------------------------------------------------------------------
(* The row of a room has the number of those that wait in it, and the most   *)
(* there have been, once the counts are written and while no statement       *)
(* fails: unless two of them were under way at once, a slow client or the    *)
(* end of the wait closed sockets without a count, or a reminder set the row *)
(* to empty.                                                                 *)
CountsReachTheRow ==
  faults = 0 => \A r \in Room :
    (/\ highest[r] > 0 /\ r \notin untold
     /\ Kind("remind") = {} /\ {c \in counting : c.room = r} = {})
    => /\ Row1(r).current = Cardinality(In(r))
       /\ Row1(r).peak = highest[r]
=============================================================================
