----------------------------- MODULE LiveProofs -----------------------------
(***************************************************************************)
(* Proofs about Live, the second half: schedules and reminders, waiting    *)
(* rooms, battles, and what they keep together with the streams.           *)
(***************************************************************************)
EXTENDS StreamProofs

-----------------------------------------------------------------------------
(***************************************************************************)
(* A viewer who has unsubscribed is among the subscribers again, or is     *)
(* told by a later call, only if a call that subscribes came since.        *)
(***************************************************************************)
Resubscribed(p) == \E q \in Kind("subscribe") : /\ job[q].user = job[p].user /\ Sch(q) = Sch(p)
                                                /\ fate[q] # "new" /\ ~Before(q, p)
Reminded(p) == \E r \in reminded : /\ r.user = job[p].user /\ r.schedule = Sch(p)
                                   /\ Before(p, r.by)

UnsubInv ==
  /\ \A r \in reminded : r.by \in Proc /\ fate[r.by] # "new"
  /\ \A p \in Kinds({"subscribe", "unsubscribe"}) : fate[p] # "running"
  /\ \A p \in Kind("unsubscribe") :
       Done(p) /\ (<<job[p].user, Sch(p)>> \in subscriber \/ Reminded(p)) => Resubscribed(p)

\* A step that leaves the subscribers and the reminders alone.
LEMMA OthersRemindNobody ==
  ASSUME CallInv, UnsubInv, [Next]_vars
  PROVE  \/ \E p \in Proc : Subscription(p) \/ LogReminder(p) \/ LinkSchedule(p)
         \/ /\ UNCHANGED <<subscriber, reminded>>
            /\ \/ Rest
               \/ \E p \in Proc : RestOf(p) /\ job[p].kind \notin {"subscribe", "unsubscribe"}
<1>1. ASSUME NEW p \in Proc, Moves(p) \/ Slips(p), job[p].kind \notin {"subscribe", "unsubscribe"},
             UNCHANGED <<subscriber, reminded>>
      PROVE  /\ UNCHANGED <<subscriber, reminded>>
             /\ \E q \in Proc : RestOf(q) /\ job[q].kind \notin {"subscribe", "unsubscribe"}
  BY <1>1, MoveIsOwn
<1>2. ASSUME NEW p \in Proc, ScheduleStep(p), ~Subscription(p), ~LogReminder(p), ~LinkSchedule(p)
      PROVE  UNCHANGED <<subscriber, reminded>>
  <2>1. CASE \/ CreateSchedule(p) \/ InsertSchedule(p) \/ GenerateOccurrences(p) \/ CreateOccurrence(p)
             \/ UpdateSchedule(p) \/ WriteSchedule(p) \/ CancelSchedule(p) \/ Delete(p)
    BY <2>1 DEF CreateSchedule, InsertSchedule, GenerateOccurrences, CreateOccurrence, InsertOne, SetSchedule,
                UpdateSchedule, WriteSchedule, CancelSchedule, Delete, scheduleVars
  <2>2. CASE \/ CancelFutureOccurrences(p) \/ CancelOccurrence(p) \/ CancelSingleOccurrence(p)
             \/ RefillAllOccurrences(p) \/ CheckAndSendTieredReminders(p) \/ RemindNext(p)
    BY <2>2 DEF CancelFutureOccurrences, CancelOccurrence, CancelSingleOccurrence, RefillAllOccurrences,
                CheckAndSendTieredReminders, RemindNext, scheduleVars
  <2>3. CASE \/ UpdateOccurrence(p) \/ CreateWaitRoom(p) \/ MarkMissedOccurrences(p)
             \/ CheckAndAutoLinkStream(p) \/ LinkOccurrence(p)
    BY <2>3 DEF UpdateOccurrence, CreateWaitRoom, MarkMissedOccurrences, CheckAndAutoLinkStream,
                LinkOccurrence, scheduleVars
  <2> QED BY <1>2, <2>1, <2>2, <2>3 DEF ScheduleStep
<1>3. ASSUME NEW p \in Proc, ScheduleStep(p), ~Subscription(p)
      PROVE  job[p].kind \notin {"subscribe", "unsubscribe"}
  <2>1. fate[p] = "running" \/ \E k : Asked(p, k) /\ k \notin {"subscribe", "unsubscribe"}
    <3>1. CASE \/ CreateSchedule(p) \/ InsertSchedule(p) \/ GenerateOccurrences(p) \/ CreateOccurrence(p)
               \/ UpdateSchedule(p) \/ WriteSchedule(p) \/ CancelSchedule(p) \/ Delete(p)
      BY <3>1 DEF CreateSchedule, InsertSchedule, GenerateOccurrences, CreateOccurrence, InsertOne,
                  UpdateSchedule, WriteSchedule, CancelSchedule, Delete, At
    <3>2. CASE \/ CancelFutureOccurrences(p) \/ CancelOccurrence(p) \/ CancelSingleOccurrence(p)
               \/ RefillAllOccurrences(p) \/ CheckAndSendTieredReminders(p) \/ RemindNext(p)
      BY <3>2 DEF CancelFutureOccurrences, CancelOccurrence, CancelSingleOccurrence, RefillAllOccurrences,
                  CheckAndSendTieredReminders, RemindNext, At
    <3>3. CASE \/ UpdateOccurrence(p) \/ CreateWaitRoom(p) \/ LogReminder(p) \/ MarkMissedOccurrences(p)
               \/ CheckAndAutoLinkStream(p) \/ LinkOccurrence(p) \/ LinkSchedule(p)
      BY <3>3 DEF UpdateOccurrence, CreateWaitRoom, LogReminder, MarkMissedOccurrences, CheckAndAutoLinkStream,
                  LinkOccurrence, LinkSchedule, At
    <3> QED BY <1>3, <3>1, <3>2, <3>3 DEF ScheduleStep
  <2> QED BY <2>1 DEF Asked, UnsubInv, Kinds
<1>4. CASE Step
  <2>1. ASSUME NEW p \in Proc, StreamStep(p), job[p] \in StreamRequests, UNCHANGED scheduleVars
        PROVE  UNCHANGED <<subscriber, reminded>> /\ (Rest \/ Moves(p))
               /\ job[p].kind \notin {"subscribe", "unsubscribe"}
    <3>1. job[p].kind \notin {"subscribe", "unsubscribe"}
      BY <2>1, RequestKinds
    <3> QED BY <2>1, <3>1, StreamMoves DEF scheduleVars, Rest, callVars
  <2>2. ASSUME NEW p \in Proc, BattleStep(p), job[p] \in BattleRequests, UNCHANGED scheduleVars
        PROVE  UNCHANGED <<subscriber, reminded>> /\ Moves(p)
               /\ job[p].kind \notin {"subscribe", "unsubscribe"}
    <3>1. job[p].kind \notin {"subscribe", "unsubscribe"}
      BY <2>2, RequestKinds
    <3> QED BY <2>2, <3>1, BattleMoves DEF scheduleVars
  <2>3. ASSUME NEW p \in Proc, Fault(p, Ignored), UNCHANGED scheduleVars
        PROVE  UNCHANGED <<subscriber, reminded>> /\ Moves(p)
               /\ job[p].kind \notin {"subscribe", "unsubscribe"}
    BY <2>3 DEF Fault, UnsubInv, Kinds, scheduleVars, Moves
  <2>4. ASSUME WaitRoomStep
        PROVE  UNCHANGED <<subscriber, reminded>>
               /\ \/ Rest
                  \/ \E p \in Proc : (Moves(p) \/ Slips(p)) /\ job[p].kind \notin {"subscribe", "unsubscribe"}
    <3>1. UNCHANGED <<subscriber, reminded>>
      BY <2>4 DEF WaitRoomStep, HubStep, UpdateWaitRoomCount, scheduleVars
    <3> QED BY <2>4, <3>1, WaitRoomMoves DEF Kind
  <2>5. ASSUME ChatStep, UNCHANGED scheduleVars
        PROVE  UNCHANGED <<subscriber, reminded>>
               /\ \/ Rest
                  \/ \E p \in Proc : (Moves(p) \/ Slips(p)) /\ job[p].kind \notin {"subscribe", "unsubscribe"}
    <3>1. ASSUME NEW p \in Proc, job[p] \in ChatRequests PROVE job[p].kind \notin {"subscribe", "unsubscribe"}
      <4>1. job[p].kind \in ChatKinds
        BY <3>1, RequestKinds
      <4> QED BY <4>1 DEF ChatKinds
    <3>2. Rest \/ \E p \in Proc : (Moves(p) \/ Slips(p)) /\ job[p] \in ChatRequests
      <4>1. CASE HubRegister \/ HubUnregister \/ BrokerStep
        BY <4>1 DEF HubRegister, HubUnregister, BrokerStep, RunRegister, RunUnregister, Rest, callVars
      <4> QED BY <2>5, <4>1, ChatCallMoves DEF ChatStep
    <3> QED BY <2>5, <3>1, <3>2 DEF scheduleVars
  <2> QED BY <1>1, <1>2, <1>3, <1>4, <2>1, <2>2, <2>3, <2>4, <2>5, ScheduleMoves DEF Step
<1>5. CASE Tick /\ UNCHANGED scheduleVars
  BY <1>5 DEF Tick, Rest, scheduleVars
<1>6. CASE UNCHANGED vars
  BY <1>6 DEF vars, Rest, callVars, scheduleVars
<1> QED BY <1>4, <1>5, <1>6 DEF Next

\* A call that was made before p cannot come to be so later, nor p before one that began.
LEMMA BeforeStays ==
  ASSUME CallInv, NEW q \in Proc, RestOf(q), NEW p \in Proc, NEW r \in Proc, fate[p] # "new"
  PROVE  /\ past'[p] = past[p] /\ fate'[p] # "new"
         /\ (fate[r] = "new" => ~Before(r, p)) /\ (Before(r, p)' <=> Before(r, p))
BY DEF RestOf, CallInv, Before, Over

\* The subscribers, and who was reminded.
LEMMA UnsubHolds == Spec => []UnsubInv
<1>1. Init => UnsubInv
  BY DEF Init, CallInit, ScheduleInit, UnsubInv, Done, Reminded, Kind, Kinds
<1>2. CallInv /\ UnsubInv /\ [Next]_vars => UnsubInv'
  <2> SUFFICES ASSUME CallInv, UnsubInv, [Next]_vars PROVE UnsubInv'
    OBVIOUS
  <2>1. ASSUME Rest, UNCHANGED <<subscriber, reminded>> PROVE UnsubInv'
    BY <2>1 DEF Rest, UnsubInv, Kind, Kinds, Done, Reminded, Resubscribed, Before, Sch
  <2>2. ASSUME NEW q \in Proc, RestOf(q)
        PROVE  /\ \A p \in Proc : fate[p] # "new" => fate'[p] # "new" /\ past'[p] = past[p]
               /\ job' = job
               /\ \A p \in Proc : Resubscribed(p) /\ fate[p] # "new" => Resubscribed(p)'
    <3>1. job' = job
      BY <2>2 DEF RestOf
    <3>2. \A p \in Proc : fate[p] # "new" => fate'[p] # "new" /\ past'[p] = past[p]
      BY <2>2 DEF RestOf
    <3> QED BY <3>1, <3>2 DEF Resubscribed, Before, Kind, Sch
  <2>3. ASSUME NEW q \in Proc, RestOf(q), job[q].kind \notin {"subscribe", "unsubscribe"},
               UNCHANGED <<subscriber, reminded>>
        PROVE  UnsubInv'
    <3>1. \A p \in Kinds({"subscribe", "unsubscribe"}) : fate'[p] = fate[p] /\ p \in Proc /\ p # q
      BY <2>3 DEF RestOf, Kinds
    <3>2. \A p \in Proc : Reminded(p)' => Reminded(p)
      BY <2>2, <2>3 DEF Reminded, UnsubInv, Before, Sch
    <3>3. \A p \in Kind("unsubscribe") : p \in Kinds({"subscribe", "unsubscribe"})
      BY DEF Kind, Kinds
    <3>4. Kinds({"subscribe", "unsubscribe"})' = Kinds({"subscribe", "unsubscribe"})
          /\ Kind("unsubscribe")' = Kind("unsubscribe")
      BY <2>2, <2>3 DEF Kind, Kinds
    <3> QED BY <2>2, <2>3, <3>1, <3>2, <3>3, <3>4 DEF UnsubInv, Done, Sch
  <2>4. ASSUME NEW q \in Proc, LogReminder(q) \/ LinkSchedule(q) PROVE UnsubInv'
    <3>7. /\ fate[q] = "running" /\ UNCHANGED subscriber /\ Continue(q)
          /\ \E s, d, k : reminded' = reminded \cup Log(q, s, d, k)
      BY <2>4 DEF LogReminder, LinkSchedule, At
    <3>8. ASSUME NEW s, NEW d, NEW k, NEW r \in Log(q, s, d, k)
          PROVE  r.by = q /\ <<r.user, r.schedule>> \in subscriber
      <4>1. PICK u \in GetSubscribersForSchedule(s) :
              r = [user |-> u, schedule |-> s, date |-> d, by |-> q, is |-> k]
        BY <3>8 DEF Log
      <4>2. <<u, s>> \in subscriber
        BY DEF GetSubscribersForSchedule
      <4>3. r.by = q /\ r.user = u /\ r.schedule = s
        BY <4>1
      <4> QED BY <4>2, <4>3
    <3>1. /\ fate[q] = "running" /\ UNCHANGED subscriber
          /\ \A r \in reminded' : r \in reminded \/ (r.by = q /\ <<r.user, r.schedule>> \in subscriber)
      BY <3>7, <3>8
    <3>2. RestOf(q)
      <4>1. Moves(q)
        BY <3>7 DEF Continue, Hold, Moves
      <4> QED BY <4>1, MoveIsOwn
    <3>3. job[q].kind \notin {"subscribe", "unsubscribe"}
      BY <3>1 DEF UnsubInv, Kinds
    <3>4. ASSUME NEW p \in Kind("unsubscribe"), Done(p)', <<job[p].user, Sch(p)>> \in subscriber' \/ Reminded(p)'
          PROVE  Resubscribed(p)'
      <4>1. p \in Proc /\ p # q /\ Done(p) /\ fate[p] # "new"
        BY <3>2, <3>3, <3>4 DEF Kind, Done, RestOf
      <4>2. <<job[p].user, Sch(p)>> \in subscriber \/ Reminded(p)
        <5>1. ASSUME NEW r \in reminded', r.user = job[p].user, r.schedule = Sch(p), Before(p, r.by)'
              PROVE  <<job[p].user, Sch(p)>> \in subscriber \/ Reminded(p)
          BY <2>2, <3>1, <3>2, <5>1 DEF Reminded, Before, UnsubInv
        <5> QED BY <2>2, <3>1, <3>2, <3>4, <5>1 DEF Reminded, Sch
      <4> QED BY <2>2, <3>2, <4>1, <4>2 DEF UnsubInv
    <3>5. \A r \in reminded' : r.by \in Proc /\ fate'[r.by] # "new"
      BY <2>2, <3>1, <3>2 DEF UnsubInv
    <3>6. \A p \in Kinds({"subscribe", "unsubscribe"}) : fate'[p] # "running"
      BY <3>2, <3>3 DEF UnsubInv, Kinds, RestOf
    <3> QED BY <2>2, <3>2, <3>4, <3>5, <3>6 DEF UnsubInv, Kind, Kinds, Sch
  <2>5. ASSUME NEW q \in Proc, Subscription(q) PROVE UnsubInv'
    <3>1. /\ fate[q] = "new" /\ UNCHANGED reminded /\ Return(q)
          /\ \/ job[q].kind = "subscribe" /\ subscriber' = subscriber \cup {<<job[q].user, Sch(q)>>}
             \/ job[q].kind = "unsubscribe" /\ subscriber' = subscriber \ {<<job[q].user, Sch(q)>>}
      BY <2>5 DEF Subscription, Asked
    <3>2. RestOf(q) /\ fate'[q] = "done" /\ past'[q] = Ended
      <4>1. Moves(q)
        BY <3>1 DEF Return, Moves
      <4> QED BY <3>1, <4>1, MoveIsOwn DEF Return, Begin, Begins, Follow, CallInv, CallTypeOK
    <3>3. \A p \in Proc : Reminded(p)' => Reminded(p)
      BY <2>2, <3>1, <3>2 DEF Reminded, UnsubInv, Before, Sch
    <3>4. \A p \in Proc : Reminded(p) => fate[p] \in Over
      BY DEF Reminded, UnsubInv, Before, CallInv
    <3>5. ASSUME NEW p \in Kind("unsubscribe"), Done(p)', <<job[p].user, Sch(p)>> \in subscriber' \/ Reminded(p)'
          PROVE  Resubscribed(p)'
      <4>1. p \in Proc /\ job[p].kind = "unsubscribe"
        BY DEF Kind
      <4>2. CASE p = q
        BY <3>1, <3>3, <3>4, <3>5, <4>1, <4>2 DEF Over, Sch
      <4>3. CASE p # q /\ (<<job[p].user, Sch(p)>> \in subscriber \/ Reminded(p))
        <5>1. Done(p) /\ fate[p] # "new"
          BY <3>2, <3>5, <4>1, <4>3 DEF RestOf, Done
        <5> QED BY <2>2, <3>2, <4>1, <4>3, <5>1 DEF UnsubInv
      <4>4. CASE /\ p # q /\ <<job[p].user, Sch(p)>> \notin subscriber /\ ~Reminded(p)
        <5>1. job[q].kind = "subscribe" /\ job[p].user = job[q].user /\ Sch(p) = Sch(q)
          BY <2>2, <3>1, <3>2, <3>3, <3>5, <4>1, <4>4 DEF Sch
        <5>2. Done(p) /\ fate[p] # "new" /\ fate'[q] # "new"
          BY <3>2, <3>5, <4>1, <4>4 DEF RestOf, Done
        <5>3. q \notin past'[p]
          BY <2>2, <3>1, <3>2, <4>1, <5>2 DEF CallInv, Over
        <5> QED BY <2>2, <3>2, <5>1, <5>2, <5>3 DEF Resubscribed, Kind, Before, Sch
      <4> QED BY <4>2, <4>3, <4>4
    <3>6. \A r \in reminded' : r.by \in Proc /\ fate'[r.by] # "new"
      BY <2>2, <3>1, <3>2 DEF UnsubInv
    <3>7. \A p \in Kinds({"subscribe", "unsubscribe"}) : fate'[p] # "running"
      BY <3>2 DEF UnsubInv, Kinds, RestOf
    <3> QED BY <2>2, <3>2, <3>5, <3>6, <3>7 DEF UnsubInv, Kind, Kinds, Sch
  <2> QED BY <2>1, <2>3, <2>4, <2>5, OthersRemindNobody
<1> QED BY <1>1, <1>2, CallsHold, PTL DEF Spec

\* Whoever has unsubscribed is told of no date, to come or begun, by a call that begins
\* later, unless a call that subscribes began after it or at the same time.
THEOREM UnsubscribedAreLeft == Spec => []UnsubscribedIsLeftAlone
<1>1. UnsubInv => UnsubscribedIsLeftAlone
  BY DEF UnsubInv, UnsubscribedIsLeftAlone, Reminded, Resubscribed, Kind, Done
<1> QED BY <1>1, UnsubHolds, PTL

-----------------------------------------------------------------------------
(***************************************************************************)
(* Schedules: what a call has still to do, and what it holds for that, by  *)
(* its kind.                                                               *)
(***************************************************************************)
ScheduleKinds == {"createSchedule", "updateSchedule", "cancelSchedule", "cancelOccurrence",
                  "subscribe", "unsubscribe", "refill", "remind"}
ScheduleRow == [status : {"none", "scheduled", "cancelled", "live"}, host : Host, rule : Rule]
OccurrenceRow == [status : {"none", "upcoming", "cancelled", "live", "missed"}, start : Nat, opened : BOOLEAN]
Due == [schedule : Schedule, date : Date, start : Nat]
Read == [schedule : Schedule, date : Date, row : OccurrenceRow]
Insertion == Seq({"insertOccurrence"})

\* The rest of a reminder: of the one at hand, of the others, and then the late ones.
ToLog == <<"log", "remindNext", "markMissed">>
ToOpen == <<"openRoom", "log", "remindNext", "markMissed">>
ToWrite == <<"writeOccurrence", "openRoom", "log", "remindNext", "markMissed">>
RemindFits(s, v) == \/ s = <<"markMissed">>
                    \/ s = <<"remindNext", "markMissed">> /\ v.rows \subseteq Read
                    \/ s \in {ToLog, ToOpen, ToWrite} /\ v.rows \subseteq Read /\ v.of \in Read

Inserting(s, v) == s \in Insertion /\ v.todo \subseteq Due
UpdateFits(s, v) ==
  \/ s \in {<<"updateSchedule">>, <<"updateSchedule", "cancelFuture", "generate">>} /\ v.row \in ScheduleRow
  \/ s \in {<<"cancelFuture", "generate">>, <<"generate">>}
  \/ Inserting(s, v)

ScheduleFits(p, s, v) ==
  /\ job[p].kind \notin {"subscribe", "unsubscribe"}
  /\ job[p].kind = "createSchedule" =>
       s \in {<<"insertSchedule", "generate">>, <<"generate">>} \/ Inserting(s, v)
  /\ job[p].kind = "updateSchedule" => UpdateFits(s, v)
  /\ job[p].kind = "cancelSchedule" => s \in {<<"deleteSchedule", "cancelFuture">>, <<"cancelFuture">>}
  /\ job[p].kind = "cancelOccurrence" => s = <<"cancelOne">>
  /\ job[p].kind = "refill" => Inserting(s, v)
  /\ job[p].kind = "remind" => RemindFits(s, v)

\* The statement h that p is at, and what is left after it.
Reminding(h, t, v) ==
  \/ h = "markMissed" /\ t = <<>>
  \/ h = "remindNext" /\ t = <<"markMissed">> /\ v.rows \subseteq Read
  \/ /\ v.rows \subseteq Read /\ v.of \in Read
     /\ \/ h = "writeOccurrence" /\ t = ToOpen
        \/ h = "openRoom" /\ t = ToLog
        \/ h = "log" /\ t = <<"remindNext", "markMissed">>
ScheduleStatement(p, h, t, v) ==
  \/ job[p].kind = "createSchedule" /\ h = "insertSchedule" /\ t = <<"generate">>
  \/ job[p].kind \in {"createSchedule", "updateSchedule"} /\ h = "generate" /\ t = <<>>
  \/ /\ job[p].kind \in {"createSchedule", "updateSchedule", "refill"}
     /\ h = "insertOccurrence" /\ t \in Insertion /\ v.todo \subseteq Due
  \/ /\ job[p].kind = "updateSchedule" /\ h = "updateSchedule" /\ v.row \in ScheduleRow
     /\ t \in {<<>>, <<"cancelFuture", "generate">>}
  \/ job[p].kind = "updateSchedule" /\ h = "cancelFuture" /\ t = <<"generate">>
  \/ job[p].kind = "cancelSchedule" /\ h = "deleteSchedule" /\ t = <<"cancelFuture">>
  \/ job[p].kind = "cancelSchedule" /\ h = "cancelFuture" /\ t = <<>>
  \/ job[p].kind = "cancelOccurrence" /\ h = "cancelOne" /\ t = <<>>
  \/ job[p].kind = "remind" /\ Reminding(h, t, v)

Told == [user : Viewer, schedule : Schedule, date : Date, by : Proc, is : {"tier", "start"}]

\* The rows of the schedules, but for those of the rooms.
RowsTypeOK == /\ schedule \in [Schedule -> ScheduleRow]
              /\ occurrence \in [Schedule -> [Date -> OccurrenceRow]]
              /\ subscriber \subseteq Viewer \X Schedule
              /\ reminded \subseteq Told

Suits(p) == fate[p] = "running" => ScheduleFits(p, plan[p], seen[p])
ScheduleInv == RowsTypeOK /\ \A p \in Kinds(ScheduleKinds) : Suits(p)

\* Those who subscribe are told.
LEMMA LogIsTold ==
  ASSUME NEW p \in Proc, NEW s \in Schedule, NEW d \in Date, NEW k \in {"tier", "start"}
  PROVE  Log(p, s, d, k) \subseteq Told
<1>1. ASSUME NEW u \in Viewer
      PROVE  [user |-> u, schedule |-> s, date |-> d, by |-> p, is |-> k] \in Told
  BY SMT DEF Told
<1>2. GetSubscribersForSchedule(s) \subseteq Viewer
  BY DEF GetSubscribersForSchedule
<1> QED BY <1>1, <1>2 DEF Log

\* A longer sequence, taken apart.
LEMMA TailOfToWrite == Head(ToWrite) = "writeOccurrence" /\ Tail(ToWrite) = ToOpen /\ ToWrite # <<>>
BY DEF ToWrite, ToOpen

\* An insertion goes on as one.
LEMMA InsertNext ==
  ASSUME NEW s \in Insertion, s # <<>>
  PROVE  Head(s) = "insertOccurrence" /\ Tail(s) \in Insertion
BY DEF Insertion

\* The statements of a reminder.
LEMMA RemindNexts ==
  ASSUME NEW s, NEW v, RemindFits(s, v)
  PROVE  Reminding(Head(s), Tail(s), v) /\ s # <<>>
<1>1. CASE s = <<"markMissed">>
  BY <1>1, TailOf1, Zenon DEF Reminding
<1>2. CASE s = <<"remindNext", "markMissed">> /\ v.rows \subseteq Read
  BY <1>2, TailOf2, Zenon DEF Reminding
<1>3. CASE s = ToLog /\ v.rows \subseteq Read /\ v.of \in Read
  <2>1. Head(s) = "log" /\ Tail(s) = <<"remindNext", "markMissed">> /\ s # <<>>
    BY <1>3, TailOf3, Zenon DEF ToLog
  <2> QED BY <1>3, <2>1, Zenon DEF Reminding
<1>4. CASE s = ToOpen /\ v.rows \subseteq Read /\ v.of \in Read
  <2>1. Head(s) = "openRoom" /\ Tail(s) = ToLog /\ s # <<>>
    BY <1>4, TailOf4, Zenon DEF ToOpen, ToLog
  <2> QED BY <1>4, <2>1, Zenon DEF Reminding
<1>5. CASE s = ToWrite /\ v.rows \subseteq Read /\ v.of \in Read
  <2>1. Head(s) = "writeOccurrence" /\ Tail(s) = ToOpen /\ s # <<>>
    BY <1>5, TailOfToWrite, Zenon
  <2> QED BY <1>5, <2>1, Zenon DEF Reminding
<1> QED BY <1>1, <1>2, <1>3, <1>4, <1>5 DEF RemindFits

\* The statement a running call is at.
LEMMA ScheduleAt ==
  ASSUME CallInv, ScheduleInv, NEW p \in Proc, job[p].kind \in ScheduleKinds, fate[p] = "running"
  PROVE  ScheduleFits(p, plan[p], seen[p]) /\ ScheduleStatement(p, Head(plan[p]), Tail(plan[p]), seen[p])
<1> DEFINE k == job[p].kind  s == plan[p]  h == Head(plan[p])  t == Tail(plan[p])  v == seen[p]
<1>1. ScheduleFits(p, s, v)
  BY DEF ScheduleInv, Suits, Kinds
<1>2. s # <<>>
  BY DEF CallInv, CallTypeOK
<1>9. SUFFICES ScheduleStatement(p, h, t, v)
  BY <1>1
<1>3. CASE Inserting(s, v) /\ k \in {"createSchedule", "updateSchedule", "refill"}
  <2>1. h = "insertOccurrence" /\ t \in Insertion /\ v.todo \subseteq Due
    BY <1>2, <1>3, InsertNext DEF Inserting
  <2> HIDE DEF h, t, v
  <2> QED BY <1>3, <2>1 DEF ScheduleStatement
<1>4. CASE k = "createSchedule" /\ s = <<"insertSchedule", "generate">>
  BY <1>4, TailOf2, Zenon DEF ScheduleStatement
<1>5. CASE k \in {"createSchedule", "updateSchedule"} /\ s = <<"generate">>
  BY <1>5, TailOf1, Zenon DEF ScheduleStatement
<1>6. CASE k = "updateSchedule" /\ s = <<"updateSchedule">> /\ v.row \in ScheduleRow
  <2>1. h = "updateSchedule" /\ t \in {<<>>, <<"cancelFuture", "generate">>}
    BY <1>6, TailOf1, Zenon
  <2> QED BY <1>6, <2>1, Zenon DEF ScheduleStatement
<1>7. CASE /\ k = "updateSchedule" /\ s = <<"updateSchedule", "cancelFuture", "generate">>
           /\ v.row \in ScheduleRow
  <2>2. h = "updateSchedule" /\ t = <<"cancelFuture", "generate">>
    <3>1. s = <<"updateSchedule", "cancelFuture", "generate">>
      BY <1>7
    <3> QED BY <3>1, TailOf3, Zenon
  <2>1. h = "updateSchedule" /\ t \in {<<>>, <<"cancelFuture", "generate">>}
    BY <2>2, Zenon
  <2> QED BY <1>7, <2>1, Zenon DEF ScheduleStatement
<1>8. CASE k = "updateSchedule" /\ s = <<"cancelFuture", "generate">>
  BY <1>8, TailOf2, Zenon DEF ScheduleStatement
<1>10. CASE k = "cancelSchedule" /\ s = <<"deleteSchedule", "cancelFuture">>
  BY <1>10, TailOf2, Zenon DEF ScheduleStatement
<1>11. CASE k = "cancelSchedule" /\ s = <<"cancelFuture">>
  BY <1>11, TailOf1, Zenon DEF ScheduleStatement
<1>12. CASE k = "cancelOccurrence" /\ s = <<"cancelOne">>
  BY <1>12, TailOf1, Zenon DEF ScheduleStatement
<1>13. CASE k = "remind" /\ RemindFits(s, v)
  BY <1>13, RemindNexts, Zenon DEF ScheduleStatement
<1> QED BY <1>1, <1>3, <1>4, <1>5, <1>6, <1>7, <1>8, <1>10, <1>11, <1>12, <1>13
        DEF ScheduleFits, UpdateFits, ScheduleKinds

\* The dates a rule has still to come are finitely many.
LEMMA ComingIsFinite ==
  ASSUME NEW s \in Schedule, NEW r \in Rule
  PROVE  IsFiniteSet(Coming(s, r)) /\ Coming(s, r) \subseteq Due
<1> DEFINE D == {e \in DOMAIN StartsOf[r] : StartsOf[r][e] >= now}
           g == [d \in D |-> [schedule |-> s, date |-> d, start |-> StartsOf[r][d]]]
<1>1. IsFiniteSet(D)
  <2>1. IsFiniteSet(DOMAIN StartsOf[r])
    BY ScheduleAssumption DEF Rule
  <2> QED BY <2>1, FS_Subset
<1>2. g \in Surjection(D, Coming(s, r))
  BY DEF Surjection, Coming
<1>3. ASSUME NEW d \in D PROVE d \in Date /\ StartsOf[r][d] \in Nat
  <2>1. d \in Date
    BY DEF Date, Rule
  <2>2. StartsOf[r][d] \in Nat
    BY ScheduleAssumption DEF Rule
  <2> QED BY <2>1, <2>2
<1> QED BY <1>1, <1>2, <1>3, FS_Surjection DEF Coming, Due

\* One INSERT for each of a finite set.
LEMMA InsertsAreSome ==
  ASSUME NEW S, IsFiniteSet(S)
  PROVE  Inserts(S) \in Insertion
<1>1. Cardinality(S) \in Nat
  BY FS_CardinalityType
<1> QED BY <1>1 DEF Inserts, Insertion

\* A call that goes on to what it may have left to do.
LEMMA FollowSuits ==
  ASSUME CallInv, NEW p \in Proc, NEW s, NEW v, Follow(p, s, v), s = <<>> \/ ScheduleFits(p, s, v)
  PROVE  Suits(p)'
<1>1. /\ plan'[p] = s /\ job' = job /\ seen'[p] = (IF s = <<>> THEN Nothing ELSE v)
      /\ fate'[p] = (IF s = <<>> THEN "done" ELSE "running")
  BY DEF Follow, CallInv, CallTypeOK
<1>2. CASE s = <<>>
  BY <1>1, <1>2 DEF Suits
<1>3. CASE s # <<>> /\ ScheduleFits(p, s, v)
  <2>1. plan'[p] = s /\ seen'[p] = v /\ job' = job
    BY <1>1, <1>3
  <2> QED BY <1>3, <2>1 DEF Suits, ScheduleFits, UpdateFits, RemindFits, Inserting
<1> QED BY <1>2, <1>3

\* A call that breaks off has nothing left to do.
LEMMA BreakSuits ==
  ASSUME CallInv, NEW p \in Proc, Break(p)
  PROVE  Suits(p)'
BY DEF Break, Suits, CallInv, CallTypeOK

\* What a schedule request names.
LEMMA ScheduleJob ==
  ASSUME CallInv, NEW p \in Proc, job[p].kind \in ScheduleKinds
  PROVE  /\ job[p] \in ScheduleRequests
         /\ job[p].kind \notin {"refill", "remind"} => Sch(p) \in Schedule
         /\ job[p].kind \in {"createSchedule", "updateSchedule"} => job[p].user \in Host /\ job[p].rule \in Rule
         /\ job[p].kind \in {"subscribe", "unsubscribe"} => job[p].user \in Viewer
         /\ job[p].kind = "cancelOccurrence" => job[p].date \in Date
<1>1. job[p] \in ScheduleRequests
  <2>1. job[p] \notin StreamRequests /\ job[p] \notin BattleRequests /\ job[p] \notin WaitRoomRequests
    BY RequestKinds DEF ScheduleKinds
  <2>2. job[p] \notin ChatRequests
    <3>1. job[p].kind \notin ChatKinds
      BY DEF ChatKinds, ScheduleKinds
    <3> QED BY <3>1, RequestKinds
  <2>3. job[p] # [kind |-> "none"]
    BY DEF ScheduleKinds
  <2> QED BY <2>1, <2>2, <2>3, JobOf
<1> QED BY <1>1 DEF ScheduleRequests, CreateScheduleRequest, UpdateScheduleRequest, CancelScheduleRequest,
                CancelOccurrenceRequest, SubscribeReminderRequest, UnsubscribeReminderRequest, Sch

\* A set of finitely many dates: what a refill inserts.
LEMMA RefillIsFinite ==
  ASSUME RowsTypeOK
  PROVE  LET todo == UNION {Coming(s, schedule[s].rule) : s \in GetActiveRecurringSchedules}
         IN  IsFiniteSet(todo) /\ todo \subseteq Due
<1> DEFINE A == GetActiveRecurringSchedules
           T == {Coming(s, schedule[s].rule) : s \in A}
           g == [s \in A |-> Coming(s, schedule[s].rule)]
<1>1. A \subseteq Schedule
  BY DEF GetActiveRecurringSchedules
<1>2. IsFiniteSet(A)
  BY <1>1, FS_Subset, ScheduleAssumption
<1>3. g \in Surjection(A, T)
  BY DEF Surjection
<1>4. \A s \in A : schedule[s].rule \in Rule
  BY <1>1 DEF RowsTypeOK, ScheduleRow
<1>5. \A s \in A : IsFiniteSet(Coming(s, schedule[s].rule)) /\ Coming(s, schedule[s].rule) \subseteq Due
  BY <1>1, <1>4, ComingIsFinite
<1>6. IsFiniteSet(T)
  BY <1>2, <1>3, FS_Surjection
<1>7. \A C \in T : IsFiniteSet(C) /\ C \subseteq Due
  BY <1>5
<1> HIDE DEF T
<1>8. IsFiniteSet(UNION T) /\ UNION T \subseteq Due
  BY <1>6, <1>7, FS_UNION
<1> QED BY <1>8 DEF T

\* The calls begin with what they may have to do.
LEMMA ScheduleBegins ==
  ASSUME CallInv, ScheduleInv, NEW p \in Proc, job[p].kind \in ScheduleKinds,
         \/ CreateSchedule(p) \/ UpdateSchedule(p) \/ CancelSchedule(p) \/ CancelOccurrence(p)
         \/ RefillAllOccurrences(p) \/ Subscription(p) \/ CheckAndSendTieredReminders(p)
  PROVE  Suits(p)' /\ RowsTypeOK'
<1> USE DEF Asked, Begin, Refuse, Return
<1>1. UNCHANGED scheduleVars => RowsTypeOK'
  BY DEF ScheduleInv, RowsTypeOK, scheduleVars
<1>2. CASE CreateSchedule(p)
  <2>1. job[p].kind = "createSchedule" /\ UNCHANGED scheduleVars
        /\ (Break(p) \/ Follow(p, <<"insertSchedule", "generate">>, Nothing))
    BY <1>2 DEF CreateSchedule
  <2>2. ScheduleFits(p, <<"insertSchedule", "generate">>, Nothing)
    BY <2>1 DEF ScheduleFits
  <2> QED BY <1>1, <2>1, <2>2, FollowSuits, BreakSuits
<1>3. CASE UpdateSchedule(p)
  <2>1. job[p].kind = "updateSchedule" /\ UNCHANGED scheduleVars
    BY <1>3 DEF UpdateSchedule
  <2> DEFINE r == schedule[Sch(p)]  v == [row |-> [r EXCEPT !.rule = job[p].rule]]
  <2>2. v.row \in ScheduleRow
    <3>1. r \in ScheduleRow /\ job[p].rule \in Rule
      BY <2>1, ScheduleJob DEF ScheduleInv, RowsTypeOK
    <3> QED BY <3>1 DEF ScheduleRow
  <2>3. \/ Break(p)
        \/ Follow(p, <<"updateSchedule">> \o <<"cancelFuture", "generate">>, v)
        \/ Follow(p, <<"updateSchedule">> \o <<>>, v)
    BY <1>3 DEF UpdateSchedule
  <2>4. <<"updateSchedule">> \o <<"cancelFuture", "generate">> = <<"updateSchedule", "cancelFuture", "generate">>
    BY Joins2
  <2>5. <<"updateSchedule">> \o <<>> = <<"updateSchedule">>
    <3>1. <<"updateSchedule">> \in Seq({"updateSchedule"})
      OBVIOUS
    <3> QED BY <3>1, ConcatEmptySeq
  <2> HIDE DEF v
  <2>6. /\ ScheduleFits(p, <<"updateSchedule", "cancelFuture", "generate">>, v)
        /\ ScheduleFits(p, <<"updateSchedule">>, v)
    BY <2>1, <2>2 DEF ScheduleFits, UpdateFits
  <2> QED BY <1>1, <2>1, <2>3, <2>4, <2>5, <2>6, FollowSuits, BreakSuits
<1>4. CASE CancelSchedule(p) \/ CancelOccurrence(p)
  <2>1. /\ UNCHANGED scheduleVars
        /\ \/ Break(p)
           \/ job[p].kind = "cancelSchedule" /\ Follow(p, <<"deleteSchedule", "cancelFuture">>, Nothing)
           \/ job[p].kind = "cancelOccurrence" /\ Follow(p, <<"cancelOne">>, Nothing)
    BY <1>4 DEF CancelSchedule, CancelOccurrence
  <2>2. /\ job[p].kind = "cancelSchedule" => ScheduleFits(p, <<"deleteSchedule", "cancelFuture">>, Nothing)
        /\ job[p].kind = "cancelOccurrence" => ScheduleFits(p, <<"cancelOne">>, Nothing)
    BY DEF ScheduleFits
  <2> QED BY <1>1, <2>1, <2>2, FollowSuits, BreakSuits
<1>5. CASE RefillAllOccurrences(p)
  <2> DEFINE todo == UNION {Coming(s, schedule[s].rule) : s \in GetActiveRecurringSchedules}
  <2>1. job[p].kind = "refill" /\ UNCHANGED scheduleVars /\ Follow(p, Inserts(todo), [todo |-> todo])
    BY <1>5 DEF RefillAllOccurrences
  <2>2. IsFiniteSet(todo) /\ todo \subseteq Due
    BY RefillIsFinite DEF ScheduleInv
  <2> HIDE DEF todo
  <2>3. ScheduleFits(p, Inserts(todo), [todo |-> todo])
    <3>1. Inserts(todo) \in Insertion
      BY <2>2, InsertsAreSome
    <3> QED BY <2>1, <2>2, <3>1 DEF ScheduleFits, Inserting
  <2> QED BY <1>1, <2>1, <2>3, FollowSuits
<1>6. CASE Subscription(p)
  <2>1. Follow(p, <<>>, Nothing) /\ UNCHANGED <<schedule, occurrence, reminded>>
    BY <1>6 DEF Subscription
  <2>2. Sch(p) \in Schedule /\ job[p].user \in Viewer
    BY <1>6, ScheduleJob DEF Subscription
  <2>3. subscriber' \subseteq Viewer \X Schedule
    <3>1. subscriber \subseteq Viewer \X Schedule
      BY DEF ScheduleInv, RowsTypeOK
    <3> QED BY <1>6, <2>2, <3>1 DEF Subscription
  <2> QED BY <2>1, <2>3, FollowSuits DEF ScheduleInv, RowsTypeOK
<1>7. CASE CheckAndSendTieredReminders(p)
  <2> DEFINE O == {o \in Schedule \X Date : /\ occurrence[o[1]][o[2]].status = "upcoming"
                                            /\ occurrence[o[1]][o[2]].start >= now}
             v == [rows |-> {[schedule |-> o[1], date |-> o[2], row |-> occurrence[o[1]][o[2]]] : o \in O}]
  <2>1. job[p].kind = "remind" /\ UNCHANGED scheduleVars /\ Follow(p, <<"remindNext", "markMissed">>, v)
    BY <1>7 DEF CheckAndSendTieredReminders
  <2>2. v.rows \subseteq Read
    <3>1. \A o \in O : o[1] \in Schedule /\ o[2] \in Date /\ occurrence[o[1]][o[2]] \in OccurrenceRow
      BY DEF ScheduleInv, RowsTypeOK
    <3> QED BY <3>1 DEF Read
  <2> HIDE DEF v
  <2>3. ScheduleFits(p, <<"remindNext", "markMissed">>, v)
    BY <2>1, <2>2 DEF ScheduleFits, RemindFits
  <2> QED BY <1>1, <2>1, <2>3, FollowSuits
<1> QED BY <1>2, <1>3, <1>4, <1>5, <1>6, <1>7

\* Short sequences, put together.
LEMMA Joins5 == \A a, b, c, d, e : <<a, b, c>> \o <<d, e>> = <<a, b, c, d, e>>
<1> TAKE a, b, c, d, e
<1> DEFINE S == {a, b, c, d, e}  x == <<a, b, c>>  y == <<d, e>>  q == x \o y  z == <<a, b, c, d, e>>
<1>1. /\ x \in Seq(S) /\ Len(x) = 3 /\ y \in Seq(S) /\ Len(y) = 2
      /\ x[1] = a /\ x[2] = b /\ x[3] = c /\ y[1] = d /\ y[2] = e
  OBVIOUS
<1>2. z \in Seq(S) /\ Len(z) = 5 /\ z[1] = a /\ z[2] = b /\ z[3] = c /\ z[4] = d /\ z[5] = e
  OBVIOUS
<1> HIDE DEF S, x, y, z
<1>3. q \in Seq(S) /\ Len(q) = 5 /\ q[1] = a /\ q[2] = b /\ q[3] = c /\ q[4] = d /\ q[5] = e
  <2>1. /\ x \o y \in Seq(S) /\ Len(x \o y) = Len(x) + Len(y)
        /\ \A i \in 1..(Len(x) + Len(y)) : (x \o y)[i] = IF i <= Len(x) THEN x[i] ELSE y[i - Len(x)]
    BY <1>1, ConcatProperties
  <2> QED BY <1>1, <2>1
<1> HIDE DEF q
<1>4. \A i \in 1..Len(q) : q[i] = z[i]
  BY <1>2, <1>3
<1>5. q = z
  BY <1>2, <1>3, <1>4, SameSeq
<1> QED BY <1>5 DEF q, x, y, z

\* What is left of a plan, with what is held for it.
Rests(p, h, v) == Tail(plan[p]) = <<>> \/ ScheduleFits(p, Tail(plan[p]), v)

\* A statement leaves what its call may have left to do.
LEMMA RestSuits ==
  ASSUME CallInv, ScheduleInv, NEW p \in Proc, job[p].kind \in ScheduleKinds, fate[p] = "running",
         Head(plan[p]) \notin {"insertOccurrence", "remindNext"}
  PROVE  Rests(p, Head(plan[p]), seen[p])
<1> DEFINE h == Head(plan[p])  t == Tail(plan[p])  v == seen[p]
<1>1. ScheduleStatement(p, h, t, v)
  BY ScheduleAt
<1> SUFFICES t = <<>> \/ ScheduleFits(p, t, v)
  BY DEF Rests
<1>2. h \notin {"insertOccurrence", "remindNext"}
  OBVIOUS
<1> HIDE DEF h, t, v
<1> QED BY <1>1, <1>2 DEF ScheduleStatement, Reminding, ScheduleFits, UpdateFits, RemindFits

\* The rows of the schedules and of their dates are written.
LEMMA ScheduleWrites ==
  ASSUME CallInv, ScheduleInv, NEW p \in Proc, job[p].kind \in ScheduleKinds,
         \/ InsertSchedule(p) \/ WriteSchedule(p) \/ Delete(p)
         \/ CancelFutureOccurrences(p) \/ CancelSingleOccurrence(p) \/ MarkMissedOccurrences(p)
  PROVE  Suits(p)' /\ RowsTypeOK'
<1> USE DEF At, Go, Hold, Continue
<1>1. /\ fate[p] = "running"
      /\ Head(plan[p]) \in {"insertSchedule", "updateSchedule", "deleteSchedule", "cancelFuture", "cancelOne", "markMissed"}
      /\ Follow(p, Tail(plan[p]), seen[p])
  BY DEF InsertSchedule, WriteSchedule, Delete, CancelFutureOccurrences, CancelSingleOccurrence,
         MarkMissedOccurrences
<1>2. Suits(p)'
  <2>1. Tail(plan[p]) = <<>> \/ ScheduleFits(p, Tail(plan[p]), seen[p])
    BY <1>1, RestSuits DEF Rests
  <2> QED BY <1>1, <2>1, FollowSuits
<1>3. ScheduleStatement(p, Head(plan[p]), Tail(plan[p]), seen[p])
  BY <1>1, ScheduleAt
<1>4. /\ schedule \in [Schedule -> ScheduleRow] /\ occurrence \in [Schedule -> [Date -> OccurrenceRow]]
      /\ RowsTypeOK
  BY DEF ScheduleInv, RowsTypeOK
<1>5. ASSUME NEW r \in ScheduleRow, NEW s, SetSchedule(s, r) PROVE RowsTypeOK'
  BY <1>4, <1>5 DEF SetSchedule, RowsTypeOK
<1>6. CASE InsertSchedule(p)
  <2>1. job[p].kind = "createSchedule"
    BY <1>3, <1>6 DEF InsertSchedule, ScheduleStatement, Reminding
  <2>2. job[p].user \in Host /\ job[p].rule \in Rule
    BY <2>1, ScheduleJob
  <2>3. [status |-> "scheduled", host |-> job[p].user, rule |-> job[p].rule] \in ScheduleRow
    BY <2>2 DEF ScheduleRow
  <2> QED BY <1>2, <1>5, <1>6, <2>3 DEF InsertSchedule
<1>7. CASE WriteSchedule(p)
  <2>1. seen[p].row \in ScheduleRow
    BY <1>3, <1>7 DEF WriteSchedule, ScheduleStatement, Reminding
  <2> QED BY <1>2, <1>5, <1>7, <2>1 DEF WriteSchedule
<1>8. CASE Delete(p)
  <2>1. job[p].kind = "cancelSchedule"
    BY <1>3, <1>8 DEF Delete, ScheduleStatement, Reminding
  <2>2. Sch(p) \in Schedule
    BY <2>1, ScheduleJob
  <2>3. [schedule[Sch(p)] EXCEPT !.status = "cancelled"] \in ScheduleRow
    BY <1>4, <2>2 DEF ScheduleRow
  <2> QED BY <1>2, <1>5, <1>8, <2>3 DEF Delete
<1>9. ASSUME NEW s, NEW S, NEW k \in {"cancelled"}, Mark(s, S, k), UNCHANGED <<schedule, subscriber, reminded>>
      PROVE  RowsTypeOK'
  <2> DEFINE f == [d \in Date |-> IF d \in S /\ occurrence[s][d].status = "upcoming"
                                  THEN [occurrence[s][d] EXCEPT !.status = k] ELSE occurrence[s][d]]
  <2>1. occurrence' = [occurrence EXCEPT ![s] = f]
    BY <1>9 DEF Mark
  <2>2. CASE s \in Schedule
    <3>1. ASSUME NEW o \in OccurrenceRow PROVE [o EXCEPT !.status = k] \in OccurrenceRow
      BY DEF OccurrenceRow
    <3>2. \A d \in Date : occurrence[s][d] \in OccurrenceRow
      BY <1>4, <2>2
    <3>3. f \in [Date -> OccurrenceRow]
      BY <3>1, <3>2
    <3> HIDE DEF f
    <3>4. occurrence' \in [Schedule -> [Date -> OccurrenceRow]]
      BY <1>4, <2>1, <3>3
    <3> QED BY <1>4, <1>9, <3>4 DEF RowsTypeOK
  <2>3. CASE s \notin Schedule
    <3> HIDE DEF f
    <3>1. occurrence' = occurrence
      BY <1>4, <2>1, <2>3
    <3> QED BY <1>4, <1>9, <3>1 DEF RowsTypeOK
  <2> QED BY <2>2, <2>3
<1>10. CASE CancelFutureOccurrences(p)
  BY <1>2, <1>9, <1>10 DEF CancelFutureOccurrences
<1>11. CASE CancelSingleOccurrence(p)
  BY <1>2, <1>9, <1>11 DEF CancelSingleOccurrence
<1>12. CASE MarkMissedOccurrences(p)
  <2>1. ASSUME NEW o \in OccurrenceRow PROVE [o EXCEPT !.status = "missed"] \in OccurrenceRow
    BY DEF OccurrenceRow
  <2>2. occurrence' \in [Schedule -> [Date -> OccurrenceRow]]
    <3>1. \A s \in Schedule, d \in Date : occurrence[s][d] \in OccurrenceRow
      BY <1>4
    <3>2. occurrence' = [s \in Schedule |-> [d \in Date |->
            IF occurrence[s][d].status = "upcoming" /\ occurrence[s][d].start + Late < now
            THEN [occurrence[s][d] EXCEPT !.status = "missed"] ELSE occurrence[s][d]]]
      BY <1>12 DEF MarkMissedOccurrences
    <3> QED BY <2>1, <3>1, <3>2
  <2> QED BY <1>2, <1>4, <1>12, <2>2 DEF MarkMissedOccurrences, RowsTypeOK
<1> QED BY <1>6, <1>7, <1>8, <1>10, <1>11, <1>12

\* One date is written.
LEMMA DateIsWritten ==
  ASSUME RowsTypeOK, NEW s \in Schedule, NEW d \in Date, NEW o \in OccurrenceRow,
         occurrence' = [occurrence EXCEPT ![s][d] = o], UNCHANGED <<schedule, subscriber, reminded>>
  PROVE  RowsTypeOK'
BY DEF RowsTypeOK

\* The dates of a schedule are inserted.
LEMMA ScheduleInserts ==
  ASSUME CallInv, ScheduleInv, NEW p \in Proc, job[p].kind \in ScheduleKinds,
         GenerateOccurrences(p) \/ CreateOccurrence(p)
  PROVE  Suits(p)' /\ RowsTypeOK'
<1> USE DEF At, Go, Hold, Continue
<1>1. fate[p] = "running"
  BY DEF GenerateOccurrences, CreateOccurrence, InsertOne
<1>2. ScheduleStatement(p, Head(plan[p]), Tail(plan[p]), seen[p]) /\ RowsTypeOK
  BY <1>1, ScheduleAt DEF ScheduleInv
<1>3. CASE GenerateOccurrences(p)
  <2>1. job[p].kind \in {"createSchedule", "updateSchedule"}
    BY <1>2, <1>3 DEF GenerateOccurrences, ScheduleStatement, Reminding
  <2>2. Sch(p) \in Schedule /\ job[p].rule \in Rule
    BY <2>1, ScheduleJob
  <2> DEFINE todo == Coming(Sch(p), job[p].rule)
  <2>3. PICK s \in Schedule : s = Sch(p)
    BY <2>2
  <2>4. PICK r \in Rule : r = job[p].rule
    BY <2>2
  <2>5. IsFiniteSet(todo) /\ todo \subseteq Due
    BY <2>3, <2>4, ComingIsFinite
  <2>6. Follow(p, Inserts(todo), [todo |-> todo]) /\ UNCHANGED scheduleVars
    BY <1>3 DEF GenerateOccurrences
  <2> HIDE DEF todo
  <2>7. ScheduleFits(p, Inserts(todo), [todo |-> todo])
    <3>1. Inserts(todo) \in Insertion
      BY <2>5, InsertsAreSome
    <3> QED BY <2>1, <2>5, <3>1 DEF ScheduleFits, UpdateFits, Inserting
  <2> QED BY <1>2, <2>6, <2>7, FollowSuits DEF scheduleVars, RowsTypeOK
<1>4. CASE CreateOccurrence(p)
  <2>1. /\ job[p].kind \in {"createSchedule", "updateSchedule", "refill"}
        /\ Tail(plan[p]) \in Insertion /\ seen[p].todo \subseteq Due
    BY <1>2, <1>4 DEF CreateOccurrence, InsertOne, ScheduleStatement, Reminding
  <2>2. PICK o \in seen[p].todo :
          /\ \/ occurrence' = occurrence
             \/ occurrence' = [occurrence EXCEPT ![o.schedule][o.date] =
                                 [status |-> "upcoming", start |-> o.start, opened |-> FALSE]]
          /\ Follow(p, Tail(plan[p]), [todo |-> seen[p].todo \ {o}])
    BY <1>4 DEF CreateOccurrence, InsertOne
  <2>3. UNCHANGED <<schedule, subscriber, reminded>>
    BY <1>4 DEF CreateOccurrence, InsertOne
  <2>4. ScheduleFits(p, Tail(plan[p]), [todo |-> seen[p].todo \ {o}])
    BY <2>1 DEF ScheduleFits, UpdateFits, Inserting
  <2>5. o.schedule \in Schedule /\ o.date \in Date /\ o.start \in Nat
    BY <2>1 DEF Due
  <2>6. [status |-> "upcoming", start |-> o.start, opened |-> FALSE] \in OccurrenceRow
    BY <2>5 DEF OccurrenceRow
  <2>7. RowsTypeOK'
    BY <1>2, <2>2, <2>3, <2>5, <2>6, DateIsWritten DEF RowsTypeOK
  <2> QED BY <2>2, <2>4, <2>7, FollowSuits
<1> QED BY <1>3, <1>4

\* The reminders.
LEMMA ScheduleReminds ==
  ASSUME CallInv, ScheduleInv, NEW p \in Proc, job[p].kind \in ScheduleKinds,
         RemindNext(p) \/ UpdateOccurrence(p) \/ CreateWaitRoom(p) \/ LogReminder(p)
  PROVE  Suits(p)' /\ RowsTypeOK'
<1> USE DEF At, Go, Hold, Continue
<1>1. fate[p] = "running"
  BY DEF RemindNext, UpdateOccurrence, CreateWaitRoom, LogReminder
<1>2. /\ ScheduleFits(p, plan[p], seen[p]) /\ RowsTypeOK
      /\ ScheduleStatement(p, Head(plan[p]), Tail(plan[p]), seen[p])
  BY <1>1, ScheduleAt DEF ScheduleInv
<1>3. job[p].kind = "remind" /\ Reminding(Head(plan[p]), Tail(plan[p]), seen[p])
  BY <1>2 DEF RemindNext, UpdateOccurrence, CreateWaitRoom, LogReminder, ScheduleStatement
<1>4. CASE RemindNext(p)
  <2>1. UNCHANGED scheduleVars /\ Tail(plan[p]) = <<"markMissed">> /\ seen[p].rows \subseteq Read
    BY <1>3, <1>4 DEF RemindNext, Reminding
  <2>2. plan[p] = <<"remindNext", "markMissed">>
    <3>1. \A s \in {<<"markMissed">>, ToLog, ToOpen, ToWrite} : Head(s) # "remindNext"
      BY DEF ToLog, ToOpen, ToWrite
    <3> QED BY <1>2, <1>3, <1>4, <3>1 DEF RemindNext, ScheduleFits, RemindFits
  <2>3. ScheduleFits(p, <<"markMissed">>, seen[p])
    BY <1>3 DEF ScheduleFits, RemindFits
  <2>4. CASE seen[p].rows = {}
    <3>1. Follow(p, <<"markMissed">>, seen[p])
      BY <1>4, <2>1, <2>4 DEF RemindNext
    <3> QED BY <1>2, <2>1, <2>3, <3>1, FollowSuits DEF scheduleVars, RowsTypeOK
  <2>5. CASE seen[p].rows # {}
    <3>1. PICK o \in seen[p].rows :
            LET left == [rows |-> seen[p].rows \ {o}, of |-> o] IN
            \/ Follow(p, <<"writeOccurrence", "openRoom", "log">> \o plan[p], left)
            \/ Follow(p, <<"log">> \o plan[p], left)
            \/ Follow(p, plan[p], left)
      BY <1>4, <2>5 DEF RemindNext
    <3>2. /\ <<"writeOccurrence", "openRoom", "log">> \o <<"remindNext", "markMissed">> = ToWrite
          /\ <<"log">> \o <<"remindNext", "markMissed">> = ToLog
      <4>1. <<"log">> \o <<"remindNext", "markMissed">> = ToLog
        BY Joins2 DEF ToLog
      <4>2. <<"writeOccurrence", "openRoom", "log">> \o <<"remindNext", "markMissed">> = ToWrite
        BY Joins5 DEF ToWrite
      <4> QED BY <4>1, <4>2
    <3> DEFINE left == [rows |-> seen[p].rows \ {o}, of |-> o]
    <3>3. left.rows \subseteq Read /\ left.of \in Read
      BY <2>1
    <3>4. \/ Follow(p, ToWrite, left) \/ Follow(p, ToLog, left)
          \/ Follow(p, <<"remindNext", "markMissed">>, left)
      BY <2>2, <3>1, <3>2
    <3> HIDE DEF left
    <3>5. \A s \in {ToWrite, ToLog, <<"remindNext", "markMissed">>} : ScheduleFits(p, s, left)
      BY <1>3, <3>3 DEF ScheduleFits, RemindFits
    <3> QED BY <1>2, <2>1, <3>4, <3>5, FollowSuits DEF scheduleVars, RowsTypeOK
  <2> QED BY <2>4, <2>5
<1>5. CASE UpdateOccurrence(p) \/ CreateWaitRoom(p) \/ LogReminder(p)
  <2>1. Head(plan[p]) \in {"writeOccurrence", "openRoom", "log"} /\ Follow(p, Tail(plan[p]), seen[p])
    BY <1>5 DEF UpdateOccurrence, CreateWaitRoom, LogReminder
  <2>2. Suits(p)'
    <3>1. Tail(plan[p]) = <<>> \/ ScheduleFits(p, Tail(plan[p]), seen[p])
      BY <1>1, <2>1, RestSuits DEF Rests
    <3> QED BY <2>1, <3>1, FollowSuits
  <2>3. seen[p].of \in Read
    BY <1>3, <2>1 DEF Reminding
  <2>4. CASE UpdateOccurrence(p)
    <3> DEFINE o == seen[p].of
    <3>1. o.schedule \in Schedule /\ o.date \in Date /\ o.row \in OccurrenceRow
      BY <2>3 DEF Read
    <3>2. [o.row EXCEPT !.opened = TRUE] \in OccurrenceRow
      BY <3>1 DEF OccurrenceRow
    <3>3. /\ occurrence' = [occurrence EXCEPT ![o.schedule][o.date] = [o.row EXCEPT !.opened = TRUE]]
          /\ UNCHANGED <<schedule, subscriber, reminded>>
      BY <2>4 DEF UpdateOccurrence
    <3> QED BY <1>2, <2>2, <3>1, <3>2, <3>3, DateIsWritten
  <2>5. CASE CreateWaitRoom(p)
    BY <1>2, <2>2, <2>5 DEF CreateWaitRoom, RowsTypeOK
  <2>6. CASE LogReminder(p)
    <3> DEFINE o == seen[p].of
    <3>1. o.schedule \in Schedule /\ o.date \in Date
      BY <2>3 DEF Read
    <3>2. Log(p, o.schedule, o.date, "tier") \subseteq Told
      BY <3>1, LogIsTold
    <3> QED BY <1>2, <2>2, <2>6, <3>2 DEF LogReminder, RowsTypeOK
  <2> QED BY <1>5, <2>4, <2>5, <2>6
<1> QED BY <1>4, <1>5

\* A step of a schedule call keeps the rows, and what it has to do.
LEMMA ScheduleKeeps ==
  ASSUME CallInv, ScheduleInv, NEW p \in Proc, job[p].kind \in ScheduleKinds, ScheduleStep(p)
  PROVE  Suits(p)' /\ RowsTypeOK'
<1>1. ~ (CheckAndAutoLinkStream(p) \/ LinkOccurrence(p) \/ LinkSchedule(p))
  <2>1. fate[p] = "running" => ScheduleStatement(p, Head(plan[p]), Tail(plan[p]), seen[p])
    BY ScheduleAt
  <2> QED BY <2>1 DEF CheckAndAutoLinkStream, LinkOccurrence, LinkSchedule, At, ScheduleStatement, Reminding
<1> QED BY <1>1, ScheduleBegins, ScheduleWrites, ScheduleInserts, ScheduleReminds DEF ScheduleStep

\* The start of a stream that is linked keeps the rows.
LEMMA LinkKeeps ==
  ASSUME CallInv, StreamInv, RowsTypeOK, NEW p \in Proc, job[p].kind \in StreamKinds, ScheduleStep(p)
  PROVE  RowsTypeOK'
<1>1. CheckAndAutoLinkStream(p) \/ LinkOccurrence(p) \/ LinkSchedule(p)
  BY LinkFits
<1>2. CASE CheckAndAutoLinkStream(p)
  BY <1>2 DEF CheckAndAutoLinkStream, scheduleVars, RowsTypeOK
<1>3. CASE LinkOccurrence(p) \/ LinkSchedule(p)
  <2>1. fate[p] = "running" /\ StatementFits(p, Head(plan[p]), Tail(plan[p]))
    BY <1>3, StreamAt DEF LinkOccurrence, LinkSchedule, At
  <2>2. seen[p].schedule \in Schedule /\ seen[p].date \in Date
    BY <1>3, <2>1 DEF LinkOccurrence, LinkSchedule, At, StatementFits
  <2>3. occurrence[seen[p].schedule][seen[p].date] \in OccurrenceRow /\ schedule[seen[p].schedule] \in ScheduleRow
    BY <2>2 DEF RowsTypeOK
  <2>4. CASE LinkOccurrence(p)
    <3> DEFINE o == [occurrence[seen[p].schedule][seen[p].date] EXCEPT !.status = "live"]
    <3>1. o \in OccurrenceRow
      BY <2>3 DEF OccurrenceRow
    <3>2. /\ occurrence' = [occurrence EXCEPT ![seen[p].schedule][seen[p].date] = o]
          /\ UNCHANGED <<schedule, subscriber, reminded>>
      BY <2>2, <2>4 DEF LinkOccurrence, RowsTypeOK
    <3> HIDE DEF o
    <3> QED BY <2>2, <3>1, <3>2, DateIsWritten
  <2>5. CASE LinkSchedule(p)
    <3>1. [schedule[seen[p].schedule] EXCEPT !.status = "live"] \in ScheduleRow
      BY <2>3 DEF ScheduleRow
    <3>2. Log(p, seen[p].schedule, seen[p].date, "start") \subseteq Told
      BY <2>2, LogIsTold
    <3> QED BY <2>2, <2>5, <3>1, <3>2 DEF LinkSchedule, RowsTypeOK
  <2> QED BY <1>3, <2>4, <2>5
<1> QED BY <1>1, <1>2, <1>3

\* A statement that fails: the call breaks off, or goes on with what may be left.
LEMMA SkipSuits ==
  ASSUME CallInv, ScheduleInv, NEW p \in Proc, job[p].kind \in ScheduleKinds, Fault(p, Ignored)
  PROVE  Suits(p)'
<1> DEFINE h == Head(plan[p])  t == Tail(plan[p])  v == seen[p]
<1>1. fate[p] = "running" /\ (Break(p) \/ (h \in Ignored /\ Follow(p, t, v)))
  BY DEF Fault
<1>2. ScheduleStatement(p, h, t, v) /\ (h \notin {"insertOccurrence", "remindNext"} => Rests(p, h, v))
  BY <1>1, ScheduleAt, RestSuits
<1>3. ASSUME h \in Ignored PROVE t = <<>> \/ ScheduleFits(p, t, v)
  <2>1. h # "remindNext"
    BY <1>3 DEF Ignored, IgnoredStream, IgnoredBattle, IgnoredSchedule
  <2>2. CASE h = "insertOccurrence"
    <3>1. /\ job[p].kind \in {"createSchedule", "updateSchedule", "refill"}
          /\ t \in Insertion /\ v.todo \subseteq Due
      BY <1>2, <2>2 DEF ScheduleStatement, Reminding
    <3> QED BY <3>1 DEF ScheduleFits, UpdateFits, Inserting
  <2> QED BY <1>2, <2>1, <2>2 DEF Rests
<1> HIDE DEF h, t, v
<1> QED BY <1>1, <1>3, FollowSuits, BreakSuits DEF t, v

\* Which steps there are, as the schedules and their rooms see them.
ScheduleCases ==
  \/ \E p \in Proc : /\ job[p].kind \in ScheduleKinds \cup {"startStream"}
                     /\ ScheduleStep(p) /\ RestOf(p) /\ UNCHANGED waitRoomVars
  \/ UNCHANGED <<scheduleVars, waitRoomVars>> /\ faults' # 0
     /\ \E p \in Proc : job[p].kind \in ScheduleKinds /\ Fault(p, Ignored) /\ RestOf(p)
  \/ WaitRoomStep /\ (Rest \/ \E p \in Kind("waitWS") : RestOf(p))
  \/ UNCHANGED <<scheduleVars, waitRoomVars>>
     /\ \E p \in Proc : /\ job[p].kind \notin ScheduleKinds \cup {"waitWS"} /\ RestOf(p)
                        /\ job[p].kind = "startStream" => StreamStep(p) \/ faults' # 0
  \/ UNCHANGED <<scheduleVars, waitRoomVars>> /\ Rest

\* Every step is one of these.
LEMMA StepsOfSchedules ==
  ASSUME CallInv, [Next]_vars
  PROVE  ScheduleCases
<1>1. CASE Step
  <2>1. ASSUME NEW p \in Proc, Moves(p) \/ Slips(p), job[p].kind \notin ScheduleKinds \cup {"waitWS"},
               job[p].kind = "startStream" => StreamStep(p) \/ faults' # 0,
               UNCHANGED <<scheduleVars, waitRoomVars>>
        PROVE  ScheduleCases
    BY <2>1, MoveIsOwn DEF ScheduleCases
  <2>2. ASSUME NEW p \in Proc, job[p] \in StreamRequests, StreamStep(p), UNCHANGED <<scheduleVars, waitRoomVars>>
        PROVE  ScheduleCases
    <3>1. job[p].kind \notin ScheduleKinds \cup {"waitWS"}
      BY <2>2, RequestKinds DEF ScheduleKinds
    <3>2. CASE UNCHANGED callVars
      BY <2>2, <3>2 DEF ScheduleCases, Rest, callVars
    <3> QED BY <2>1, <2>2, <3>1, <3>2, StreamMoves
  <2>3. ASSUME NEW p \in Proc, job[p] \in BattleRequests, BattleStep(p), UNCHANGED <<scheduleVars, waitRoomVars>>
        PROVE  ScheduleCases
    <3>1. job[p].kind \notin ScheduleKinds \cup {"waitWS", "startStream"}
      BY <2>3, RequestKinds DEF ScheduleKinds
    <3> QED BY <2>1, <2>3, <3>1, BattleMoves
  <2>4. ASSUME NEW p \in Proc, job[p] \in ScheduleRequests \cup StartStreamRequest, ScheduleStep(p), UNCHANGED waitRoomVars
        PROVE  ScheduleCases
    <3>1. job[p].kind \in ScheduleKinds \cup {"startStream"}
      BY <2>4, RequestKinds DEF ScheduleKinds, StartStreamRequest
    <3>2. RestOf(p)
      BY <2>4, ScheduleMoves, MoveIsOwn
    <3> QED BY <2>4, <3>1, <3>2 DEF ScheduleCases
  <2>5. ASSUME NEW p \in Proc, ~IsSocket(p), Fault(p, Ignored), UNCHANGED <<scheduleVars, waitRoomVars>>
        PROVE  ScheduleCases
    <3>1. faults' # 0
      BY <2>5, CallAssumption DEF Fault, CallInv, CallTypeOK
    <3>2. RestOf(p)
      BY <2>5, MoveIsOwn DEF Moves
    <3>3. job[p].kind # "waitWS"
      BY <2>5 DEF IsSocket
    <3> QED BY <2>5, <3>1, <3>2, <3>3 DEF ScheduleCases
  <2>6. ASSUME WaitRoomStep PROVE ScheduleCases
    <3>1. Rest \/ \E p \in Kind("waitWS") : RestOf(p)
      BY <2>6, WaitRoomMoves, MoveIsOwn DEF Kind
    <3> QED BY <2>6, <3>1 DEF ScheduleCases
  <2>7. ASSUME ChatStep, UNCHANGED <<scheduleVars, waitRoomVars>> PROVE ScheduleCases
    <3>1. CASE HubRegister \/ HubUnregister \/ BrokerStep
      <4>1. Rest
        BY <3>1 DEF HubRegister, HubUnregister, BrokerStep, RunRegister, RunUnregister, Rest, callVars
      <4> QED BY <2>7, <4>1 DEF ScheduleCases
    <3>2. CASE ~ (HubRegister \/ HubUnregister \/ BrokerStep)
      <4>1. PICK p \in Proc : job[p] \in ChatRequests /\ (Moves(p) \/ Slips(p))
        BY <2>7, <3>2, ChatCallMoves DEF ChatStep
      <4>2. job[p].kind \in ChatKinds
        BY <4>1, RequestKinds
      <4>3. job[p].kind \notin ScheduleKinds \cup {"waitWS", "startStream"}
        BY <4>2 DEF ChatKinds, ScheduleKinds
      <4> QED BY <2>1, <2>7, <4>1, <4>3
    <3> QED BY <3>1, <3>2
  <2> QED BY <1>1, <2>2, <2>3, <2>4, <2>5, <2>6, <2>7 DEF Step
<1>2. CASE Tick /\ UNCHANGED <<scheduleVars, waitRoomVars>>
  BY <1>2 DEF Tick, Rest, ScheduleCases
<1>3. CASE UNCHANGED vars
  BY <1>3 DEF vars, callVars, Rest, ScheduleCases
<1> QED BY <1>1, <1>2, <1>3 DEF Next

\* The clock goes on, if at all.
LEMMA TimeGoesOn ==
  ASSUME CallInv, [Next]_vars
  PROVE  now \in Nat /\ now' \in Nat /\ now <= now'
<1>1. now \in Nat
  BY CallAssumption DEF CallInv, CallTypeOK
<1>2. ASSUME NEW p \in Proc, RestOf(p) PROVE now' = now
  BY <1>2 DEF RestOf
<1>3. now' = now \/ now' = now + 1
  <2>1. CASE Step
    <3>1. CASE \E p \in Proc : StreamStep(p) \/ BattleStep(p) \/ ScheduleStep(p) \/ Fault(p, Ignored)
      BY <1>2, <3>1, StreamMoves, BattleMoves, ScheduleMoves, MoveIsOwn DEF Moves, callVars
    <3>2. CASE WaitRoomStep
      BY <3>2, WaitRoomMoves
    <3>3. CASE ChatStep
      BY <3>3, ChatMoves
    <3> QED BY <2>1, <3>1, <3>2, <3>3 DEF Step
  <2>2. CASE Tick
    BY <2>2 DEF Tick
  <2>3. CASE UNCHANGED vars
    BY <2>3 DEF vars, callVars
  <2> QED BY <2>1, <2>2, <2>3 DEF Next
<1> QED BY <1>1, <1>3

\* The rows of the schedules are what they should be, and the calls hold what
\* the rest of their work needs.
LEMMA SchedulesHold == Spec => []ScheduleInv
<1>1. Init => ScheduleInv
  <2> SUFFICES ASSUME Init PROVE ScheduleInv
    OBVIOUS
  <2>1. (CHOOSE h \in Host : TRUE) \in Host /\ (CHOOSE r \in Rule : TRUE) \in Rule
    BY StreamAssumption, ScheduleAssumption DEF Rule
  <2>2. \A s \in DOMAIN OldSchedules : OldSchedules[s].host \in Host /\ OldSchedules[s].rule \in Rule
    BY ScheduleAssumption DEF Rule
  <2>3. schedule \in [Schedule -> ScheduleRow]
    BY <2>1, <2>2 DEF Init, ScheduleInit, ScheduleRow
  <2>4. \A r \in Rule : \A d \in DOMAIN StartsOf[r] : StartsOf[r][d] \in Nat
    BY ScheduleAssumption DEF Rule
  <2>5. occurrence \in [Schedule -> [Date -> OccurrenceRow]]
    <3>1. \A s \in Schedule : schedule[s].rule \in Rule
      BY <2>3 DEF ScheduleRow
    <3>2. \A s \in Schedule, d \in Date :
            (IF s \in DOMAIN OldSchedules /\ d \in DOMAIN StartsOf[schedule[s].rule]
             THEN [status |-> "upcoming", start |-> StartsOf[schedule[s].rule][d], opened |-> FALSE]
             ELSE [status |-> "none", start |-> 0, opened |-> FALSE]) \in OccurrenceRow
      BY <2>4, <3>1 DEF OccurrenceRow
    <3> QED BY <3>2 DEF Init, ScheduleInit
  <2>6. subscriber = {} /\ reminded = {} /\ \A p \in Proc : fate[p] # "running"
    BY DEF Init, CallInit, ScheduleInit
  <2> QED BY <2>3, <2>5, <2>6 DEF ScheduleInv, RowsTypeOK, Suits, Kinds
<1>2. CallInv /\ StreamInv /\ ScheduleInv /\ [Next]_vars => ScheduleInv'
  <2> SUFFICES ASSUME CallInv, StreamInv, ScheduleInv, [Next]_vars PROVE ScheduleInv'
    OBVIOUS
  <2>1. ASSUME UNCHANGED scheduleVars PROVE RowsTypeOK'
    BY <2>1 DEF ScheduleInv, RowsTypeOK, scheduleVars
  <2>2. ASSUME NEW p \in Proc, RestOf(p), job[p].kind \in ScheduleKinds => Suits(p)', RowsTypeOK'
        PROVE  ScheduleInv'
    <3>1. job' = job
      BY <2>2 DEF RestOf
    <3>2. ASSUME NEW q \in Proc \ {p}, job[q].kind \in ScheduleKinds PROVE Suits(q)'
      <4>1. Suits(q) /\ fate'[q] = fate[q] /\ plan'[q] = plan[q] /\ seen'[q] = seen[q]
        BY <2>2, <3>2 DEF RestOf, ScheduleInv, Kinds
      <4> QED BY <3>1, <4>1 DEF Suits, ScheduleFits, UpdateFits, RemindFits, Inserting
    <3> QED BY <2>2, <3>1, <3>2 DEF ScheduleInv, Kinds
  <2>3. ASSUME Rest, RowsTypeOK' PROVE ScheduleInv'
    <3>1. \A q \in Kinds(ScheduleKinds) : Suits(q)
      BY DEF ScheduleInv
    <3>2. \A q \in Proc : Suits(q)' <=> Suits(q)
      BY <2>3 DEF Rest, Suits, ScheduleFits, UpdateFits, RemindFits, Inserting
    <3> QED BY <2>3, <3>1, <3>2 DEF ScheduleInv, Kinds, Rest
  <2>4. ASSUME NEW p \in Proc, job[p].kind \in ScheduleKinds \cup {"startStream"}, ScheduleStep(p), RestOf(p)
        PROVE  ScheduleInv'
    <3>1. CASE job[p].kind \in ScheduleKinds
      BY <2>2, <2>4, <3>1, ScheduleKeeps
    <3>2. CASE job[p].kind = "startStream"
      <4>1. RowsTypeOK'
        BY <2>4, <3>2, LinkKeeps DEF StreamKinds, ScheduleInv
      <4> QED BY <2>2, <2>4, <3>2, <4>1 DEF ScheduleKinds
    <3> QED BY <2>4, <3>1, <3>2
  <2>5. ASSUME NEW p \in Proc, job[p].kind \in ScheduleKinds, Fault(p, Ignored), RestOf(p), UNCHANGED scheduleVars
        PROVE  ScheduleInv'
    BY <2>1, <2>2, <2>5, SkipSuits
  <2>6. ASSUME WaitRoomStep, Rest \/ \E p \in Kind("waitWS") : RestOf(p) PROVE ScheduleInv'
    <3>1. RowsTypeOK'
      BY <2>6 DEF WaitRoomStep, HubStep, UpdateWaitRoomCount, scheduleVars, ScheduleInv, RowsTypeOK
    <3> QED BY <2>2, <2>3, <2>6, <3>1 DEF Kind, ScheduleKinds
  <2> QED BY <2>1, <2>2, <2>3, <2>4, <2>5, <2>6, StepsOfSchedules DEF ScheduleCases
<1> QED BY <1>1, <1>2, CallsHold, StreamsHold, PTL DEF Spec

-----------------------------------------------------------------------------
(***************************************************************************)
(* Waiting rooms: unless two counts of a room were under way at once, the  *)
(* one that is has the number of those that wait, and the row of the room  *)
(* has it when none is, while no statement has failed.                     *)
(***************************************************************************)
Sitting == {"register", "say", "waiting", "unregister"}

\* A socket registers as the first it does, and once.
Sits(p) == /\ fate[p] = "new" => waiting[p] = "no"
           /\ fate[p] = "running" =>
                /\ plan[p] \in Seq(Sitting)
                /\ \A i \in 1..Len(plan[p]) : plan[p][i] = "register" => i = 1 /\ waiting[p] = "no"

CountsOf(r) == {c \in counting : c.room = r}
RoomRight(r) ==
  /\ \A c, d \in CountsOf(r) : c = d
  /\ \A c \in CountsOf(r) : /\ c.n = Cardinality(In(r)) /\ highest[r] = Larger(c.n, Row1(r).peak)
                            /\ c.at = "insert" => ~Row1(r).there
  /\ CountsOf(r) = {} => Row1(r).current = Cardinality(In(r)) /\ Row1(r).peak = highest[r]

RoomRow == [there : BOOLEAN, current : Nat, peak : Nat]
RoomTypeOK == WaitRoomTypeOK /\ waitRoom \in [Schedule -> [Date -> RoomRow]]

RoomInv == /\ RoomTypeOK
           /\ \A r \in Room : IsFiniteSet(In(r))
           /\ \A p \in Kind("waitWS") : Sits(p)
           /\ faults = 0 /\ Kind("remind") = {} => \A r \in Room \ untold : RoomRight(r)

\* What a waiting socket names.
LEMMA WaitJob ==
  ASSUME CallInv, NEW p \in Kind("waitWS")
  PROVE  p \in Proc /\ RoomOf(p) \in Room /\ job[p].user \in Viewer /\ job[p].says \in Nat
<1>1. p \in Proc /\ job[p].kind = "waitWS"
  BY DEF Kind
<1>2. job[p] \in WaitRoomRequests
  <2>1. job[p] \notin StreamRequests /\ job[p] \notin BattleRequests /\ job[p] \notin ScheduleRequests
    BY <1>1, RequestKinds
  <2>2. job[p] \notin ChatRequests
    <3>1. job[p].kind \notin ChatKinds
      BY <1>1 DEF ChatKinds
    <3> QED BY <3>1, RequestKinds
  <2>3. job[p] # [kind |-> "none"]
    BY <1>1
  <2> QED BY <1>1, <2>1, <2>2, <2>3, JobOf
<1> QED BY <1>1, <1>2 DEF WaitRoomRequests, ServeWaitRoomWS, RoomOf, Room

\* A socket goes on to the rest of its plan, or to its end.
LEMMA SitsOn ==
  ASSUME CallInv, NEW p \in Kind("waitWS"), Sits(p), fate[p] = "running",
         Follow(p, Tail(plan[p]), seen[p]) \/ Follow(p, <<"unregister">>, Nothing)
  PROVE  /\ fate'[p] # "new"
         /\ fate'[p] = "running" =>
              plan'[p] \in Seq(Sitting) /\ \A i \in 1..Len(plan'[p]) : plan'[p][i] # "register"
<1>1. p \in Proc /\ plan[p] # <<>> /\ plan[p] \in Seq(Sitting)
  BY DEF Kind, Sits, CallInv, CallTypeOK
<1>2. CASE Follow(p, Tail(plan[p]), seen[p])
  <2> DEFINE t == Tail(plan[p])
  <2>1. t \in Seq(Sitting) /\ Len(t) = Len(plan[p]) - 1 /\ \A i \in 1..Len(t) : t[i] = plan[p][i + 1]
    BY <1>1
  <2>2. \A i \in 1..Len(t) : t[i] # "register"
    <3>1. ASSUME NEW i \in 1..Len(t) PROVE i + 1 \in 1..Len(plan[p]) /\ i + 1 # 1
      BY <1>1, <2>1
    <3> QED BY <2>1, <3>1 DEF Sits
  <2>3. plan'[p] = t /\ fate'[p] # "new"
    BY <1>1, <1>2 DEF Follow, CallInv, CallTypeOK
  <2> QED BY <2>1, <2>2, <2>3
<1>3. CASE Follow(p, <<"unregister">>, Nothing)
  <2>1. plan'[p] = <<"unregister">> /\ fate'[p] # "new"
    BY <1>1, <1>3 DEF Follow, CallInv, CallTypeOK
  <2> QED BY <2>1 DEF Sitting
<1> QED BY <1>2, <1>3

\* The plan of a socket that opens.
LEMMA OpenSits ==
  ASSUME CallInv, NEW p \in Kind("waitWS"), Sits(p), OpenWaitSocket(p)
  PROVE  Sits(p)'
<1>1. p \in Proc /\ waiting' = waiting /\ waiting[p] = "no" /\ job[p].says \in Nat
  BY WaitJob DEF OpenWaitSocket, Asked, Sits, waitRoomVars
<1> DEFINE x == <<"register">>  y == [i \in 1..job[p].says |-> "say"]  z == <<"waiting">>
           s == x \o y \o z
<1>2. Break(p) \/ Follow(p, s, Nothing)
  BY DEF OpenWaitSocket, Begin, Refuse
<1>3. /\ x \in Seq(Sitting) /\ Len(x) = 1 /\ x[1] = "register"
      /\ y \in Seq(Sitting) /\ Len(y) = job[p].says /\ (\A i \in 1..Len(y) : y[i] = "say")
      /\ z \in Seq(Sitting) /\ Len(z) = 1 /\ z[1] = "waiting"
  BY <1>1 DEF Sitting
<1> HIDE DEF x, y, z
<1>4. /\ x \o y \in Seq(Sitting) /\ Len(x \o y) = 1 + Len(y)
      /\ \A i \in 1..Len(x \o y) : (x \o y)[i] = "register" => i = 1
  <2>1. /\ x \o y \in Seq(Sitting) /\ Len(x \o y) = Len(x) + Len(y)
        /\ \A i \in 1..(Len(x) + Len(y)) : (x \o y)[i] = IF i <= Len(x) THEN x[i] ELSE y[i - Len(x)]
    BY <1>3, ConcatProperties
  <2>2. ASSUME NEW i \in 1..Len(x \o y), i # 1 PROVE (x \o y)[i] = "say"
    <3>1. i - 1 \in 1..Len(y) /\ ~(i <= 1)
      BY <1>1, <1>3, <2>1, <2>2
    <3> QED BY <1>3, <2>1, <3>1
  <2> QED BY <1>3, <2>1, <2>2
<1> DEFINE w == x \o y
<1> HIDE DEF w
<1>5. w \in Seq(Sitting) /\ Len(w) = 1 + Len(y) /\ \A i \in 1..Len(w) : w[i] = "register" => i = 1
  BY <1>4 DEF w
<1>6. /\ s \in Seq(Sitting) /\ s # <<>>
      /\ \A i \in 1..Len(s) : s[i] = "register" => i = 1
  <2>1. /\ w \o z \in Seq(Sitting) /\ Len(w \o z) = Len(w) + Len(z)
        /\ \A i \in 1..(Len(w) + Len(z)) : (w \o z)[i] = IF i <= Len(w) THEN w[i] ELSE z[i - Len(w)]
    BY <1>3, <1>5, ConcatProperties
  <2>2. ASSUME NEW i \in 1..Len(w \o z), (w \o z)[i] = "register" PROVE i = 1
    <3>1. CASE i <= Len(w)
      <4>1. i \in 1..Len(w)
        BY <1>3, <1>5, <2>1, <3>1
      <4> QED BY <1>5, <2>1, <2>2, <3>1, <4>1
    <3>2. CASE ~(i <= Len(w))
      <4>1. i - Len(w) = 1 /\ i \in 1..(Len(w) + Len(z))
        BY <1>3, <1>5, <2>1, <3>2
      <4> QED BY <1>3, <2>1, <2>2, <3>2, <4>1
    <3> QED BY <3>1, <3>2
  <2>3. w \o z # <<>>
    BY <1>3, <1>5, <2>1
  <2> QED BY <2>1, <2>2, <2>3 DEF w
<1> HIDE DEF s
<1>7. CASE Break(p)
  BY <1>1, <1>7 DEF Break, Sits, CallInv, CallTypeOK
<1>8. CASE Follow(p, s, Nothing)
  <2>1. plan'[p] = s /\ fate'[p] # "new"
    BY <1>1, <1>8 DEF Follow, CallInv, CallTypeOK
  <2> QED BY <1>1, <1>6, <2>1 DEF Sits
<1> QED BY <1>2, <1>7, <1>8

\* A socket that stands where it stood.
LEMMA SitsStill ==
  ASSUME NEW q \in Kind("waitWS"), Sits(q), fate'[q] = fate[q], plan'[q] = plan[q],
         waiting'[q] = waiting[q] \/ waiting[q] # "no"
  PROVE  Sits(q)'
BY DEF Sits

\* A count is told: the room that nobody told otherwise is as this count says.
LEMMA TellRight ==
  ASSUME CallInv, RoomInv, NEW p \in Kind("waitWS"), NEW n \in Nat, TellCount(p, n), NEW x \in {"in", "out"},
         job' = job, waitRoom' = waitRoom, waiting' = [waiting EXCEPT ![p] = x],
         n = Cardinality(In(RoomOf(p))'), faults' = 0 => faults = 0
  PROVE  /\ counting' \subseteq [by : Proc, room : Room, n : Nat, at : {"look", "update", "insert"}]
         /\ highest' \in [Room -> Nat] /\ untold' \subseteq Room
         /\ faults' = 0 /\ Kind("remind") = {} => \A r \in Room \ untold' : RoomRight(r)'
<1> DEFINE a == RoomOf(p)  c == [by |-> p, room |-> a, n |-> n, at |-> "look"]
<1>1. p \in Proc /\ a \in Room
  BY WaitJob
<1>2. /\ counting' = counting \cup {c}
      /\ untold' = IF \E d \in counting : d.room = a THEN untold \cup {a} ELSE untold
      /\ highest' = [highest EXCEPT ![a] = Larger(@, n)]
  BY DEF TellCount
<1>3. WaitRoomTypeOK /\ waitRoom \in [Schedule -> [Date -> RoomRow]]
  BY DEF RoomInv, RoomTypeOK
<1>4. highest \in [Room -> Nat]
  BY <1>3 DEF WaitRoomTypeOK
<1>5. counting' \subseteq [by : Proc, room : Room, n : Nat, at : {"look", "update", "insert"}]
  BY <1>1, <1>2, <1>3 DEF WaitRoomTypeOK
<1>6. highest' \in [Room -> Nat]
  BY <1>1, <1>2, <1>4 DEF Larger
<1>7. untold' \subseteq Room
  BY <1>1, <1>2, <1>3 DEF WaitRoomTypeOK
<1>8. ASSUME faults' = 0, Kind("remind") = {}, NEW r \in Room \ untold' PROVE RoomRight(r)'
  <2>1. r \in Room \ untold /\ RoomRight(r)
    BY <1>2, <1>8 DEF RoomInv
  <2>2. Row1(r)' = Row1(r) /\ Row1(r).peak \in Nat
    BY <1>3 DEF Row1, RoomRow, Room
  <2>3. CASE r = a
    <3>1. CountsOf(r) = {}
      BY <1>2, <1>8, <2>3 DEF CountsOf
    <3>2. c.room = r /\ c.n = n /\ c.at = "look"
      BY <2>3
    <3>3. CountsOf(r)' = {c}
      BY <1>2, <3>1, <3>2 DEF CountsOf
    <3>4. highest'[r] = Larger(n, Row1(r).peak)
      <4>1. Row1(r).peak = highest[r] /\ highest'[r] = Larger(highest[r], n)
        BY <1>2, <1>4, <2>1, <2>3, <3>1 DEF RoomRight
      <4> QED BY <2>2, <4>1 DEF Larger
    <3>5. c.n = Cardinality(In(r)')
      <4>1. In(RoomOf(p))' = In(r)'
        BY <2>3 DEF In, RoomOf
      <4> QED BY <3>2, <4>1
    <3> HIDE DEF c
    <3> QED BY <2>2, <3>2, <3>3, <3>4, <3>5 DEF RoomRight
  <2>4. CASE r # a
    <3>1. CountsOf(r)' = CountsOf(r)
      BY <1>2, <2>4 DEF CountsOf
    <3>2. highest'[r] = highest[r]
      BY <1>2, <1>4, <2>4
    <3>3. In(r)' = In(r)
      <4>1. \A q \in Kind("waitWS") : RoomOf(q)' = RoomOf(q) /\ (RoomOf(q) = r => q # p /\ waiting'[q] = waiting[q])
        BY <1>3, <2>4 DEF RoomOf, WaitRoomTypeOK, Kind
      <4> QED BY <4>1 DEF In, Kind
    <3> QED BY <2>1, <2>2, <3>1, <3>2, <3>3 DEF RoomRight
  <2> QED BY <2>3, <2>4
<1> QED BY <1>5, <1>6, <1>7, <1>8

\* Who waits in a room, when one socket comes or goes.
LEMMA OneComesOrGoes ==
  ASSUME CallInv, RoomInv, NEW p \in Kind("waitWS"), NEW x, waiting' = [waiting EXCEPT ![p] = x], job' = job
  PROVE  /\ \A r \in Room : IsFiniteSet(In(r)')
         /\ x # "in" => In(RoomOf(p))' = In(RoomOf(p)) \ {p}
         /\ x = "in" => In(RoomOf(p))' = In(RoomOf(p)) \cup {p}
         /\ \A q \in Kind("waitWS") \ {p} : waiting'[q] = waiting[q]
<1>1. waiting \in [Proc -> {"no", "in", "out", "closed"}] /\ p \in Proc
  BY DEF RoomInv, RoomTypeOK, WaitRoomTypeOK, Kind
<1>2. /\ waiting'[p] = x /\ \A q \in Kind("waitWS") \ {p} : waiting'[q] = waiting[q]
  BY <1>1 DEF Kind
<1>3. Kind("waitWS")' = Kind("waitWS") /\ \A q : RoomOf(q)' = RoomOf(q)
  BY DEF Kind, RoomOf
<1>4. x # "in" => In(RoomOf(p))' = In(RoomOf(p)) \ {p}
  BY <1>2, <1>3 DEF In
<1>5. x = "in" => In(RoomOf(p))' = In(RoomOf(p)) \cup {p}
  BY <1>2, <1>3 DEF In
<1>6. ASSUME NEW r \in Room PROVE IsFiniteSet(In(r)')
  <2>1. IsFiniteSet(In(r) \cup {p})
    BY FS_AddElement DEF RoomInv
  <2>2. In(r)' \subseteq In(r) \cup {p}
    BY <1>2, <1>3 DEF In
  <2> QED BY <2>1, <2>2, FS_Subset
<1> QED BY <1>2, <1>4, <1>5, <1>6

\* One socket goes on, and the hub's maps with it.
LEMMA RoomComesTo ==
  ASSUME CallInv, RoomInv, NEW p \in Kind("waitWS"), RestOf(p), Sits(p)', RoomTypeOK',
         \A q \in Kind("waitWS") \ {p} : waiting'[q] = waiting[q] \/ waiting[q] # "no",
         \A r \in Room : IsFiniteSet(In(r)'),
         faults' = 0 /\ Kind("remind") = {} => \A r \in Room \ untold' : RoomRight(r)'
  PROVE  RoomInv'
<1>1. job' = job /\ \A q \in Kind("waitWS") \ {p} : fate'[q] = fate[q] /\ plan'[q] = plan[q]
  BY DEF RestOf, Kind
<1>2. Kind("waitWS")' = Kind("waitWS") /\ Kind("remind")' = Kind("remind")
  BY <1>1 DEF Kind
<1>3. \A q \in Kind("waitWS") \ {p} : Sits(q)'
  BY <1>1, SitsStill DEF RoomInv
<1> QED BY <1>2, <1>3 DEF RoomInv

\* The socket of p goes on in its own time.
LEMMA SocketMoves ==
  ASSUME CallInv, RoomInv, NEW p \in Kind("waitWS"), RestOf(p), UNCHANGED scheduleVars,
         OpenWaitSocket(p) \/ Register(p) \/ Say(p) \/ LeaveSocket(p) \/ Unregister(p)
  PROVE  RoomInv'
<1> USE DEF At, Go, Hold, Continue
<1>0. faults' = 0 => faults = 0
  <2>1. faults \in Nat
    BY CallAssumption DEF CallInv, CallTypeOK
  <2>2. faults' = faults \/ faults' = faults + 1
    BY DEF OpenWaitSocket, Register, Say, LeaveSocket, Unregister, Begin, Begins, Refuse, Slip
  <2> QED BY <2>1, <2>2
<1>1. p \in Proc /\ RoomOf(p) \in Room /\ job[p].user \in Viewer /\ Sits(p)
  BY WaitJob DEF RoomInv
<1>2. RoomTypeOK /\ WaitRoomTypeOK /\ waitRoom' = waitRoom /\ job' = job
  BY DEF RoomInv, RoomTypeOK, scheduleVars, RestOf
<1>3. ASSUME UNCHANGED <<waiting, counting, highest, untold>>
      PROVE  /\ \A r \in Room : IsFiniteSet(In(r)')
             /\ faults' = 0 /\ Kind("remind") = {} => \A r \in Room \ untold' : RoomRight(r)'
  <2>1. \A r : In(r)' = In(r) /\ CountsOf(r)' = CountsOf(r) /\ Row1(r)' = Row1(r)
    BY <1>2, <1>3 DEF In, CountsOf, Row1, Kind, RoomOf
  <2>2. ASSUME NEW r \in Room, RoomRight(r) PROVE RoomRight(r)'
    BY <1>3, <2>1, <2>2 DEF RoomRight
  <2> QED BY <1>0, <1>3, <2>1, <2>2 DEF RoomInv
<1>4. CASE OpenWaitSocket(p)
  <2>1. Sits(p)' /\ UNCHANGED waitRoomVars
    BY <1>1, <1>4, OpenSits DEF OpenWaitSocket
  <2>2. RoomTypeOK'
    BY <1>2, <2>1 DEF RoomTypeOK, WaitRoomTypeOK, waitRoomVars
  <2> QED BY <1>3, <2>1, <2>2, RoomComesTo DEF waitRoomVars
<1>5. CASE Say(p) \/ LeaveSocket(p)
  <2>1. /\ fate[p] = "running" /\ UNCHANGED <<waiting, counting, highest, untold>>
        /\ Follow(p, Tail(plan[p]), seen[p]) \/ Follow(p, <<"unregister">>, Nothing)
    BY <1>5 DEF Say, Slip, LeaveSocket, waitRoomVars
  <2>2. Sits(p)'
    BY <1>1, <2>1, SitsOn DEF Sits
  <2>3. mayChat' \in [Room -> [Viewer -> Nat]] /\ chat' \in [Room -> Nat]
    <3>1. now \in Nat /\ ChatPause \in Nat
      BY CallAssumption, WaitRoomAssumption DEF CallInv, CallTypeOK
    <3>2. mayChat \in [Room -> [Viewer -> Nat]] /\ chat \in [Room -> Nat]
      BY <1>2 DEF WaitRoomTypeOK
    <3> DEFINE r == RoomOf(p)  u == job[p].user
    <3>3. \/ UNCHANGED <<mayChat, chat>>
          \/ /\ mayChat' \in {mayChat, [mayChat EXCEPT ![r][u] = now + ChatPause]}
             /\ chat' = [chat EXCEPT ![r] = @ + 1]
      BY <1>5 DEF Say, LeaveSocket, waitRoomVars
    <3>4. r \in Room /\ u \in Viewer
      BY <1>1
    <3> HIDE DEF r, u
    <3>5. now + ChatPause \in Nat /\ chat[r] + 1 \in Nat
      BY <3>1, <3>2, <3>4
    <3>6. chat' \in [Room -> Nat]
      BY <3>2, <3>3, <3>4, <3>5
    <3>7. mayChat' \in [Room -> [Viewer -> Nat]]
      <4>1. \A m \in Nat : [mayChat EXCEPT ![r][u] = m] \in [Room -> [Viewer -> Nat]]
        BY <3>2, <3>4
      <4> QED BY <3>2, <3>3, <3>5, <4>1
    <3> QED BY <3>6, <3>7
  <2>4. RoomTypeOK'
    BY <1>2, <2>1, <2>3 DEF RoomTypeOK, WaitRoomTypeOK
  <2> QED BY <1>3, <2>1, <2>2, <2>4, RoomComesTo
<1>6. CASE Register(p) \/ Unregister(p)
  <2> DEFINE x == IF Register(p) THEN "in" ELSE "out"
             n == IF Register(p) THEN Cardinality(In(RoomOf(p))) + 1 ELSE Cardinality(In(RoomOf(p)) \ {p})
  <2>1. /\ fate[p] = "running" /\ Follow(p, Tail(plan[p]), seen[p]) /\ UNCHANGED <<mayChat, chat>>
        /\ waiting' = [waiting EXCEPT ![p] = x] /\ TellCount(p, n)
    BY <1>6 DEF Register, Unregister
  <2>2. x \in {"in", "out"} /\ IsFiniteSet(In(RoomOf(p)))
    BY <1>1 DEF RoomInv
  <2>3. /\ \A r \in Room : IsFiniteSet(In(r)')
        /\ x # "in" => In(RoomOf(p))' = In(RoomOf(p)) \ {p}
        /\ x = "in" => In(RoomOf(p))' = In(RoomOf(p)) \cup {p}
        /\ \A q \in Kind("waitWS") \ {p} : waiting'[q] = waiting[q]
    BY <1>2, <2>1, OneComesOrGoes
  <2>4. n \in Nat /\ n = Cardinality(In(RoomOf(p))')
    <3>1. CASE Register(p)
      <4>1. waiting[p] = "no"
        <5>1. plan[p] # <<>> /\ plan[p] \in Seq(Sitting)
          BY <1>1, <2>1 DEF Sits, CallInv, CallTypeOK
        <5>2. 1 \in 1..Len(plan[p]) /\ plan[p][1] = "register"
          BY <3>1, <5>1 DEF Register
        <5> QED BY <1>1, <2>1, <5>2 DEF Sits
      <4>2. p \notin In(RoomOf(p))
        BY <4>1 DEF In
      <4> QED BY <2>2, <2>3, <3>1, <4>2, FS_AddElement, FS_CardinalityType
    <3>2. CASE ~Register(p)
      <4>1. IsFiniteSet(In(RoomOf(p)) \ {p})
        BY <2>2, FS_Subset
      <4> QED BY <2>3, <3>2, <4>1, FS_CardinalityType
    <3> QED BY <3>1, <3>2
  <2> HIDE DEF n, x
  <2>5. /\ counting' \subseteq [by : Proc, room : Room, n : Nat, at : {"look", "update", "insert"}]
        /\ highest' \in [Room -> Nat] /\ untold' \subseteq Room
        /\ faults' = 0 /\ Kind("remind") = {} => \A r \in Room \ untold' : RoomRight(r)'
    BY <1>0, <1>2, <2>1, <2>2, <2>4, TellRight
  <2>6. Sits(p)'
    BY <1>1, <2>1, SitsOn DEF Sits
  <2>7. RoomTypeOK'
    BY <1>2, <2>1, <2>2, <2>5 DEF RoomTypeOK, WaitRoomTypeOK
  <2> QED BY <2>3, <2>5, <2>6, <2>7, RoomComesTo
<1> QED BY <1>4, <1>5, <1>6

\* The hub closes sockets: that of a slow client, or all of a room whose host is late.
LEMMA HubCloses ==
  ASSUME CallInv, RoomInv, UNCHANGED scheduleVars,
         (\E p \in Kind("waitWS") : DropSlow(p)) \/ (\E r \in Room : HostMissed(r))
  PROVE  RoomInv'
<1>1. RoomTypeOK /\ WaitRoomTypeOK /\ waitRoom' = waitRoom /\ UNCHANGED <<callVars, counting, mayChat, chat, highest>>
  BY DEF RoomInv, RoomTypeOK, scheduleVars, DropSlow, HostMissed
<1>2. /\ \A q : RoomOf(q)' = RoomOf(q) /\ (q \in Kind("waitWS"))' = (q \in Kind("waitWS"))
      /\ Kind("remind")' = Kind("remind") /\ Kind("waitWS")' = Kind("waitWS")
  BY <1>1 DEF Kind, RoomOf, callVars
<1>3. /\ waiting' \in [Proc -> {"no", "in", "out", "closed"}] /\ untold' \subseteq Room /\ untold \subseteq untold'
      /\ \A q \in Proc : waiting'[q] = waiting[q] \/ (waiting[q] = "in" /\ waiting'[q] # "in")
      /\ \A q \in Kind("waitWS") : waiting'[q] # waiting[q] => RoomOf(q) \in untold'
  <2>1. ASSUME NEW p \in Kind("waitWS"), DropSlow(p)
        PROVE  /\ waiting' \in [Proc -> {"no", "in", "out", "closed"}] /\ untold' \subseteq Room /\ untold \subseteq untold'
               /\ \A q \in Proc : waiting'[q] = waiting[q] \/ (waiting[q] = "in" /\ waiting'[q] # "in")
               /\ \A q \in Kind("waitWS") : waiting'[q] # waiting[q] => RoomOf(q) \in untold'
    <3>1. RoomOf(p) \in Room /\ p \in Proc
      BY WaitJob
    <3> QED BY <1>1, <2>1, <3>1 DEF DropSlow, WaitRoomTypeOK, Kind
  <2>2. ASSUME NEW r \in Room, HostMissed(r)
        PROVE  /\ waiting' \in [Proc -> {"no", "in", "out", "closed"}] /\ untold' \subseteq Room /\ untold \subseteq untold'
               /\ \A q \in Proc : waiting'[q] = waiting[q] \/ (waiting[q] = "in" /\ waiting'[q] # "in")
               /\ \A q \in Kind("waitWS") : waiting'[q] # waiting[q] => RoomOf(q) \in untold'
    BY <1>1, <2>2 DEF HostMissed, WaitRoomTypeOK, Kind, In
  <2> QED BY <2>1, <2>2
<1>4. RoomTypeOK'
  BY <1>1, <1>3 DEF RoomTypeOK, WaitRoomTypeOK
<1>5. ASSUME NEW r \in Room PROVE In(r)' \subseteq In(r) /\ IsFiniteSet(In(r)')
  <2>1. In(r)' \subseteq In(r)
    BY <1>2, <1>3 DEF In, Kind
  <2> QED BY <2>1, FS_Subset DEF RoomInv
<1>6. \A q \in Kind("waitWS") : Sits(q)'
  BY <1>1, <1>3, SitsStill DEF RoomInv, callVars, Kind
<1>7. ASSUME faults' = 0, Kind("remind") = {}, NEW r \in Room \ untold' PROVE RoomRight(r)'
  <2>1. RoomRight(r)
    BY <1>1, <1>3, <1>7 DEF RoomInv, callVars
  <2>2. In(r)' = In(r)
    BY <1>2, <1>3, <1>7 DEF In, Kind
  <2>3. CountsOf(r)' = CountsOf(r) /\ Row1(r)' = Row1(r) /\ highest' = highest
    BY <1>1 DEF CountsOf, Row1
  <2> QED BY <2>1, <2>2, <2>3 DEF RoomRight
<1> QED BY <1>2, <1>4, <1>5, <1>6, <1>7 DEF RoomInv

\* A count is written, or lost by a statement that fails: none of its room is under way then.
LEMMA CountReaches ==
  ASSUME CallInv, RoomInv, UpdateWaitRoomCount
  PROVE  RoomInv'
<1>1. PICK c \in counting : LookForRoom(c) \/ WriteCount(c) \/ LoseCount(c)
  BY DEF UpdateWaitRoomCount
<1>2. RoomTypeOK /\ WaitRoomTypeOK /\ UNCHANGED <<job, fate, plan, waiting, mayChat, chat, highest, untold>>
  BY DEF RoomInv, RoomTypeOK, UpdateWaitRoomCount
<1>3. c \in [by : Proc, room : Room, n : Nat, at : {"look", "update", "insert"}]
  BY <1>2 DEF WaitRoomTypeOK
<1> DEFINE a == c.room
<1>4. a \in Room /\ c.n \in Nat /\ a.schedule \in Schedule /\ a.date \in Date
  BY <1>3 DEF Room
<1>5. waitRoom \in [Schedule -> [Date -> RoomRow]]
  BY <1>2 DEF RoomTypeOK
<1>6. Row1(a) \in RoomRow
  BY <1>4, <1>5 DEF Row1
<1>7. \A r : /\ In(r)' = In(r) /\ (Kind("waitWS")' = Kind("waitWS")) /\ (Kind("remind")' = Kind("remind"))
  BY <1>2 DEF In, Kind, RoomOf
<1>8. \A q \in Kind("waitWS") : Sits(q)'
  BY <1>2, SitsStill DEF RoomInv
<1>0. Fails => faults' # 0
  <2>1. faults \in Nat
    BY CallAssumption DEF CallInv, CallTypeOK
  <2> QED BY <2>1 DEF Fails
<1>9. CASE LookForRoom(c)
  <2>5. PICK found \in BOOLEAN :
          /\ counting' = (counting \ {c}) \cup {[c EXCEPT !.at = IF found THEN "update" ELSE "insert"]}
          /\ \/ found = Row1(a).there /\ UNCHANGED faults
             \/ Row1(a).there /\ ~found /\ Fails
    BY <1>9 DEF LookForRoom
  <2> DEFINE d == [c EXCEPT !.at = IF found THEN "update" ELSE "insert"]
  <2>1. counting' = (counting \ {c}) \cup {d} /\ waitRoom' = waitRoom
    BY <1>9, <2>5 DEF LookForRoom
  <2>2. /\ d \in [by : Proc, room : Room, n : Nat, at : {"look", "update", "insert"}]
        /\ d.room = a /\ d.n = c.n /\ (d.at = "insert" => ~found)
    BY <1>3
  <2> HIDE DEF d
  <2>3. RoomTypeOK'
    BY <1>2, <2>1, <2>2 DEF RoomTypeOK, WaitRoomTypeOK
  <2>4. ASSUME faults' = 0, Kind("remind") = {}, NEW r \in Room \ untold PROVE RoomRight(r)'
    <3>4. found = Row1(a).there /\ faults = 0
      BY <1>0, <2>4, <2>5
    <3>1. RoomRight(r) /\ Row1(r)' = Row1(r)
      BY <2>1, <2>4, <3>4 DEF RoomInv, Row1
    <3>2. CASE r = a
      <4>1. c \in CountsOf(r) /\ \A e \in CountsOf(r) : e = c
        BY <3>1, <3>2 DEF RoomRight, CountsOf
      <4>2. CountsOf(r)' = {d}
        BY <2>1, <2>2, <3>2, <4>1 DEF CountsOf
      <4>3. c.n = Cardinality(In(r)) /\ highest[r] = Larger(c.n, Row1(r).peak)
        BY <3>1, <4>1 DEF RoomRight
      <4> QED BY <1>2, <1>7, <2>2, <3>1, <3>2, <3>4, <4>2, <4>3 DEF RoomRight
    <3>3. CASE r # a
      <4>1. CountsOf(r)' = CountsOf(r)
        BY <2>1, <2>2, <3>3 DEF CountsOf
      <4> QED BY <1>2, <1>7, <3>1, <4>1 DEF RoomRight
    <3> QED BY <3>2, <3>3
  <2> QED BY <1>2, <1>7, <1>8, <2>3, <2>4 DEF RoomInv
<1>10. CASE WriteCount(c)
  <2> DEFINE w == [there |-> TRUE, current |-> c.n, peak |-> Larger(c.n, Row1(a).peak)]
  <2>1. /\ counting' = counting \ {c}
        /\ \/ c.at = "insert" /\ Row1(a).there /\ waitRoom' = waitRoom
           \/ ~(c.at = "insert" /\ Row1(a).there) /\ waitRoom' = [waitRoom EXCEPT ![a.schedule][a.date] = w]
    BY <1>10 DEF WriteCount, SetRow
  <2>2. w \in RoomRow /\ w.current = c.n /\ w.peak = Larger(c.n, Row1(a).peak)
    BY <1>4, <1>6 DEF RoomRow, Larger
  <2> HIDE DEF w
  <2>3. waitRoom' \in [Schedule -> [Date -> RoomRow]]
    BY <1>4, <1>5, <2>1, <2>2
  <2>4. RoomTypeOK'
    BY <1>2, <2>1, <2>3 DEF RoomTypeOK, WaitRoomTypeOK
  <2>5. ASSUME faults' = 0, Kind("remind") = {}, NEW r \in Room \ untold PROVE RoomRight(r)'
    <3>1. RoomRight(r)
      BY <1>10, <2>5 DEF WriteCount, RoomInv
    <3>2. CASE r = a
      <4>1. c \in CountsOf(r) /\ \A e \in CountsOf(r) : e = c
        BY <3>1, <3>2 DEF RoomRight, CountsOf
      <4>2. CountsOf(r)' = {}
        BY <2>1, <4>1 DEF CountsOf
      <4>3. /\ c.n = Cardinality(In(r)) /\ highest[r] = Larger(c.n, Row1(r).peak)
            /\ ~(c.at = "insert" /\ Row1(r).there)
        BY <3>1, <4>1 DEF RoomRight
      <4>4. Row1(r)' = w
        BY <1>4, <1>5, <2>1, <3>2, <4>3 DEF Row1
      <4> QED BY <1>2, <1>7, <2>2, <3>2, <4>2, <4>3, <4>4 DEF RoomRight
    <3>3. CASE r # a
      <4>1. CountsOf(r)' = CountsOf(r)
        BY <2>1, <3>3 DEF CountsOf
      <4>2. Row1(r)' = Row1(r)
        <5>1. r.schedule # a.schedule \/ r.date # a.date
          BY <1>4, <3>3 DEF Room
        <5>2. r.schedule \in Schedule /\ r.date \in Date
          BY DEF Room
        <5>3. waitRoom'[r.schedule][r.date] = waitRoom[r.schedule][r.date]
          BY <1>4, <1>5, <2>1, <5>1, <5>2
        <5> QED BY <5>3 DEF Row1
      <4> QED BY <1>2, <1>7, <3>1, <4>1, <4>2 DEF RoomRight
    <3> QED BY <3>2, <3>3
  <2> QED BY <1>2, <1>7, <1>8, <2>4, <2>5 DEF RoomInv
<1>11. CASE LoseCount(c)
  <2>1. faults' # 0 /\ counting' = counting \ {c} /\ waitRoom' = waitRoom
    BY <1>0, <1>11 DEF LoseCount
  <2>2. RoomTypeOK'
    BY <1>2, <2>1 DEF RoomTypeOK, WaitRoomTypeOK
  <2> QED BY <1>2, <1>7, <1>8, <2>1, <2>2 DEF RoomInv
<1> QED BY <1>1, <1>9, <1>10, <1>11

\* A schedule call writes the row of a room only as a reminder.
LEMMA RemindersOpen ==
  ASSUME CallInv, StreamInv, ScheduleInv, RoomInv, NEW p \in Proc, RestOf(p), ScheduleStep(p),
         job[p].kind \in ScheduleKinds \cup {"startStream"}
  PROVE  waitRoom' = waitRoom \/ (Kind("remind") # {} /\ waitRoom' \in [Schedule -> [Date -> RoomRow]])
<1>1. CASE CreateWaitRoom(p)
  <2>1. job[p].kind # "startStream"
    <3>1. job[p].kind = "startStream" => StatementFits(p, Head(plan[p]), Tail(plan[p]))
      BY <1>1, StreamAt DEF StreamKinds, CreateWaitRoom, At
    <3> QED BY <1>1, <3>1 DEF CreateWaitRoom, At, StatementFits
  <2>2. ScheduleStatement(p, Head(plan[p]), Tail(plan[p]), seen[p])
    BY <1>1, <2>1, ScheduleAt DEF CreateWaitRoom, At
  <2>3. job[p].kind = "remind" /\ seen[p].of \in Read
    BY <1>1, <2>2 DEF CreateWaitRoom, At, ScheduleStatement, Reminding
  <2> DEFINE o == seen[p].of  w == [waitRoom[o.schedule][o.date] EXCEPT !.there = TRUE, !.current = 0]
  <2>4. o.schedule \in Schedule /\ o.date \in Date
    BY <2>3 DEF Read
  <2>5. waitRoom \in [Schedule -> [Date -> RoomRow]]
    BY DEF RoomInv, RoomTypeOK
  <2>6. w \in RoomRow
    <3>1. waitRoom[o.schedule][o.date] \in RoomRow
      BY <2>4, <2>5
    <3> QED BY <3>1 DEF RoomRow
  <2>7. waitRoom' = [waitRoom EXCEPT ![o.schedule][o.date] = w]
    BY <1>1, <2>4, <2>5 DEF CreateWaitRoom
  <2> HIDE DEF w
  <2> QED BY <2>3, <2>4, <2>5, <2>6, <2>7 DEF Kind
<1>2. CASE \/ CreateSchedule(p) \/ InsertSchedule(p) \/ GenerateOccurrences(p) \/ CreateOccurrence(p)
           \/ UpdateSchedule(p) \/ WriteSchedule(p) \/ CancelSchedule(p) \/ Delete(p)
  BY <1>2 DEF CreateSchedule, InsertSchedule, GenerateOccurrences, CreateOccurrence, InsertOne, SetSchedule,
              UpdateSchedule, WriteSchedule, CancelSchedule, Delete, scheduleVars
<1>3. CASE \/ CancelFutureOccurrences(p) \/ CancelOccurrence(p) \/ CancelSingleOccurrence(p)
           \/ RefillAllOccurrences(p) \/ Subscription(p) \/ CheckAndSendTieredReminders(p) \/ RemindNext(p)
  BY <1>3 DEF CancelFutureOccurrences, CancelOccurrence, CancelSingleOccurrence, RefillAllOccurrences,
              Subscription, CheckAndSendTieredReminders, RemindNext, scheduleVars
<1>4. CASE \/ UpdateOccurrence(p) \/ LogReminder(p) \/ MarkMissedOccurrences(p)
           \/ CheckAndAutoLinkStream(p) \/ LinkOccurrence(p) \/ LinkSchedule(p)
  BY <1>4 DEF UpdateOccurrence, LogReminder, MarkMissedOccurrences, CheckAndAutoLinkStream,
              LinkOccurrence, LinkSchedule, scheduleVars
<1> QED BY <1>1, <1>2, <1>3, <1>4 DEF ScheduleStep

\* The rooms, their sockets and their counts.
LEMMA RoomsHold == Spec => []RoomInv
<1>1. Init => RoomInv
  <2> SUFFICES ASSUME Init PROVE RoomInv
    OBVIOUS
  <2>1. RoomTypeOK
    <3>1. NoRoom \in RoomRow
      BY DEF NoRoom, RoomRow
    <3>2. waitRoom \in [Schedule -> [Date -> RoomRow]]
      BY <3>1 DEF Init, ScheduleInit
    <3> QED BY <3>2 DEF Init, WaitRoomInit, RoomTypeOK, WaitRoomTypeOK
  <2>2. \A r \in Room : In(r) = {} /\ CountsOf(r) = {}
    BY DEF Init, WaitRoomInit, In, CountsOf, Kind
  <2>3. \A p \in Kind("waitWS") : Sits(p)
    BY DEF Init, CallInit, WaitRoomInit, Sits, Kind
  <2>4. ASSUME NEW r \in Room PROVE RoomRight(r)
    <3>1. Row1(r) = NoRoom /\ highest[r] = 0
      BY DEF Init, ScheduleInit, WaitRoomInit, Row1, Room
    <3>2. NoRoom.current = 0 /\ NoRoom.peak = 0
      BY DEF NoRoom
    <3> QED BY <2>2, <3>1, <3>2, FS_EmptySet DEF RoomRight
  <2> QED BY <2>1, <2>2, <2>3, <2>4, FS_EmptySet DEF RoomInv
<1>2. CallInv /\ StreamInv /\ ScheduleInv /\ RoomInv /\ [Next]_vars => RoomInv'
  <2> SUFFICES ASSUME CallInv, StreamInv, ScheduleInv, RoomInv, [Next]_vars PROVE RoomInv'
    OBVIOUS
  <2>0. faults' = 0 => faults = 0
    BY FaultsGrow
  <2>1. ASSUME UNCHANGED waitRoomVars, job' = job,
               \A q \in Kind("waitWS") : fate'[q] = fate[q] /\ plan'[q] = plan[q],
               \/ waitRoom' = waitRoom
               \/ Kind("remind") # {} /\ waitRoom' \in [Schedule -> [Date -> RoomRow]]
        PROVE  RoomInv'
    <3>1. /\ Kind("waitWS")' = Kind("waitWS") /\ Kind("remind")' = Kind("remind")
          /\ \A r : In(r)' = In(r) /\ CountsOf(r)' = CountsOf(r)
      BY <2>1 DEF Kind, In, RoomOf, CountsOf, waitRoomVars
    <3>2. \A q \in Kind("waitWS") : Sits(q)'
      BY <2>1, SitsStill DEF RoomInv, waitRoomVars
    <3>3. RoomTypeOK'
      BY <2>1 DEF RoomInv, RoomTypeOK, WaitRoomTypeOK, waitRoomVars
    <3>4. ASSUME faults' = 0, Kind("remind") = {}, NEW r \in Room \ untold' PROVE RoomRight(r)'
      <4>1. RoomRight(r) /\ Row1(r)' = Row1(r) /\ highest' = highest
        BY <2>0, <2>1, <3>4 DEF RoomInv, Row1, waitRoomVars
      <4> QED BY <3>1, <4>1 DEF RoomRight
    <3> QED BY <2>1, <3>1, <3>2, <3>3, <3>4 DEF RoomInv, waitRoomVars
  <2>2. ASSUME NEW p \in Proc, job[p].kind # "waitWS", RestOf(p)
        PROVE  job' = job /\ \A q \in Kind("waitWS") : fate'[q] = fate[q] /\ plan'[q] = plan[q]
    BY <2>2 DEF RestOf, Kind
  <2>3. ASSUME NEW p \in Proc, job[p].kind \in ScheduleKinds \cup {"startStream"}, ScheduleStep(p), RestOf(p),
               UNCHANGED waitRoomVars
        PROVE  RoomInv'
    <3>1. job[p].kind # "waitWS"
      BY <2>3 DEF ScheduleKinds
    <3> QED BY <2>1, <2>2, <2>3, <3>1, RemindersOpen
  <2>4. ASSUME NEW p \in Proc, job[p].kind # "waitWS", RestOf(p), UNCHANGED <<scheduleVars, waitRoomVars>>
        PROVE  RoomInv'
    BY <2>1, <2>2, <2>4 DEF scheduleVars
  <2>5. ASSUME Rest, UNCHANGED <<scheduleVars, waitRoomVars>> PROVE RoomInv'
    BY <2>1, <2>5 DEF Rest, scheduleVars
  <2>6. ASSUME WaitRoomStep PROVE RoomInv'
    <3>1. CASE UpdateWaitRoomCount
      BY <3>1, CountReaches
    <3>2. ASSUME UNCHANGED scheduleVars, NEW p \in Kind("waitWS"),
                 OpenWaitSocket(p) \/ Register(p) \/ Say(p) \/ LeaveSocket(p) \/ Unregister(p)
          PROVE  RoomInv'
      <4>1. Moves(p) \/ Slips(p)
        BY <3>2 DEF OpenWaitSocket, Register, Say, LeaveSocket, Unregister, Asked, At, Hold, Continue, Moves,
                    Slips
      <4>2. RestOf(p)
        BY <4>1, MoveIsOwn DEF Kind
      <4> QED BY <3>2, <4>2, SocketMoves
    <3> QED BY <2>6, <3>1, <3>2, HubCloses DEF WaitRoomStep, HubStep
  <2>7. ScheduleKinds \cap {"waitWS"} = {}
    BY DEF ScheduleKinds
  <2> QED BY <2>3, <2>4, <2>5, <2>6, <2>7, StepsOfSchedules DEF ScheduleCases
<1> QED BY <1>1, <1>2, CallsHold, StreamsHold, SchedulesHold, PTL DEF Spec

\* The row of a room has the number of those that wait, and the most there were, once
\* its counts are written, as long as no statement has failed.
THEOREM CountsDoReach == Spec => []CountsReachTheRow
<1>1. RoomInv => CountsReachTheRow
  BY DEF RoomInv, CountsReachTheRow, RoomRight, CountsOf
<1> QED BY <1>1, RoomsHold, PTL

\* A stream ends once, its counter is the number of its sessions, and the row of
\* a waiting room has the number of those that wait.
THEOREM StreamsDoAddUp == Spec => []StreamsAddUp
BY EndedStays, CountIsRight, CountsDoReach, PTL DEF StreamsAddUp
-----------------------------------------------------------------------------
(***************************************************************************)
(* Streams: the host of a stream stays its host, whatever stale row is     *)
(* written back.                                                           *)
(***************************************************************************)
OneHost(s, r) == row[s].status # "none" /\ r.status # "none" /\ r.host = row[s].host

\* What p has still to write: a row that is not there, or one of the same host.
KeepsHost(p) ==
  /\ job[p].kind = "createStream" => row[Of(p)].status = "none"
  /\ Head(plan[p]) = "updateStream" => OneHost(Of(p), seen[p].row)
  /\ job[p].kind = "syncCounts" => \A t \in DOMAIN seen[p].rows : OneHost(t, seen[p].rows[t])

OwnInv == \A p \in Kinds(StreamKinds) : fate[p] = "running" => KeepsHost(p)

\* What comes after the first statement is no write of a row.
LEMMA TailsWriteNoRow ==
  ASSUME NEW p \in Proc, NEW h, NEW t, StatementFits(p, h, t), job[p].kind # "syncCounts",
         h \notin {"serving", "grace", "endGone", "leave"}
  PROVE  t = <<>> \/ Head(t) # "updateStream"
<1> DEFINE Two == {<<"resetCount", "autoLink">>, <<"clearCount", "removeRoom">>, <<"hostPeer", "serving">>,
                   <<"hostOff", "grace">>, <<"join", "serving">>, <<"viewerPeer", "serving">>,
                   <<"incrCount", "serving">>}
           One == {<<"clearCount">>, <<"autoLink">>, <<"linkSchedule">>, <<"removeRoom">>, <<"serving">>,
                   <<"leave">>, <<"grace">>, <<"decrCount">>}
<1>1. \A x \in One : Head(x) # "updateStream"
  BY TailOf1
<1>2. \A x \in Two : Head(x) # "updateStream"
  BY TailOf2
<1>3. Head(<<"incrCount", "viewerPeer", "serving">>) # "updateStream"
  BY TailOf3
<1>4. t = <<>> \/ t \in One \/ t \in Two \/ t = <<"incrCount", "viewerPeer", "serving">>
  BY DEF StatementFits, ViewerKinds
<1> QED BY <1>1, <1>2, <1>3, <1>4

\* A call that goes on writes a row next only when a host was gone.
LEMMA OnlyGoneUpdates ==
  ASSUME CallInv, StreamInv, NEW p \in Proc, job[p].kind \in StreamKinds, job[p].kind # "syncCounts",
         fate[p] = "running", StreamStep(p), fate'[p] = "running", Head(plan'[p]) = "updateStream"
  PROVE  EndGone(p) \/ UNCHANGED callVars
<1> USE DEF At, Go, Hold, Continue
<1> DEFINE h == Head(plan[p])  t == Tail(plan[p])
<1>1. StatementFits(p, h, t)
  BY StreamAt
<1>2. \A u, v : Follow(p, u, v) => u # <<>> /\ Head(u) = "updateStream"
  BY DEF Follow, CallInv, CallTypeOK
<1>3. ~Stop(p)
  BY DEF Stop, Break, CallInv, CallTypeOK
<1>4. \A v : Follow(p, t, v) => h \in {"serving", "grace", "endGone", "leave"}
  BY <1>1, <1>2, TailsWriteNoRow
<1> HIDE DEF h, t
<1>5. CASE \/ Create(p) \/ UpdateStream(p) \/ ResetCount(p) \/ ClearCount(p) \/ HostOn(p)
           \/ HandleHostConnection(p) \/ RemovePeer(p) \/ HostOff(p) \/ RemoveRoom(p)
           \/ HandleViewerConnection(p) \/ OpenSession(p) \/ IncrCount(p) \/ CloseSession(p)
           \/ DecrCount(p) \/ SyncCount(p) \/ SyncRow(p)
  BY <1>3, <1>4, <1>5 DEF h, t, Create, UpdateStream, ResetCount, ClearCount, HostOn, HandleHostConnection,
       RemovePeer, HostOff, RemoveRoom, HandleViewerConnection, OpenSession, IncrCount, CloseSession,
       DecrCount, SyncCount, SyncRow
<1>6. CASE Negotiate(p) \/ ExpirePeer(p)
  BY <1>6 DEF Negotiate, ExpirePeer, callVars
<1>7. CASE CloseSocket(p)
  <2>1. <<"removePeer">> \o <<"hostOff", "grace">> = <<"removePeer", "hostOff", "grace">>
        /\ <<"removePeer">> \o <<"leave">> = <<"removePeer", "leave">>
    BY Joins1, Joins2
  <2>2. Head(<<"removePeer", "hostOff", "grace">>) # "updateStream"
    BY TailOf3
  <2>3. Head(<<"removePeer", "leave">>) # "updateStream"
    BY TailOf2
  <2> QED BY <1>2, <1>7, <2>1, <2>2, <2>3 DEF CloseSocket
<1>8. CASE RejoinTimer(p)
  <2>1. Head(<<"endGone">>) # "updateStream"
    BY TailOf1
  <2> QED BY <1>2, <1>8, <2>1 DEF RejoinTimer
<1>9. CASE JoinStream(p)
  <2>1. t \in {<<"serving">>, <<"viewerPeer", "serving">>}
    BY <1>1, <1>9 DEF JoinStream, StatementFits, h, t
  <2>2. <<"openSession", "incrCount">> \o t \in
          {<<"openSession", "incrCount", "serving">>, <<"openSession", "incrCount", "viewerPeer", "serving">>}
    BY <2>1, Joins3, Joins4
  <2>3. Head(<<"openSession", "incrCount", "serving">>) # "updateStream"
    BY TailOf3
  <2>4. Head(<<"openSession", "incrCount", "viewerPeer", "serving">>) # "updateStream"
    BY TailOf4
  <2> QED BY <1>2, <1>3, <1>9, <2>2, <2>3, <2>4 DEF JoinStream, t
<1>10. CASE LeaveStream(p)
  <2>1. Head(<<"closeSession", "decrCount">>) # "updateStream"
    BY TailOf2
  <2> QED BY <1>2, <1>3, <1>10, <2>1 DEF LeaveStream
<1>11. CASE \/ CreateStream(p) \/ StartStream(p) \/ SwitchRoomMode(p) \/ EndStream(p)
            \/ OpenHostSocket(p) \/ OpenViewerSocket(p) \/ SyncCounts(p)
  BY <1>11 DEF CreateStream, StartStream, SwitchRoomMode, EndStream, OpenHostSocket, OpenViewerSocket,
       SyncCounts, Asked
<1> QED BY <1>5, <1>6, <1>7, <1>8, <1>9, <1>10, <1>11 DEF StreamStep

\* A new call has read the row as it is.
LEMMA BeginKeepsHost ==
  ASSUME CallInv, StreamInv, NEW p \in Proc, job[p].kind \in StreamKinds,
         \/ CreateStream(p) \/ StartStream(p) \/ SwitchRoomMode(p) \/ EndStream(p)
         \/ OpenHostSocket(p) \/ OpenViewerSocket(p) \/ SyncCounts(p)
  PROVE  fate'[p] = "running" => KeepsHost(p)'
<1> USE DEF Asked, Begin, Refuse, Return
<1>1. \A t, v : Follow(p, t, v) =>
        /\ fate'[p] = (IF t = <<>> THEN "done" ELSE "running") /\ plan'[p] = t /\ job' = job
        /\ fate'[p] = "running" => seen'[p] = v
  BY DEF Follow, CallInv, CallTypeOK
<1>2. Break(p) => fate'[p] = "failed" /\ job' = job
  BY DEF Break, CallInv, CallTypeOK
<1>3. row' = row /\ row \in [Stream -> Row]
  BY StreamBegins DEF StreamInv, StreamTypeOK
<1>4. CASE CreateStream(p)
  <2>1. Head(<<"insertStream">>) # "updateStream"
    BY TailOf1
  <2> QED BY <1>1, <1>3, <1>4, <2>1 DEF CreateStream, KeepsHost, Of
<1>5. CASE StartStream(p) \/ SwitchRoomMode(p) \/ EndStream(p)
  <2>1. job[p].kind \in {"startStream", "switchMode", "endStream"} /\ Of(p) \in Stream
    BY <1>5, StreamJob DEF StartStream, SwitchRoomMode, EndStream
  <2> DEFINE r == row[Of(p)]
  <2>2. r \in Row
    BY <1>3, <2>1
  <2>3. /\ [r EXCEPT !.status = "live"].status = "live" /\ [r EXCEPT !.status = "live"].host = r.host
        /\ [r EXCEPT !.mode = job[p].mode].status = r.status /\ [r EXCEPT !.mode = job[p].mode].host = r.host
        /\ AsEnded(Of(p)).status = "ended" /\ AsEnded(Of(p)).host = r.host
    BY <2>2 DEF Row, AsEnded, GetByID
  <2>4. \/ Break(p)
        \/ Follow(p, <<"resetCount", "autoLink">>, Nothing)
        \/ \E t, v : Follow(p, t, v) /\ OneHost(Of(p), v.row)
    <3>1. CASE StartStream(p)
      <4> DEFINE v == [stream |-> Of(p), row |-> [r EXCEPT !.status = "live"]]
      <4>1. \/ Break(p)
            \/ Follow(p, <<"resetCount", "autoLink">>, Nothing)
            \/ r.status = "preparing" /\ Follow(p, <<"updateStream", "resetCount", "autoLink">>, v)
        BY <3>1 DEF StartStream, GetByID
      <4>2. r.status = "preparing" => OneHost(Of(p), v.row)
        BY <2>3 DEF OneHost
      <4> HIDE DEF v
      <4> QED BY <4>1, <4>2
    <3>2. CASE SwitchRoomMode(p)
      <4> DEFINE v == [stream |-> Of(p), row |-> [r EXCEPT !.mode = job[p].mode]]
      <4>1. Break(p) \/ (r.status # "none" /\ Follow(p, <<"updateStream">>, v))
        BY <3>2 DEF SwitchRoomMode, GetByID
      <4>2. r.status # "none" => OneHost(Of(p), v.row)
        BY <2>3 DEF OneHost
      <4> HIDE DEF v
      <4> QED BY <4>1, <4>2
    <3>3. CASE EndStream(p)
      BY <1>5, <2>3, <3>3 DEF EndStream, OneHost
    <3> QED BY <1>5, <3>1, <3>2, <3>3
  <2>5. Head(<<"resetCount", "autoLink">>) # "updateStream"
    BY TailOf2
  <2> HIDE DEF r
  <2> QED BY <1>1, <1>2, <1>3, <2>1, <2>4, <2>5 DEF KeepsHost, OneHost, Of
<1>6. CASE OpenHostSocket(p) \/ OpenViewerSocket(p)
  <2>1. job[p].kind \in ViewerKinds \cup {"hostWS"} /\ job' = job
    BY <1>1, <1>2, <1>6 DEF OpenHostSocket, OpenViewerSocket, ViewerKinds
  <2>2. \/ Break(p)
        \/ \E t \in {<<"hostOn", "hostPeer", "serving">>, <<"viewerPeer", "join", "serving">>,
                     <<"join", "viewerPeer", "serving">>} : Follow(p, t, Nothing)
    BY <1>6 DEF OpenHostSocket, OpenViewerSocket
  <2>3. \A t \in {<<"hostOn", "hostPeer", "serving">>, <<"viewerPeer", "join", "serving">>,
                  <<"join", "viewerPeer", "serving">>} : Head(t) # "updateStream"
    BY TailOf3
  <2> QED BY <1>1, <1>2, <2>1, <2>2, <2>3 DEF KeepsHost, ViewerKinds
<1>7. CASE SyncCounts(p)
  <2> DEFINE v == [rows |-> [x \in ListLive |-> row[x]]]
  <2>1. PICK t : Follow(p, t, v)
    BY <1>7 DEF SyncCounts
  <2>2. job[p].kind = "syncCounts" /\ job' = job
    BY <1>1, <1>7, <2>1 DEF SyncCounts
  <2>3. \A x \in DOMAIN v.rows : /\ row'[x].status # "none" /\ v.rows[x].status # "none"
                                  /\ v.rows[x].host = row'[x].host
    BY <1>3 DEF ListLive
  <2>4. fate'[p] = "running" => Head(plan'[p]) # "updateStream"
    <3>1. fate'[p] = "running" => SyncFits(plan'[p], seen'[p])
      BY <1>7, <2>2, StreamBegins DEF Fit, StreamFits
    <3>2. fate'[p] = "running" => Head(plan'[p]) \in {"syncCount", "syncRow"}
      <4> SUFFICES ASSUME fate'[p] = "running" PROVE Head(plan'[p]) \in {"syncCount", "syncRow"}
        OBVIOUS
      <4>1. plan'[p] \in Seq({"syncCount", "syncRow"}) /\ plan'[p] # <<>>
        BY <3>1 DEF SyncFits
      <4> QED BY <4>1
    <3> QED BY <3>2
  <2> HIDE DEF v
  <2> QED BY <1>1, <2>1, <2>2, <2>3, <2>4 DEF KeepsHost, OneHost
<1> QED BY <1>4, <1>5, <1>6, <1>7

\* The next statement writes no other host.
LEMMA StepKeepsHost ==
  ASSUME CallInv, StreamInv, OwnInv, NEW p \in Proc, job[p].kind \in StreamKinds, StreamStep(p),
         NEW s \in Stream, row[s].status # "none"
  PROVE  row'[s].status # "none" /\ row'[s].host = row[s].host
<1> USE DEF At
<1>1. CASE row' = row
  BY <1>1
<1>2. CASE row' # row
  <2>1. fate[p] = "running" /\ (Create(p) \/ UpdateStream(p) \/ SyncRow(p))
    BY <1>2, WritersWrite
  <2>2. KeepsHost(p) /\ StatementFits(p, Head(plan[p]), Tail(plan[p]))
    BY <2>1, StreamAt DEF OwnInv, Kinds
  <2>3. row \in [Stream -> Row]
    BY DEF StreamInv, StreamTypeOK
  <2>4. CASE Create(p)
    <3>1. Of(p) # s
      BY <2>2, <2>4 DEF Create, KeepsHost, StatementFits
    <3> QED BY <2>3, <2>4, <3>1 DEF Create, Update
  <2>5. CASE UpdateStream(p)
    <3>1. seen[p].stream = Of(p) /\ OneHost(Of(p), seen[p].row)
      BY <2>2, <2>5 DEF UpdateStream, KeepsHost, StatementFits, Held
    <3>2. row' = [row EXCEPT ![Of(p)] = seen[p].row]
      BY <1>2, <2>5, <3>1 DEF UpdateStream, Update
    <3> QED BY <2>3, <3>1, <3>2 DEF OneHost
  <2>6. CASE SyncRow(p)
    <3> DEFINE t == seen[p].stream  r == seen[p].rows[t]
    <3>1. OneHost(t, r)
      BY <2>2, <2>6 DEF SyncRow, KeepsHost, StatementFits
    <3>2. row' = [row EXCEPT ![t] = r]
      BY <1>2, <2>6 DEF SyncRow
    <3> HIDE DEF t, r
    <3> QED BY <2>3, <3>1, <3>2 DEF OneHost
  <2> QED BY <2>1, <2>4, <2>5, <2>6
<1> QED BY <1>1, <1>2

\* Nor does it write a row that is not there, but that of a stream it makes.
LEMMA NoneStays ==
  ASSUME CallInv, StreamInv, OwnInv, NEW p \in Proc, job[p].kind \in StreamKinds, StreamStep(p),
         NEW s \in Stream, row[s].status = "none", job[p].kind = "createStream" => Of(p) # s
  PROVE  row'[s].status = "none"
<1> USE DEF At
<1>1. CASE row' = row
  BY <1>1
<1>2. CASE row' # row
  <2>1. fate[p] = "running" /\ (Create(p) \/ UpdateStream(p) \/ SyncRow(p))
    BY <1>2, WritersWrite
  <2>2. KeepsHost(p) /\ StatementFits(p, Head(plan[p]), Tail(plan[p]))
    BY <2>1, StreamAt DEF OwnInv, Kinds
  <2>3. row \in [Stream -> Row]
    BY DEF StreamInv, StreamTypeOK
  <2>4. CASE Create(p)
    <3>1. Of(p) # s
      BY <2>2, <2>4 DEF Create, StatementFits
    <3> QED BY <2>3, <2>4, <3>1 DEF Create, Update
  <2>5. CASE UpdateStream(p)
    <3>1. seen[p].stream = Of(p) /\ OneHost(Of(p), seen[p].row)
      BY <2>2, <2>5 DEF UpdateStream, KeepsHost, StatementFits, Held
    <3>2. row' = [row EXCEPT ![Of(p)] = seen[p].row] /\ Of(p) # s
      BY <1>2, <2>5, <3>1 DEF UpdateStream, Update, OneHost
    <3> QED BY <2>3, <3>2
  <2>6. CASE SyncRow(p)
    <3> DEFINE t == seen[p].stream  r == seen[p].rows[t]
    <3>1. OneHost(t, r)
      BY <2>2, <2>6 DEF SyncRow, KeepsHost, StatementFits
    <3>2. row' = [row EXCEPT ![t] = r]
      BY <1>2, <2>6 DEF SyncRow
    <3> HIDE DEF t, r
    <3> QED BY <2>3, <3>1, <3>2 DEF OneHost
  <2> QED BY <2>1, <2>4, <2>5, <2>6
<1> QED BY <1>1, <1>2

\* A call that goes on has still to write what it had, or what it has now read.
LEMMA GoesOnKeepsHost ==
  ASSUME CallInv, StreamInv, OwnInv, NEW p \in Proc, job[p].kind \in StreamKinds, StreamStep(p),
         fate[p] = "running", RestOf(p)
  PROVE  fate'[p] = "running" => KeepsHost(p)'
<1> USE DEF At, Go, Hold, Continue
<1> SUFFICES ASSUME fate'[p] = "running" PROVE KeepsHost(p)'
  OBVIOUS
<1>1. KeepsHost(p) /\ StatementFits(p, Head(plan[p]), Tail(plan[p]))
  BY StreamAt DEF OwnInv, Kinds
<1>2. job' = job
  BY DEF RestOf
<1>3. \A t, v : Follow(p, t, v) => t # <<>> /\ plan'[p] = t /\ seen'[p] = v
  BY DEF Follow, CallInv, CallTypeOK
<1>4. \A s \in Stream : row[s].status # "none" => row'[s].status # "none" /\ row'[s].host = row[s].host
  BY StepKeepsHost
<1>5. job[p].kind # "createStream"
  <2> SUFFICES ASSUME job[p].kind = "createStream" PROVE FALSE
    OBVIOUS
  <2>1. plan[p] = <<"insertStream">>
    BY StreamAt DEF StreamFits
  <2>2. Head(plan[p]) = "insertStream" /\ Tail(plan[p]) = <<>>
    BY <2>1, TailOf1
  <2>3. Create(p)
    BY <2>2 DEF StreamStep, Asked, CreateStream, StartStream, SwitchRoomMode, EndStream, UpdateStream,
         ResetCount, ClearCount, OpenHostSocket, HostOn, HandleHostConnection, Negotiate, ExpirePeer,
         CloseSocket, RemovePeer, HostOff, RejoinTimer, EndGone, RemoveRoom, OpenViewerSocket,
         HandleViewerConnection, JoinStream, OpenSession, IncrCount, LeaveStream, CloseSession, DecrCount,
         SyncCounts, SyncCount, SyncRow
  <2> QED BY <1>3, <2>2, <2>3 DEF Create
<1>6. CASE job[p].kind = "syncCounts"
  <2>1. SyncCount(p) \/ SyncRow(p)
    <3>1. Head(plan[p]) \in {"syncCount", "syncRow"}
      <4>1. plan[p] \in Seq({"syncCount", "syncRow"}) /\ plan[p] # <<>>
        BY <1>6, StreamAt DEF StreamFits, SyncFits
      <4> QED BY <4>1
    <3> QED BY <3>1 DEF StreamStep, Asked, CreateStream, Create, StartStream, SwitchRoomMode, EndStream,
         UpdateStream, ResetCount, ClearCount, OpenHostSocket, HostOn, HandleHostConnection, Negotiate,
         ExpirePeer, CloseSocket, RemovePeer, HostOff, RejoinTimer, EndGone, RemoveRoom, OpenViewerSocket,
         HandleViewerConnection, JoinStream, OpenSession, IncrCount, LeaveStream, CloseSession, DecrCount,
         SyncCounts
  <2> DEFINE t == seen[p].stream  v == [rows |-> [x \in DOMAIN seen[p].rows \ {t} |-> seen[p].rows[x]]]
  <2>2. \/ \E x : Follow(p, Tail(plan[p]), [rows |-> seen[p].rows, stream |-> x])
        \/ Follow(p, Tail(plan[p]), v)
    BY <2>1 DEF SyncCount, SyncRow
  <2>3. DOMAIN v.rows \subseteq DOMAIN seen[p].rows /\ \A x \in DOMAIN v.rows : v.rows[x] = seen[p].rows[x]
    OBVIOUS
  <2> HIDE DEF v
  <2>4. /\ DOMAIN seen'[p].rows \subseteq DOMAIN seen[p].rows
        /\ \A x \in DOMAIN seen'[p].rows : seen'[p].rows[x] = seen[p].rows[x]
    <3>1. CASE \E x : Follow(p, Tail(plan[p]), [rows |-> seen[p].rows, stream |-> x])
      <4>1. PICK x : Follow(p, Tail(plan[p]), [rows |-> seen[p].rows, stream |-> x])
        BY <3>1
      <4>2. seen'[p] = [rows |-> seen[p].rows, stream |-> x]
        BY <1>3, <4>1
      <4>3. seen'[p].rows = seen[p].rows
        BY <4>2
      <4> QED BY <4>3
    <3>2. CASE Follow(p, Tail(plan[p]), v)
      <4>1. seen'[p] = v
        BY <1>3, <3>2
      <4> QED BY <2>3, <4>1
    <3> QED BY <2>2, <3>1, <3>2
  <2>5. DOMAIN seen[p].rows \subseteq Stream
    BY <1>6, StreamAt DEF StreamFits, SyncFits
  <2>6. \A x \in DOMAIN seen[p].rows : OneHost(x, seen[p].rows[x])
    BY <1>1, <1>6 DEF KeepsHost
  <2>7. Head(plan'[p]) # "updateStream"
    <3>1. SyncFits(plan'[p], seen'[p])
      <4>1. Fit(p)'
        BY StreamKeeps
      <4> QED BY <1>2, <1>6, <4>1 DEF Fit, StreamFits
    <3>2. plan'[p] \in Seq({"syncCount", "syncRow"}) /\ plan'[p] # <<>>
      BY <3>1 DEF SyncFits
    <3>3. Head(plan'[p]) \in {"syncCount", "syncRow"}
      BY <3>2
    <3> QED BY <3>3
  <2>8. \A x \in DOMAIN seen'[p].rows : /\ row'[x].status # "none" /\ seen'[p].rows[x].status # "none"
                                        /\ seen'[p].rows[x].host = row'[x].host
    BY <1>4, <2>4, <2>5, <2>6 DEF OneHost
  <2> QED BY <1>2, <1>6, <2>7, <2>8 DEF KeepsHost, OneHost
<1>7. CASE job[p].kind # "syncCounts" /\ UNCHANGED callVars
  <2>1. seen' = seen /\ plan' = plan
    BY <1>7 DEF callVars
  <2>2. Head(plan[p]) = "updateStream" => Of(p) \in Stream
    BY <1>7, StreamJob
  <2> QED BY <1>1, <1>2, <1>4, <1>5, <1>7, <2>1, <2>2 DEF KeepsHost, OneHost, Of
<1>8. CASE job[p].kind # "syncCounts" /\ EndGone(p)
  <2>1. Of(p) \in Stream
    BY <1>8, StreamJob
  <2>2. row[Of(p)] \in Row /\ row' = row
    BY <1>8, <2>1 DEF EndGone, StreamInv, StreamTypeOK, streamVars
  <2>3. AsEnded(Of(p)).status = "ended" /\ AsEnded(Of(p)).host = row[Of(p)].host
    BY <2>2 DEF AsEnded, GetByID, Row
  <2> DEFINE v == [stream |-> Of(p), row |-> AsEnded(Of(p))]
  <2>4. \/ row[Of(p)].status = "live" /\ Follow(p, <<"updateStream", "clearCount", "removeRoom">>, v)
        \/ Follow(p, <<"removeRoom">>, Nothing)
    BY <1>8 DEF EndGone
  <2>5. row[Of(p)].status = "live" => OneHost(Of(p), v.row)
    BY <2>3 DEF OneHost
  <2>6. Head(<<"removeRoom">>) # "updateStream"
    BY TailOf1
  <2> HIDE DEF v
  <2>7. Head(plan'[p]) = "updateStream" => OneHost(Of(p), seen'[p].row)
    BY <1>3, <2>4, <2>5, <2>6
  <2> QED BY <1>2, <1>5, <1>8, <2>2, <2>7 DEF KeepsHost, OneHost, Of
<1>9. CASE job[p].kind # "syncCounts" /\ Head(plan'[p]) # "updateStream"
  BY <1>2, <1>5, <1>9 DEF KeepsHost
<1> QED BY <1>6, <1>7, <1>8, <1>9, OnlyGoneUpdates

\* A statement that is passed over, or is about schedules, is followed by no write.
LEMMA PassKeepsHost ==
  ASSUME CallInv, StreamInv, OwnInv, NEW p \in Proc, job[p].kind \in StreamKinds,
         ScheduleStep(p) \/ Fault(p, Ignored), UNCHANGED streamVars
  PROVE  fate'[p] = "running" => KeepsHost(p)'
<1> USE DEF At, Go, Hold, Continue
<1>1. fate[p] = "running"
  BY LinkFits DEF Fault, CheckAndAutoLinkStream, LinkOccurrence, LinkSchedule
<1>2. StatementFits(p, Head(plan[p]), Tail(plan[p]))
  BY <1>1, StreamAt
<1>3. \A t, v : Follow(p, t, v) =>
        /\ fate'[p] = (IF t = <<>> THEN "done" ELSE "running") /\ plan'[p] = t /\ job' = job
        /\ fate'[p] = "running" => seen'[p] = v
  BY DEF Follow, CallInv, CallTypeOK
<1>4. Break(p) => fate'[p] = "failed"
  BY DEF Break, CallInv, CallTypeOK
<1>5. CASE ScheduleStep(p)
  <2>1. CheckAndAutoLinkStream(p) \/ LinkOccurrence(p) \/ LinkSchedule(p)
    BY <1>5, LinkFits
  <2>2. job[p].kind = "startStream" /\ Tail(plan[p]) \in {<<>>, <<"linkSchedule">>}
    BY <1>2, <2>1 DEF CheckAndAutoLinkStream, LinkOccurrence, LinkSchedule, StatementFits
  <2>3. \E v : \E t \in {<<>>, <<"linkSchedule">>, <<"linkOccurrence", "linkSchedule">>} : Follow(p, t, v)
    BY <2>1, <2>2 DEF CheckAndAutoLinkStream, LinkOccurrence, LinkSchedule
  <2>4. Head(<<"linkSchedule">>) # "updateStream" /\ Head(<<"linkOccurrence", "linkSchedule">>) # "updateStream"
    BY TailOf1, TailOf2
  <2> QED BY <1>3, <2>2, <2>3, <2>4 DEF KeepsHost
<1>6. CASE Fault(p, Ignored)
  <2>1. \/ Break(p)
        \/ Head(plan[p]) \in {"resetCount", "clearCount", "hostOn", "hostOff", "incrCount", "decrCount", "autoLink"}
           /\ Follow(p, Tail(plan[p]), seen[p])
    BY <1>2, <1>6 DEF Fault, Ignored, IgnoredStream, IgnoredBattle, IgnoredSchedule, StatementFits
  <2>2. CASE /\ Head(plan[p]) \in {"resetCount", "clearCount", "hostOn", "hostOff", "incrCount", "decrCount", "autoLink"}
             /\ Follow(p, Tail(plan[p]), seen[p])
    <3>1. job[p].kind \in {"startStream", "endStream", "hostWS"} \cup ViewerKinds
      BY <1>2, <2>2 DEF StatementFits
    <3>2. Tail(plan[p]) = <<>> \/ Head(Tail(plan[p])) # "updateStream"
      BY <1>2, <2>2, <3>1, TailsWriteNoRow DEF ViewerKinds
    <3> QED BY <1>3, <2>2, <3>1, <3>2 DEF KeepsHost, ViewerKinds
  <2> QED BY <1>4, <2>1, <2>2
<1> QED BY <1>5, <1>6

\* Nothing changes the host of a stream.
LEMMA HostsStay ==
  ASSUME CallInv, StreamInv, OwnInv, [Next]_vars, NEW s \in Stream, row[s].status # "none"
  PROVE  row'[s].status # "none" /\ row'[s].host = row[s].host
<1>1. CASE UNCHANGED streamVars
  BY <1>1 DEF streamVars
<1> QED BY <1>1, StepKeepsHost, StepsOfStreams DEF StreamCases

\* At any time the calls that write the row of a stream write the host it has.
LEMMA OwnHolds == Spec => []OwnInv
<1>1. Init => OwnInv
  BY DEF Init, CallInit, OwnInv, Kinds
<1>2. CallInv /\ StreamInv /\ OwnInv /\ [Next]_vars => OwnInv'
  <2> SUFFICES ASSUME CallInv, StreamInv, OwnInv, [Next]_vars PROVE OwnInv'
    OBVIOUS
  <2>1. ASSUME NEW q \in Proc, job[q].kind \in StreamKinds, fate'[q] = "running", fate[q] = "running",
               job' = job, plan'[q] = plan[q], seen'[q] = seen[q],
               \/ row' = row
               \/ \E p \in Proc \ {q} : job[p].kind \in StreamKinds /\ StreamStep(p)
        PROVE  KeepsHost(q)'
    <3>1. KeepsHost(q) /\ StatementFits(q, Head(plan[q]), Tail(plan[q])) /\ StreamFits(q, plan[q], seen[q])
      BY <2>1, StreamAt DEF OwnInv, Kinds
    <3>2. job[q].kind = "createStream" => row'[Of(q)].status = "none"
      <4> SUFFICES ASSUME job[q].kind = "createStream", row' # row PROVE row'[Of(q)].status = "none"
        BY <3>1 DEF KeepsHost
      <4>1. PICK p \in Proc \ {q} : job[p].kind \in StreamKinds /\ StreamStep(p)
        BY <2>1
      <4>2. Of(q) \in Stream /\ row[Of(q)].status = "none"
        BY <2>1, <3>1, StreamJob DEF KeepsHost
      <4>3. job[p].kind = "createStream" => Of(p) # Of(q)
        BY <4>1, FreshAssumption DEF CallInv, Of
      <4> QED BY <4>1, <4>2, <4>3, NoneStays
    <3>3. \A s \in Stream : row[s].status # "none" => row'[s].status # "none" /\ row'[s].host = row[s].host
      BY HostsStay
    <3>4. Head(plan[q]) = "updateStream" => Of(q) \in Stream
      BY <2>1, <3>1, StreamJob DEF StatementFits, ViewerKinds
    <3>5. job[q].kind = "syncCounts" => DOMAIN seen[q].rows \subseteq Stream
      BY <3>1 DEF StreamFits, SyncFits
    <3>6. Head(plan[q]) = "updateStream" =>
            /\ row'[Of(q)].status # "none" /\ seen[q].row.status # "none" /\ seen[q].row.host = row'[Of(q)].host
      BY <3>1, <3>3, <3>4 DEF KeepsHost, OneHost
    <3>7. job[q].kind = "syncCounts" => \A t \in DOMAIN seen[q].rows :
            /\ row'[t].status # "none" /\ seen[q].rows[t].status # "none" /\ seen[q].rows[t].host = row'[t].host
      BY <3>1, <3>3, <3>5 DEF KeepsHost, OneHost
    <3> QED BY <2>1, <3>2, <3>6, <3>7 DEF KeepsHost, OneHost, Of
  <2>2. ASSUME NEW p \in Proc, RestOf(p), row' = row \/ (job[p].kind \in StreamKinds /\ StreamStep(p)),
               job[p].kind \in StreamKinds /\ fate'[p] = "running" => KeepsHost(p)'
        PROVE  OwnInv'
    BY <2>1, <2>2 DEF OwnInv, Kinds, RestOf
  <2>3. ASSUME Rest, row' = row PROVE OwnInv'
    BY <2>1, <2>3 DEF OwnInv, Kinds, Rest
  <2>4. ASSUME NEW p \in Proc, job[p].kind \in StreamKinds, StreamStep(p) PROVE OwnInv'
    <3>1. CASE UNCHANGED callVars
      <4>1. ASSUME NEW q \in Kinds(StreamKinds), fate[q] = "running" PROVE KeepsHost(q)'
        <5>1. CASE q = p
          <6>1. RestOf(p)
            BY <3>1, <4>1, <5>1 DEF RestOf, callVars, Over
          <6> QED BY <2>4, <3>1, <4>1, <5>1, <6>1, GoesOnKeepsHost DEF callVars
        <5>2. CASE q # p
          BY <2>1, <2>4, <3>1, <4>1, <5>2 DEF callVars, Kinds
        <5> QED BY <5>1, <5>2
      <4> QED BY <3>1, <4>1 DEF OwnInv, Kinds, callVars
    <3>2. CASE RestOf(p)
      <4>1. CASE fate[p] = "running"
        BY <2>2, <2>4, <3>2, <4>1, GoesOnKeepsHost
      <4>2. CASE fate[p] = "new"
        BY <2>2, <2>4, <3>2, <4>2, NewBegins, BeginKeepsHost
      <4>3. fate[p] \in {"new", "running"}
        BY <3>2 DEF RestOf, Over, CallInv, CallTypeOK
      <4> QED BY <4>1, <4>2, <4>3
    <3> QED BY <2>4, <3>1, <3>2, StreamMoves, MoveIsOwn
  <2>5. ASSUME NEW p \in Proc, job[p].kind \in StreamKinds, UNCHANGED streamVars,
               ScheduleStep(p) \/ Fault(p, Ignored)
        PROVE  OwnInv'
    <3>1. RestOf(p)
      BY <2>5, ScheduleMoves, MoveIsOwn DEF Moves
    <3> QED BY <2>2, <2>5, <3>1, PassKeepsHost DEF streamVars
  <2>6. ASSUME UNCHANGED streamVars PROVE row' = row
    BY <2>6 DEF streamVars
  <2> QED BY <2>2, <2>3, <2>4, <2>5, <2>6, StepsOfStreams DEF StreamCases
<1> QED BY <1>1, <1>2, CallsHold, StreamsHold, PTL DEF Spec

-----------------------------------------------------------------------------
(***************************************************************************)
(* Battles: the rows, and what the calls about them have to do and hold.   *)
(***************************************************************************)
BattleKinds == {"invitePK", "acceptPK", "rejectPK", "statusPK", "vote"}
NoRow == [status |-> "none"]
BattleRow == [status : Open \cup {"rejected", "ended"}, a : Host, b : Host, streamA : Stream, streamB : Stream,
              winner : Host \cup {NoPeer}, since : Nat]
ActiveKey == [battle : Proc \cup {NoBattle}, until : Nat]

SameSides(r, x) == r.a = x.a /\ r.b = x.b /\ r.streamA = x.streamA /\ r.streamB = x.streamB
Owns(s, h) == row[s].status # "none" /\ row[s].host = h
Owned(r) == Owns(r.streamA, r.a) /\ Owns(r.streamB, r.b)

\* v is a row to write for battle b.
Changed(b, v, status) == /\ v.battle = b /\ v.row \in BattleRow /\ v.row.status = status /\ v.row.since <= now
                         /\ battle[b] \in BattleRow /\ SameSides(v.row, battle[b])

BattleFits(p, s, v) ==
  /\ job[p].kind = "invitePK" => /\ s = <<"insertPK">>
                                 /\ v \in BattleRow /\ v.status = "invite" /\ v.since <= now /\ Owned(v)
  /\ job[p].kind = "acceptPK" => /\ s \in {<<"updatePK", "keyA", "keyB", "zeroScores">>, <<"keyA", "keyB", "zeroScores">>,
                                           <<"keyB", "zeroScores">>, <<"zeroScores">>}
                                 /\ Changed(job[p].of, v, "active")
  /\ job[p].kind = "rejectPK" => s = <<"updatePK">> /\ Changed(job[p].of, v, "rejected")
  /\ job[p].kind = "statusPK" =>
       \/ s = <<"updatePK">> /\ Changed(job[p].of, v, "punishment")
       \/ /\ s \in {<<"updatePK", "dropA", "dropB">>, <<"dropA", "dropB">>, <<"dropB">>}
          /\ Changed(job[p].of, v, "ended")
  /\ job[p].kind = "vote" => s = <<"addPoints">> /\ v.battle \in Proc

\* Which call a statement is of, and what it then has to do.
BattleStatement(p, h, t) ==
  LET k == job[p].kind v == seen[p] IN
  /\ h \in {"insertPK", "updatePK", "keyA", "keyB", "zeroScores", "dropA", "dropB", "addPoints"}
  /\ h = "insertPK" => k = "invitePK" /\ t = <<>>
  /\ h = "updatePK" => \/ k = "acceptPK" /\ t = <<"keyA", "keyB", "zeroScores">> /\ v.row.status = "active"
                       \/ k = "rejectPK" /\ t = <<>> /\ v.row.status = "rejected"
                       \/ k = "statusPK" /\ t = <<>> /\ v.row.status = "punishment"
                       \/ k = "statusPK" /\ t = <<"dropA", "dropB">> /\ v.row.status = "ended"
  /\ h = "keyA" => k = "acceptPK" /\ t = <<"keyB", "zeroScores">>
  /\ h = "keyB" => k = "acceptPK" /\ t = <<"zeroScores">>
  /\ h = "zeroScores" => k = "acceptPK" /\ t = <<>>
  /\ h = "dropA" => k = "statusPK" /\ t = <<"dropB">> /\ v.row.status = "ended"
  /\ h = "dropB" => k = "statusPK" /\ t = <<>> /\ v.row.status = "ended"
  /\ h = "addPoints" => k = "vote" /\ t = <<>>

BattleTypes == /\ battle \in [Proc -> BattleRow \cup {NoRow}]
               /\ activeKey \in [Stream -> ActiveKey]
               /\ score \in [Proc -> [Host -> Nat]]
               /\ twice \subseteq Host
\* A battle is there when its invitation has ended, between hosts that have its streams.
RightRow(b) == battle[b] # NoRow => battle[b].since <= now /\ fate[b] \in Over /\ Owned(battle[b])
StandsBy(p) == fate[p] = "running" => BattleFits(p, plan[p], seen[p])
BattleInv == /\ BattleTypes
             /\ \A b \in Proc : RightRow(b)
             /\ \A p \in Kinds(BattleKinds) : StandsBy(p)

\* A row is one that is there.
LEMMA RowIsThere == \A r \in BattleRow : r # NoRow /\ r.status # "none"
BY DEF BattleRow, NoRow, Open

\* Each statement is one of these.
LEMMA BattleAt ==
  ASSUME CallInv, BattleInv, NEW p \in Proc, job[p].kind \in BattleKinds, fate[p] = "running"
  PROVE  /\ BattleFits(p, plan[p], seen[p])
         /\ BattleStatement(p, Head(plan[p]), Tail(plan[p]))
<1> DEFINE k == job[p].kind  s == plan[p]  h == Head(s)  t == Tail(s)  v == seen[p]
<1>1. BattleFits(p, s, v)
  BY DEF BattleInv, StandsBy, Kinds
<1>2. CASE k = "invitePK"
  <2>1. h = "insertPK" /\ t = <<>>
    BY <1>1, <1>2, TailOf1, Zenon DEF BattleFits
  <2> QED BY <1>1, <1>2, <2>1 DEF BattleStatement
<1>3. CASE k = "acceptPK"
  <2>1. v.row.status = "active"
    BY <1>1, <1>3 DEF BattleFits, Changed
  <2>2. CASE s = <<"updatePK", "keyA", "keyB", "zeroScores">>
    <3>1. h = "updatePK" /\ t = <<"keyA", "keyB", "zeroScores">>
      <4>1. /\ Head(<<"updatePK", "keyA", "keyB", "zeroScores">>) = "updatePK"
            /\ Tail(<<"updatePK", "keyA", "keyB", "zeroScores">>) = <<"keyA", "keyB", "zeroScores">>
        BY TailOf4
      <4> QED BY <2>2, <4>1, Zenon
    <3> QED BY <1>1, <1>3, <2>1, <3>1 DEF BattleStatement
  <2>3. CASE s = <<"keyA", "keyB", "zeroScores">>
    <3>1. h = "keyA" /\ t = <<"keyB", "zeroScores">>
      BY <2>3, TailOf3, Zenon
    <3> QED BY <1>1, <1>3, <2>1, <3>1 DEF BattleStatement
  <2>4. CASE s = <<"keyB", "zeroScores">>
    <3>1. h = "keyB" /\ t = <<"zeroScores">>
      BY <2>4, TailOf2, Zenon
    <3> QED BY <1>1, <1>3, <2>1, <3>1 DEF BattleStatement
  <2>5. CASE s = <<"zeroScores">>
    <3>1. h = "zeroScores" /\ t = <<>>
      BY <2>5, TailOf1, Zenon
    <3> QED BY <1>1, <1>3, <2>1, <3>1 DEF BattleStatement
  <2> QED BY <1>1, <1>3, <2>2, <2>3, <2>4, <2>5 DEF BattleFits
<1>4. CASE k = "rejectPK"
  <2>1. h = "updatePK" /\ t = <<>> /\ v.row.status = "rejected"
    BY <1>1, <1>4, TailOf1, Zenon DEF BattleFits, Changed
  <2> QED BY <1>1, <1>4, <2>1 DEF BattleStatement
<1>5. CASE k = "statusPK"
  <2>1. CASE s = <<"updatePK">> /\ v.row.status = "punishment"
    <3>1. h = "updatePK" /\ t = <<>>
      BY <2>1, TailOf1, Zenon
    <3> QED BY <1>1, <1>5, <2>1, <3>1 DEF BattleStatement
  <2>2. CASE s = <<"updatePK", "dropA", "dropB">> /\ v.row.status = "ended"
    <3>1. h = "updatePK" /\ t = <<"dropA", "dropB">>
      BY <2>2, TailOf3, Zenon
    <3> QED BY <1>1, <1>5, <2>2, <3>1 DEF BattleStatement
  <2>3. CASE s = <<"dropA", "dropB">> /\ v.row.status = "ended"
    <3>1. h = "dropA" /\ t = <<"dropB">>
      BY <2>3, TailOf2, Zenon
    <3> QED BY <1>1, <1>5, <2>3, <3>1 DEF BattleStatement
  <2>4. CASE s = <<"dropB">> /\ v.row.status = "ended"
    <3>1. h = "dropB" /\ t = <<>>
      BY <2>4, TailOf1, Zenon
    <3> QED BY <1>1, <1>5, <2>4, <3>1 DEF BattleStatement
  <2> QED BY <1>1, <1>5, <2>1, <2>2, <2>3, <2>4 DEF BattleFits, Changed
<1>6. CASE k = "vote"
  <2>1. h = "addPoints" /\ t = <<>>
    BY <1>1, <1>6, TailOf1, Zenon DEF BattleFits
  <2> QED BY <1>1, <1>6, <2>1 DEF BattleStatement
<1> QED BY <1>2, <1>3, <1>4, <1>5, <1>6 DEF BattleKinds

\* What a request about a battle names.
LEMMA BattleJob ==
  ASSUME CallInv, NEW p \in Proc, job[p].kind \in BattleKinds
  PROVE  /\ job[p] \in BattleRequests
         /\ job[p].kind \in {"acceptPK", "rejectPK", "statusPK"} => job[p].of \in Proc
         /\ job[p].kind = "invitePK" => job[p].user \in Host /\ job[p].target \in Host
         /\ job[p].kind = "vote" => job[p].user \in Host /\ job[p].points \in Nat /\ job[p].stream \in Stream
<1>1. job[p] \in BattleRequests
  <2>1. job[p] \notin StreamRequests /\ job[p] \notin ScheduleRequests /\ job[p] \notin WaitRoomRequests
    BY RequestKinds DEF BattleKinds
  <2>2. job[p] \notin ChatRequests
    <3>1. job[p].kind \notin ChatKinds
      BY DEF ChatKinds, BattleKinds
    <3> QED BY <3>1, RequestKinds
  <2>3. job[p] # [kind |-> "none"]
    BY DEF BattleKinds
  <2> QED BY <2>1, <2>2, <2>3, JobOf
<1> QED BY <1>1 DEF BattleRequests, InvitePKRequest, AcceptPKRequest, RejectPKRequest, StatusRequest, GiftVote

\* The clock, the hosts of streams and the sides of battles go on as they are.
BattlesGoOn ==
  /\ job' = job /\ now \in Nat /\ now' \in Nat /\ now <= now'
  /\ \A b \in Proc : battle[b] \in BattleRow => battle'[b] \in BattleRow /\ SameSides(battle'[b], battle[b])
  /\ \A s \in Stream : row[s].status # "none" => row'[s].status # "none" /\ row'[s].host = row[s].host

\* A row whose hosts have its streams is so in the next state.
LEMMA OwnedStays ==
  ASSUME BattlesGoOn, NEW r \in BattleRow, Owned(r)
  PROVE  Owned(r)'
BY DEF BattlesGoOn, Owned, Owns, BattleRow

\* What fits a call still fits it.
LEMMA FitsStay ==
  ASSUME CallInv, BattlesGoOn, NEW p \in Proc, job[p].kind \in BattleKinds, NEW s, NEW v, BattleFits(p, s, v)
  PROVE  BattleFits(p, s, v)'
<1>1. job' = job
  BY DEF BattlesGoOn
<1>2. ASSUME NEW b \in Proc, NEW c, Changed(b, v, c) PROVE Changed(b, v, c)'
  <2>1. v.battle = b /\ v.row \in BattleRow /\ v.row.status = c /\ SameSides(v.row, battle[b]) /\ battle[b] \in BattleRow
    BY <1>2 DEF Changed
  <2>2. v.row.since \in Nat /\ v.row.since <= now
    BY <1>2, <2>1 DEF Changed, BattleRow
  <2>3. v.row.since <= now'
    BY <2>2 DEF BattlesGoOn
  <2>4. battle'[b] \in BattleRow /\ SameSides(v.row, battle'[b])
    BY <2>1 DEF BattlesGoOn, SameSides
  <2> QED BY <2>1, <2>3, <2>4 DEF Changed, SameSides
<1>3. job[p].kind \in {"acceptPK", "rejectPK", "statusPK"} => job[p].of \in Proc
  BY BattleJob
<1>4. CASE job[p].kind = "invitePK"
  <2>1. s = <<"insertPK">> /\ v \in BattleRow /\ v.status = "invite" /\ v.since <= now /\ Owned(v)
    BY <1>4 DEF BattleFits
  <2>2. PICK r \in BattleRow : r = v
    BY <2>1
  <2>3. Owned(v)'
    <3>1. Owned(r)'
      BY <2>1, <2>2, OwnedStays
    <3> QED BY <2>2, <3>1
  <2>4. v.since <= now'
    BY <2>1 DEF BattlesGoOn, BattleRow
  <2> QED BY <1>1, <1>4, <2>1, <2>3, <2>4 DEF BattleFits
<1>5. CASE job[p].kind \in {"acceptPK", "rejectPK", "statusPK"}
  <2> DEFINE b == job[p].of
  <2>1. b' = b
    BY <1>1
  <2>2. \A c \in {"active", "rejected", "punishment", "ended"} : Changed(b, v, c) => Changed(job[p].of, v, c)'
    <3> SUFFICES ASSUME NEW c \in {"active", "rejected", "punishment", "ended"}, Changed(b, v, c)
                 PROVE  Changed(job[p].of, v, c)'
      OBVIOUS
    <3>1. PICK x \in Proc : x = b
      BY <1>3, <1>5
    <3>2. Changed(x, v, c)'
      BY <1>2, <3>1
    <3> QED BY <1>1, <3>1, <3>2 DEF Changed
  <2> HIDE DEF b
  <2> QED BY <1>1, <1>5, <2>2 DEF BattleFits, b
<1>6. CASE job[p].kind = "vote"
  BY <1>1, <1>6 DEF BattleFits
<1> QED BY <1>4, <1>5, <1>6 DEF BattleKinds

\* A call that goes on to what fits it.
LEMMA FollowStands ==
  ASSUME CallInv, BattlesGoOn, NEW p \in Proc, job[p].kind \in BattleKinds, NEW s, NEW v, Follow(p, s, v),
         s = <<>> \/ BattleFits(p, s, v)
  PROVE  StandsBy(p)'
<1>1. /\ plan'[p] = s /\ job' = job /\ seen'[p] = (IF s = <<>> THEN Nothing ELSE v)
      /\ fate'[p] = (IF s = <<>> THEN "done" ELSE "running")
  BY DEF Follow, CallInv, CallTypeOK
<1>2. CASE s = <<>>
  BY <1>1, <1>2 DEF StandsBy
<1>3. CASE s # <<>> /\ BattleFits(p, s, v)
  <2>1. plan'[p] = s /\ seen'[p] = v
    BY <1>1, <1>3
  <2>2. BattleFits(p, s, v)'
    BY <1>3, FitsStay
  <2> QED BY <2>1, <2>2 DEF StandsBy, BattleFits, Changed
<1> QED BY <1>2, <1>3

\* A call that breaks off has nothing left to do.
LEMMA BreakStands ==
  ASSUME CallInv, NEW p \in Proc, Break(p)
  PROVE  StandsBy(p)'
BY DEF Break, StandsBy, CallInv, CallTypeOK

\* Nothing of what a battle is changes.
LEMMA BattlesStand ==
  ASSUME CallInv, StreamInv, BattleInv, battle' = battle, row' = row, now' = now, job' = job
  PROVE  BattlesGoOn
<1>1. now \in Nat
  BY CallAssumption DEF CallInv, CallTypeOK
<1> QED BY <1>1 DEF BattlesGoOn, SameSides

\* A new call about battles holds a row of one.
LEMMA BattleBegins ==
  ASSUME CallInv, StreamInv, BattleInv, NEW p \in Proc, job[p].kind \in BattleKinds, UNCHANGED streamVars,
         \/ InvitePKBattle(p) \/ AcceptPKBattle(p) \/ RejectPKBattle(p) \/ GetPKStatus(p) \/ SendGift(p)
  PROVE  StandsBy(p)' /\ BattlesGoOn /\ UNCHANGED battleVars
<1> USE DEF Asked, AskedAbout, Begin, Refuse, Return
<1>1. UNCHANGED battleVars
  BY DEF InvitePKBattle, AcceptPKBattle, RejectPKBattle, GetPKStatus, SendGift
<1>2. job' = job /\ now' = now
  BY DEF InvitePKBattle, AcceptPKBattle, RejectPKBattle, GetPKStatus, SendGift, Follow, Break
<1>3. BattlesGoOn
  BY <1>1, <1>2, BattlesStand DEF battleVars, streamVars
<1>4. now \in Nat /\ NoRow.status = "none" /\ battle \in [Proc -> BattleRow \cup {NoRow}]
      /\ row \in [Stream -> Row]
  BY CallAssumption DEF CallInv, CallTypeOK, NoRow, BattleInv, BattleTypes, StreamInv, StreamTypeOK
<1>5. CASE InvitePKBattle(p)
  <2>1. job[p].kind = "invitePK" /\ job[p].user \in Host /\ job[p].target \in Host
    BY <1>5, BattleJob DEF InvitePKBattle
  <2>2. CASE Refuse(p)
    BY <1>1, <1>3, <2>2, BreakStands
  <2>3. CASE ~Refuse(p)
    <3>1. PICK s \in LiveOf(job[p].user), t \in LiveOf(job[p].target) :
            Follow(p, <<"insertPK">>, [status |-> "invite", a |-> job[p].user, b |-> job[p].target, streamA |-> s,
                                       streamB |-> t, winner |-> NoPeer, since |-> 0])
      BY <1>5, <2>3 DEF InvitePKBattle
    <3> DEFINE v == [status |-> "invite", a |-> job[p].user, b |-> job[p].target, streamA |-> s,
                     streamB |-> t, winner |-> NoPeer, since |-> 0]
    <3>2. v \in BattleRow /\ v.status = "invite" /\ v.since <= now
      BY <1>4, <2>1 DEF BattleRow, Open, LiveOf
    <3>3. Owned(v)
      BY <2>1 DEF Owned, Owns, LiveOf
    <3> HIDE DEF v
    <3>4. BattleFits(p, <<"insertPK">>, v)
      BY <2>1, <3>2, <3>3 DEF BattleFits
    <3>5. StandsBy(p)'
      BY <1>3, <3>1, <3>4, FollowStands DEF v
    <3> QED BY <1>1, <1>3, <3>5
  <2> QED BY <2>2, <2>3
<1>6. CASE AcceptPKBattle(p) \/ RejectPKBattle(p) \/ GetPKStatus(p)
  <2> DEFINE b == job[p].of  r == battle[b]
  <2>1. job[p].kind \in {"acceptPK", "rejectPK", "statusPK"} /\ b \in Proc
    BY <1>6, BattleJob DEF AcceptPKBattle, RejectPKBattle, GetPKStatus
  <2>2. Found(b) => r \in BattleRow /\ r.since <= now
    BY <1>4, <2>1 DEF Found, BattleInv, RightRow, NoRow
  <2>3. ASSUME Found(b)
        PROVE  /\ Changed(b, Writes(b, [r EXCEPT !.status = "active", !.since = now]), "active")
               /\ Changed(b, Writes(b, [r EXCEPT !.status = "rejected"]), "rejected")
               /\ Changed(b, Writes(b, [r EXCEPT !.status = "punishment", !.since = now, !.winner = Winner(b, r)]), "punishment")
               /\ Changed(b, Writes(b, [r EXCEPT !.status = "ended"]), "ended")
    <3>1. Winner(b, r) \in Host \cup {NoPeer}
      BY <2>2, <2>3 DEF Winner, BattleRow
    <3>2. r \in BattleRow /\ r.since <= now
      BY <2>2, <2>3
    <3>3. [r EXCEPT !.status = "active", !.since = now] \in BattleRow
      BY <1>4, <3>2 DEF BattleRow, Open
    <3>4. [r EXCEPT !.status = "rejected"] \in BattleRow
      BY <1>4, <3>2 DEF BattleRow, Open
    <3>5. [r EXCEPT !.status = "punishment", !.since = now, !.winner = Winner(b, r)] \in BattleRow
      BY <1>4, <3>1, <3>2 DEF BattleRow, Open
    <3>6. [r EXCEPT !.status = "ended"] \in BattleRow
      BY <1>4, <3>2 DEF BattleRow, Open
    <3>7. ASSUME NEW w \in BattleRow, NEW c, w.status = c, w.since = r.since \/ w.since = now, SameSides(w, r)
          PROVE  Changed(b, Writes(b, w), c)
      BY <1>4, <3>2, <3>7 DEF Changed, Writes
    <3>8. Changed(b, Writes(b, [r EXCEPT !.status = "active", !.since = now]), "active")
      BY <3>2, <3>3, <3>7 DEF SameSides, BattleRow
    <3>9. Changed(b, Writes(b, [r EXCEPT !.status = "rejected"]), "rejected")
      BY <3>2, <3>4, <3>7 DEF SameSides, BattleRow
    <3>10. Changed(b, Writes(b, [r EXCEPT !.status = "punishment", !.since = now, !.winner = Winner(b, r)]), "punishment")
      BY <3>2, <3>5, <3>7 DEF SameSides, BattleRow
    <3>11. Changed(b, Writes(b, [r EXCEPT !.status = "ended"]), "ended")
      BY <3>2, <3>6, <3>7 DEF SameSides, BattleRow
    <3> QED BY <3>8, <3>9, <3>10, <3>11
  <2>4. \/ Break(p)
        \/ Follow(p, <<>>, Nothing)
        \/ /\ Found(b) /\ job[p].kind = "acceptPK"
           /\ Follow(p, <<"updatePK", "keyA", "keyB", "zeroScores">>,
                     Writes(b, [r EXCEPT !.status = "active", !.since = now]))
        \/ /\ Found(b) /\ job[p].kind = "rejectPK"
           /\ Follow(p, <<"updatePK">>, Writes(b, [r EXCEPT !.status = "rejected"]))
        \/ /\ Found(b) /\ job[p].kind = "statusPK"
           /\ Follow(p, <<"updatePK">>, Writes(b, [r EXCEPT !.status = "punishment", !.since = now, !.winner = Winner(b, r)]))
        \/ /\ Found(b) /\ job[p].kind = "statusPK"
           /\ Follow(p, <<"updatePK", "dropA", "dropB">>, Writes(b, [r EXCEPT !.status = "ended"]))
    <3>1. CASE AcceptPKBattle(p)
      BY <3>1 DEF AcceptPKBattle
    <3>2. CASE RejectPKBattle(p)
      BY <3>2 DEF RejectPKBattle
    <3>3. CASE GetPKStatus(p)
      <4>1. job[p].kind = "statusPK"
        BY <3>3 DEF GetPKStatus
      <4>2. CASE ~Found(b)
        BY <3>3, <4>2 DEF GetPKStatus, Found
      <4>3. CASE Found(b) /\ r.status = "active" /\ now >= r.since + BattleTime
        BY <3>3, <4>1, <4>3 DEF GetPKStatus
      <4>4. CASE Found(b) /\ r.status = "punishment" /\ now >= r.since + PunishTime
        BY <3>3, <4>1, <4>4 DEF GetPKStatus
      <4>5. CASE /\ Found(b) /\ ~(r.status = "active" /\ now >= r.since + BattleTime)
                 /\ ~(r.status = "punishment" /\ now >= r.since + PunishTime)
        BY <3>3, <4>5 DEF GetPKStatus
      <4> QED BY <4>2, <4>3, <4>4, <4>5
    <3> QED BY <1>6, <3>1, <3>2, <3>3
  <2> DEFINE wA == Writes(b, [r EXCEPT !.status = "active", !.since = now])
             wR == Writes(b, [r EXCEPT !.status = "rejected"])
             wP == Writes(b, [r EXCEPT !.status = "punishment", !.since = now, !.winner = Winner(b, r)])
             wE == Writes(b, [r EXCEPT !.status = "ended"])
  <2>5. Found(b) => Changed(b, wA, "active") /\ Changed(b, wR, "rejected") /\ Changed(b, wP, "punishment")
                    /\ Changed(b, wE, "ended")
    BY <2>3
  <2>6. \/ Break(p)
        \/ Follow(p, <<>>, Nothing)
        \/ /\ Found(b) /\ job[p].kind = "acceptPK" /\ Follow(p, <<"updatePK", "keyA", "keyB", "zeroScores">>, wA)
        \/ /\ Found(b) /\ job[p].kind = "rejectPK" /\ Follow(p, <<"updatePK">>, wR)
        \/ /\ Found(b) /\ job[p].kind = "statusPK" /\ Follow(p, <<"updatePK">>, wP)
        \/ /\ Found(b) /\ job[p].kind = "statusPK" /\ Follow(p, <<"updatePK", "dropA", "dropB">>, wE)
    BY <2>4
  <2> HIDE DEF wA, wR, wP, wE
  <2>7. Break(p) \/ \E s, v : Follow(p, s, v) /\ (s = <<>> \/ BattleFits(p, s, v))
    BY <2>5, <2>6 DEF BattleFits
  <2>8. StandsBy(p)'
    BY <1>3, <2>7, FollowStands, BreakStands
  <2> QED BY <1>1, <1>3, <2>8
<1>7. CASE SendGift(p)
  <2>1. job[p].kind = "vote" /\ job[p].stream \in Stream
    BY <1>7, BattleJob DEF SendGift
  <2>2. ActiveIn(job[p].stream) # NoBattle => ActiveIn(job[p].stream) \in Proc
    BY <2>1 DEF ActiveIn, BattleInv, BattleTypes, ActiveKey
  <2> DEFINE v == [battle |-> ActiveIn(job[p].stream)]
  <2>3. (ActiveIn(job[p].stream) # NoBattle /\ Follow(p, <<"addPoints">>, v)) \/ Follow(p, <<>>, Nothing)
    BY <1>7 DEF SendGift
  <2>4. ActiveIn(job[p].stream) # NoBattle => v.battle \in Proc
    BY <2>2
  <2> HIDE DEF v
  <2>5. StandsBy(p)'
    BY <1>3, <2>1, <2>3, <2>4, FollowStands DEF BattleFits
  <2> QED BY <1>1, <1>3, <2>5
<1> QED BY <1>5, <1>6, <1>7

\* A row that is not written stays right.
LEMMA RowStaysRight ==
  ASSUME CallInv, BattleInv, BattlesGoOn, Rest \/ \E p \in Proc : RestOf(p), NEW b \in Proc, battle'[b] = battle[b]
  PROVE  RightRow(b)'
<1> SUFFICES ASSUME battle[b] # NoRow PROVE battle'[b].since <= now' /\ fate'[b] \in Over /\ Owned(battle[b])'
  BY DEF RightRow
<1>1. battle[b] \in BattleRow /\ battle[b].since <= now /\ fate[b] \in Over /\ Owned(battle[b])
  BY DEF BattleInv, BattleTypes, RightRow
<1>2. PICK r \in BattleRow : r = battle[b]
  BY <1>1
<1>3. Owned(r)'
  BY <1>1, <1>2, OwnedStays
<1>4. Owned(battle[b])'
  BY <1>2, <1>3 DEF Owned, Owns
<1>5. fate'[b] \in Over
  BY <1>1 DEF Rest, RestOf, Over
<1>6. now \in Nat /\ now' \in Nat /\ now <= now' /\ battle[b].since \in Nat
  BY <1>1 DEF BattlesGoOn, BattleRow
<1> QED BY <1>1, <1>4, <1>5, <1>6

\* A step of a call about battles.
LEMMA BattleKeeps ==
  ASSUME CallInv, StreamInv, BattleInv, NEW p \in Proc, job[p].kind \in BattleKinds, BattleStep(p)
  PROVE  BattlesGoOn /\ BattleTypes' /\ StandsBy(p)' /\ \A b \in Proc : RightRow(b)'
<1> USE DEF At, Hold, Continue, Go
<1> DEFINE v == seen[p]  t == Tail(plan[p])
<1>1. RestOf(p) /\ row' = row
  BY BattleMoves, MoveIsOwn DEF BattleStep, streamVars
<1>2. job' = job /\ now' = now /\ now \in Nat
  BY <1>1, CallAssumption DEF RestOf, CallInv, CallTypeOK
<1>3. BattleTypes
  BY DEF BattleInv
<1>4. CASE InvitePKBattle(p) \/ AcceptPKBattle(p) \/ RejectPKBattle(p) \/ GetPKStatus(p) \/ SendGift(p)
  <2>1. StandsBy(p)' /\ BattlesGoOn /\ UNCHANGED battleVars
    BY <1>4, BattleBegins DEF BattleStep
  <2>2. BattleTypes'
    BY <1>3, <2>1 DEF BattleTypes, battleVars
  <2>3. \A b \in Proc : RightRow(b)'
    BY <1>1, <2>1, RowStaysRight DEF battleVars
  <2> QED BY <2>1, <2>2, <2>3
<1>5. CASE InsertPK(p) \/ UpdatePK(p) \/ SetActiveKey(p) \/ DelActiveKey(p) \/ ZeroScores(p) \/ AddPoints(p)
  <2>1. fate[p] = "running"
    BY <1>5 DEF InsertPK, UpdatePK, SetActiveKey, DelActiveKey, ZeroScores, AddPoints
  <2>2. BattleFits(p, plan[p], v) /\ BattleStatement(p, Head(plan[p]), t)
    BY <2>1, BattleAt
  <2>3. Follow(p, t, v)
    BY <1>5 DEF InsertPK, UpdatePK, SetActiveKey, DelActiveKey, ZeroScores, AddPoints
  <2>4. t = <<>> \/ BattleFits(p, t, v)
    BY <2>2 DEF BattleFits, BattleStatement, Changed
  <2> HIDE DEF t
  <2>5. BattlesGoOn => StandsBy(p)'
    BY <2>3, <2>4, FollowStands
  <2>6. CASE InsertPK(p)
    <3>1. v \in BattleRow /\ v.since <= now /\ Owned(v) /\ t = <<>>
      BY <2>2, <2>6 DEF InsertPK, BattleStatement, BattleFits, t
    <3>2. battle' = [battle EXCEPT ![p] = v] /\ activeKey' = activeKey /\ score' = score
      BY <2>6 DEF InsertPK
    <3>3. battle[p] = NoRow
      BY <2>1 DEF BattleInv, RightRow, Over
    <3>4. battle' \in [Proc -> BattleRow \cup {NoRow}] /\ \A b \in Proc \ {p} : battle'[b] = battle[b]
      BY <1>3, <3>1, <3>2 DEF BattleTypes
    <3>5. BattlesGoOn
      BY <1>1, <1>2, <3>3, <3>4, RowIsThere DEF BattlesGoOn, SameSides
    <3>6. BattleTypes'
      <4>1. {h \in {v.a, v.b} : OpenBattles(h) # {}} \subseteq Host
        BY <3>1 DEF BattleRow
      <4> QED BY <1>3, <2>6, <3>2, <3>4, <4>1 DEF BattleTypes, InsertPK
    <3>7. RightRow(p)'
      <4>1. fate'[p] = "done"
        BY <2>3, <3>1 DEF Follow, CallInv, CallTypeOK
      <4>2. PICK r \in BattleRow : r = v
        BY <3>1
      <4>3. Owned(r)'
        BY <3>1, <3>5, <4>2, OwnedStays
      <4>4. battle'[p] = r
        BY <1>3, <3>2, <4>2 DEF BattleTypes
      <4> QED BY <1>2, <3>1, <4>1, <4>2, <4>3, <4>4 DEF RightRow, Over, Owned, Owns
    <3>8. \A b \in Proc : RightRow(b)'
      BY <1>1, <3>4, <3>5, <3>7, RowStaysRight
    <3> QED BY <2>5, <3>5, <3>6, <3>8
  <2>7. CASE UpdatePK(p)
    <3>1. PICK c : Changed(job[p].of, v, c)
      BY <2>2, <2>7 DEF UpdatePK, BattleStatement, BattleFits
    <3>2. job[p].of \in Proc
      BY <2>2, <2>7, BattleJob DEF UpdatePK, BattleStatement
    <3>3. PICK b \in Proc, r \in BattleRow :
            b = v.battle /\ r = v.row /\ r.since <= now /\ battle[b] \in BattleRow /\ SameSides(r, battle[b])
      BY <3>1, <3>2 DEF Changed
    <3>4. /\ battle' = [battle EXCEPT ![b] = r] /\ activeKey' = activeKey /\ score' = score
          /\ twice' = twice \cup {h \in {r.a, r.b} : r.status \in Open /\ OpenBattles(h) \ {b} # {}}
      BY <2>7, <3>3 DEF UpdatePK
    <3>5. battle' \in [Proc -> BattleRow \cup {NoRow}] /\ battle'[b] = r /\ \A c1 \in Proc \ {b} : battle'[c1] = battle[c1]
      BY <1>3, <3>3, <3>4 DEF BattleTypes
    <3>6. BattlesGoOn
      BY <1>1, <1>2, <3>3, <3>5 DEF BattlesGoOn, SameSides
    <3>7. BattleTypes'
      <4>1. {h \in {r.a, r.b} : r.status \in Open /\ OpenBattles(h) \ {b} # {}} \subseteq Host
        BY <3>3 DEF BattleRow
      <4> QED BY <1>3, <3>4, <3>5, <4>1 DEF BattleTypes
    <3>8. RightRow(b)'
      <4>1. fate[b] \in Over /\ Owned(battle[b])
        BY <3>3, RowIsThere DEF BattleInv, RightRow
      <4>2. fate'[b] \in Over
        BY <1>1, <2>1, <4>1 DEF RestOf, Over
      <4>3. Owned(r)
        BY <3>3, <4>1 DEF Owned, SameSides
      <4>4. Owned(r)'
        BY <3>6, <4>3, OwnedStays
      <4> QED BY <1>2, <3>3, <3>5, <4>2, <4>4 DEF RightRow, Owned, Owns
    <3>9. \A c1 \in Proc : RightRow(c1)'
      BY <1>1, <3>5, <3>6, <3>8, RowStaysRight
    <3> QED BY <2>5, <3>6, <3>7, <3>9
  <2>8. CASE SetActiveKey(p) \/ DelActiveKey(p) \/ ZeroScores(p) \/ AddPoints(p)
    <3>1. battle' = battle /\ twice' = twice
      BY <2>8 DEF SetActiveKey, DelActiveKey, ZeroScores, AddPoints
    <3>2. BattlesGoOn
      BY <1>1, <1>2, <3>1, BattlesStand
    <3>3. \A b \in Proc : RightRow(b)'
      BY <1>1, <3>1, <3>2, RowStaysRight
    <3>4. activeKey' \in [Stream -> ActiveKey]
      <4>1. CASE ZeroScores(p) \/ AddPoints(p)
        BY <1>3, <4>1 DEF ZeroScores, AddPoints, BattleTypes
      <4>2. CASE SetActiveKey(p)
        <5>1. Changed(job[p].of, v, "active") /\ job[p].of \in Proc
          BY <2>2, <4>2, BattleJob DEF SetActiveKey, BattleStatement, BattleFits, BattleKinds
        <5>2. [battle |-> v.battle, until |-> now + KeyLife] \in ActiveKey
          BY <1>2, <5>1, BattleAssumption DEF Changed, ActiveKey
        <5>3. activeKey' = [activeKey EXCEPT ![Side(p)] = [battle |-> v.battle, until |-> now + KeyLife]]
          BY <4>2 DEF SetActiveKey
        <5> QED BY <1>3, <5>2, <5>3 DEF BattleTypes
      <4>3. CASE DelActiveKey(p)
        <5>1. [battle |-> NoBattle, until |-> 0] \in ActiveKey
          BY DEF ActiveKey
        <5>2. activeKey' = [activeKey EXCEPT ![Side(p)] = [battle |-> NoBattle, until |-> 0]]
          BY <4>3 DEF DelActiveKey
        <5> QED BY <1>3, <5>1, <5>2 DEF BattleTypes
      <4> QED BY <2>8, <4>1, <4>2, <4>3
    <3>5. score' \in [Proc -> [Host -> Nat]]
      <4>1. CASE SetActiveKey(p) \/ DelActiveKey(p)
        BY <1>3, <4>1 DEF SetActiveKey, DelActiveKey, BattleTypes
      <4>2. CASE ZeroScores(p)
        <5> DEFINE b == v.battle  h == v.row.a  g == v.row.b
        <5>1. score' = [score EXCEPT ![b][h] = 0, ![b][g] = 0]
          BY <4>2 DEF ZeroScores
        <5> HIDE DEF b, h, g
        <5>2. \A f \in [Proc -> [Host -> Nat]] : [f EXCEPT ![b][h] = 0] \in [Proc -> [Host -> Nat]]
          OBVIOUS
        <5>3. \A f \in [Proc -> [Host -> Nat]] : [f EXCEPT ![b][g] = 0] \in [Proc -> [Host -> Nat]]
          OBVIOUS
        <5>4. [score EXCEPT ![b][h] = 0, ![b][g] = 0] = [[score EXCEPT ![b][h] = 0] EXCEPT ![b][g] = 0]
          OBVIOUS
        <5> QED BY <1>3, <5>1, <5>2, <5>3, <5>4 DEF BattleTypes
      <4>3. CASE AddPoints(p)
        <5>1. job[p].kind = "vote" /\ v.battle \in Proc
          BY <2>2, <4>3 DEF AddPoints, BattleStatement, BattleFits
        <5>2. job[p].user \in Host /\ job[p].points \in Nat
          BY <5>1, BattleJob
        <5> DEFINE b == v.battle  h == job[p].user
        <5>3. PICK times \in {1, 2} : score' = [score EXCEPT ![b][h] = score[b][h] + times * job[p].points]
          BY <4>3 DEF AddPoints
        <5>4. score \in [Proc -> [Host -> Nat]] /\ score[b][h] + times * job[p].points \in Nat
          <6>1. score \in [Proc -> [Host -> Nat]] /\ score[b][h] \in Nat
            BY <1>3, <5>1, <5>2 DEF BattleTypes
          <6>2. CASE times = 1
            BY <5>2, <6>1, <6>2
          <6>3. CASE times = 2
            BY <5>2, <6>1, <6>3
          <6> QED BY <6>1, <6>2, <6>3
        <5> HIDE DEF b, h
        <5>5. \A m \in Nat : [score EXCEPT ![b][h] = m] \in [Proc -> [Host -> Nat]]
          BY <5>4
        <5> QED BY <5>3, <5>4, <5>5
      <4> QED BY <2>8, <4>1, <4>2, <4>3
    <3> QED BY <1>3, <2>5, <3>1, <3>2, <3>3, <3>4, <3>5 DEF BattleTypes
  <2> QED BY <1>5, <2>6, <2>7, <2>8
<1> QED BY <1>4, <1>5 DEF BattleStep

\* A step, as the battles see it.
BattleCases ==
  \/ \E p \in Proc : job[p].kind \in BattleKinds /\ BattleStep(p) /\ RestOf(p)
  \/ UNCHANGED battleVars /\ \E p \in Proc : /\ job[p].kind \in BattleKinds /\ RestOf(p)
                                             /\ Fault(p, Ignored) /\ faults' # 0
  \/ UNCHANGED battleVars /\ \E p \in Proc : job[p].kind \notin BattleKinds /\ RestOf(p)
  \/ UNCHANGED battleVars /\ Rest

\* Every step is one of these.
LEMMA StepsOfBattles ==
  ASSUME CallInv, [Next]_vars
  PROVE  BattleCases
<1>1. CASE Step
  <2>1. ASSUME NEW p \in Proc, Moves(p) \/ Slips(p), job[p].kind \notin BattleKinds, UNCHANGED battleVars
        PROVE  BattleCases
    BY <2>1, MoveIsOwn DEF BattleCases
  <2>2. ASSUME NEW p \in Proc, job[p] \in StreamRequests, StreamStep(p), UNCHANGED battleVars PROVE BattleCases
    <3>1. job[p].kind \notin BattleKinds
      BY <2>2, RequestKinds DEF BattleKinds
    <3>2. CASE UNCHANGED callVars
      BY <2>2, <3>2 DEF BattleCases, Rest, callVars
    <3> QED BY <2>1, <2>2, <3>1, <3>2, StreamMoves
  <2>3. ASSUME NEW p \in Proc, job[p] \in BattleRequests, BattleStep(p) PROVE BattleCases
    <3>1. job[p].kind \in BattleKinds
      BY <2>3, RequestKinds DEF BattleKinds
    <3> QED BY <2>3, <3>1, BattleMoves, MoveIsOwn DEF BattleCases
  <2>4. ASSUME NEW p \in Proc, job[p] \in ScheduleRequests \cup StartStreamRequest, ScheduleStep(p), UNCHANGED battleVars
        PROVE  BattleCases
    <3>1. job[p].kind \notin BattleKinds
      BY <2>4, RequestKinds DEF BattleKinds, StartStreamRequest
    <3> QED BY <2>1, <2>4, <3>1, ScheduleMoves
  <2>5. ASSUME NEW p \in Proc, Fault(p, Ignored), UNCHANGED battleVars PROVE BattleCases
    <3>1. faults' # 0
      BY <2>5, CallAssumption DEF Fault, CallInv, CallTypeOK
    <3>2. RestOf(p)
      BY <2>5, MoveIsOwn DEF Moves
    <3> QED BY <2>5, <3>1, <3>2 DEF BattleCases
  <2>6. ASSUME WaitRoomStep, UNCHANGED battleVars PROVE BattleCases
    <3>1. Rest \/ \E p \in Kind("waitWS") : Moves(p) \/ Slips(p)
      BY <2>6, WaitRoomMoves
    <3> QED BY <2>1, <2>6, <3>1 DEF BattleCases, Kind, BattleKinds
  <2>7. ASSUME ChatStep, UNCHANGED battleVars PROVE BattleCases
    <3>1. CASE HubRegister \/ HubUnregister \/ BrokerStep
      <4>1. Rest
        BY <3>1 DEF HubRegister, HubUnregister, BrokerStep, RunRegister, RunUnregister, Rest, callVars
      <4> QED BY <2>7, <4>1 DEF BattleCases
    <3>2. CASE ~ (HubRegister \/ HubUnregister \/ BrokerStep)
      <4>1. PICK p \in Proc : job[p] \in ChatRequests /\ (Moves(p) \/ Slips(p))
        BY <2>7, <3>2, ChatCallMoves DEF ChatStep
      <4>2. job[p].kind \in ChatKinds
        BY <4>1, RequestKinds
      <4>3. job[p].kind \notin BattleKinds
        BY <4>2 DEF ChatKinds, BattleKinds
      <4> QED BY <2>1, <2>7, <4>1, <4>3
    <3> QED BY <3>1, <3>2
  <2> QED BY <1>1, <2>2, <2>3, <2>4, <2>5, <2>6, <2>7 DEF Step
<1>2. CASE Tick /\ UNCHANGED battleVars
  BY <1>2 DEF Tick, Rest, BattleCases
<1>3. CASE UNCHANGED vars
  BY <1>3 DEF vars, callVars, Rest, BattleCases
<1> QED BY <1>1, <1>2, <1>3 DEF Next

\* Each step of the system lets the battles go on.
LEMMA BattlesGo ==
  ASSUME CallInv, StreamInv, OwnInv, BattleInv, [Next]_vars
  PROVE  BattlesGoOn
<1>1. CASE UNCHANGED battleVars
  <2>1. job' = job
    <3>1. Rest \/ \E p \in Proc : RestOf(p)
      BY StepMoves, MoveIsOwn
    <3> QED BY <3>1 DEF Rest, RestOf
  <2>2. now \in Nat /\ now' \in Nat /\ now <= now'
    BY TimeGoesOn
  <2>3. \A s \in Stream : row[s].status # "none" => row'[s].status # "none" /\ row'[s].host = row[s].host
    BY HostsStay
  <2> QED BY <1>1, <2>1, <2>2, <2>3 DEF BattlesGoOn, SameSides, battleVars
<1>2. CASE \E p \in Proc : job[p].kind \in BattleKinds /\ BattleStep(p) /\ RestOf(p)
  BY <1>2, BattleKeeps
<1> QED BY <1>1, <1>2, StepsOfBattles DEF BattleCases

\* At any time the battles are what they should be, and their calls hold a row
\* of the battle they are about.
LEMMA BattlesHold == Spec => []BattleInv
<1>1. Init => BattleInv
  <2> SUFFICES ASSUME Init PROVE BattleInv
    OBVIOUS
  <2>1. [battle |-> NoBattle, until |-> 0] \in ActiveKey
    BY DEF ActiveKey
  <2>2. BattleTypes /\ \A b \in Proc : battle[b] = NoRow
    BY <2>1 DEF Init, BattleInit, BattleTypes, NoRow
  <2>3. \A p \in Proc : fate[p] # "running"
    BY DEF Init, CallInit
  <2> QED BY <2>2, <2>3 DEF BattleInv, RightRow, StandsBy, Kinds
<1>2. CallInv /\ StreamInv /\ OwnInv /\ BattleInv /\ [Next]_vars => BattleInv'
  <2> SUFFICES ASSUME CallInv, StreamInv, OwnInv, BattleInv, [Next]_vars PROVE BattleInv'
    OBVIOUS
  <2>1. BattlesGoOn /\ job' = job
    BY BattlesGo DEF BattlesGoOn
  <2>2. Rest \/ \E p \in Proc : RestOf(p)
    BY StepMoves, MoveIsOwn
  <2>3. BattleTypes' /\ \A b \in Proc : RightRow(b)'
    <3>1. CASE UNCHANGED battleVars
      <4>1. BattleTypes'
        BY <3>1 DEF BattleInv, BattleTypes, battleVars
      <4> QED BY <2>1, <2>2, <3>1, <4>1, RowStaysRight DEF battleVars
    <3>2. CASE \E p \in Proc : job[p].kind \in BattleKinds /\ BattleStep(p) /\ RestOf(p)
      BY <3>2, BattleKeeps
    <3> QED BY <3>1, <3>2, StepsOfBattles DEF BattleCases
  <2>4. ASSUME NEW q \in Proc, job[q].kind \in BattleKinds, fate'[q] = fate[q], plan'[q] = plan[q], seen'[q] = seen[q]
        PROVE  StandsBy(q)'
    <3>1. CASE fate[q] = "running"
      <4>1. PICK s, v : s = plan[q] /\ v = seen[q]
        OBVIOUS
      <4>2. BattleFits(q, s, v)
        BY <2>4, <3>1, <4>1 DEF BattleInv, StandsBy, Kinds
      <4>3. BattleFits(q, s, v)'
        BY <2>1, <2>4, <4>2, FitsStay
      <4>4. plan'[q] = s /\ seen'[q] = v
        BY <2>4, <4>1
      <4> QED BY <4>3, <4>4 DEF StandsBy, BattleFits, Changed
    <3>2. CASE fate[q] # "running"
      BY <2>4, <3>2 DEF StandsBy
    <3> QED BY <3>1, <3>2
  <2>5. ASSUME NEW p \in Proc, RestOf(p), job[p].kind \in BattleKinds => StandsBy(p)' PROVE BattleInv'
    BY <2>1, <2>3, <2>4, <2>5 DEF BattleInv, Kinds, RestOf
  <2>6. ASSUME NEW p \in Proc, job[p].kind \in BattleKinds, Fault(p, Ignored) PROVE StandsBy(p)'
    <3>1. Break(p) \/ Follow(p, Tail(plan[p]), seen[p])
      BY <2>6 DEF Fault
    <3>2. BattleFits(p, plan[p], seen[p]) /\ BattleStatement(p, Head(plan[p]), Tail(plan[p]))
      BY <2>6, BattleAt DEF Fault
    <3>3. Tail(plan[p]) = <<>> \/ BattleFits(p, Tail(plan[p]), seen[p])
      BY <3>2 DEF BattleFits, BattleStatement, Changed
    <3> QED BY <2>1, <2>6, <3>1, <3>3, FollowStands, BreakStands
  <2>7. CASE \E p \in Proc : job[p].kind \in BattleKinds /\ BattleStep(p) /\ RestOf(p)
    BY <2>5, <2>7, BattleKeeps
  <2>8. CASE Rest
    BY <2>1, <2>3, <2>4, <2>8 DEF BattleInv, Kinds, Rest
  <2> QED BY <2>5, <2>6, <2>7, <2>8, StepsOfBattles DEF BattleCases
<1> QED BY <1>1, <1>2, CallsHold, StreamsHold, OwnHolds, PTL DEF Spec

\* What each of the parts keeps is what it should be.
THEOREM LiveIsTyped == Spec => []TypeOK
<1>1. CallInv => CallTypeOK
  BY DEF CallInv
<1>2. StreamInv => StreamTypeOK
  BY DEF StreamInv
<1>3. BattleInv => BattleTypeOK
  <2> SUFFICES ASSUME BattleInv PROVE BattleTypeOK
    OBVIOUS
  <2>1. \A b \in Proc : battle[b].status \in {"none", "rejected", "ended"} \cup Open
    BY DEF BattleInv, BattleTypes, BattleRow, NoRow, Open
  <2> QED BY <2>1 DEF BattleInv, BattleTypes, BattleTypeOK, ActiveKey
<1>4. ScheduleInv /\ RoomInv => ScheduleTypeOK /\ WaitRoomTypeOK
  BY DEF ScheduleInv, RowsTypeOK, RoomInv, RoomTypeOK, RoomRow, ScheduleRow, OccurrenceRow, ScheduleTypeOK,
         Told
<1>5. HubInv => HubTypeOK
  BY DEF HubInv
<1> QED BY <1>1, <1>2, <1>3, <1>4, <1>5, CallsHold, StreamsHold, BattlesHold, SchedulesHold, RoomsHold,
           HubHolds, PTL DEF TypeOK

-----------------------------------------------------------------------------
(***************************************************************************)
(* Battles: an active one scores.                                          *)
(***************************************************************************)
\* p has been taken on; it has written that its battle is active; its keys.
Taken(p) == fate[p] = "running" \/ Done(p)
Turned(p) == Done(p) \/ (fate[p] = "running" /\ Head(plan[p]) # "updatePK")
HasKeyA(p) == Done(p) \/ (fate[p] = "running" /\ Head(plan[p]) \in {"keyB", "zeroScores"})
HasKeyB(p) == Done(p) \/ (fate[p] = "running" /\ Head(plan[p]) = "zeroScores")

Alone(p) == /\ \A q \in Kind("acceptPK") : ~Overlap(p, q)
            /\ \A q \in Kind("statusPK") : job[q].of # job[p].of => ~Overlap(p, q)

\* Nobody fights in two open battles but those history has noted.
OneBattle == \A b, c \in Proc : b # c /\ battle[b].status \in Open /\ battle[c].status \in Open
               => {battle[b].a, battle[b].b} \cap {battle[c].a, battle[c].b} \subseteq twice

\* A battle that was accepted was so by a call, and of two such calls each has
\* read the row before the other has written it.
Accepts(b) == {p \in Kind("acceptPK") : job[p].of = b}
AcceptedOnce ==
  \A b \in Proc :
    /\ \A p \in Accepts(b) : Taken(p) => battle[b] \in BattleRow
    /\ \A p \in Accepts(b) : Turned(p) => battle[b].status # "invite"
    /\ \A p, q \in Accepts(b) : p # q /\ Taken(p) /\ Taken(q) => Overlap(p, q)
    /\ \/ battle[b].status \in {"active", "punishment", "ended"}
       \/ \E q \in Kind("statusPK") : job[q].of = b /\ fate[q] = "running"
       => \E p \in Accepts(b) : Turned(p)

\* The battle of p, which was accepted alone, is on between hosts of no other.
Rules(p) == LET r == battle[job[p].of] IN
  Turned(p) /\ Alone(p) /\ r.status = "active" /\ {r.a, r.b} \cap twice = {}

\* Two battles have no host in common.
Apart(b, c) == {battle[b].a, battle[b].b} \cap {battle[c].a, battle[c].b} = {}

\* A call that came after p is about a battle of others.
LaterApart(p) ==
  \A q \in Kinds({"acceptPK", "statusPK"}) :
    Before(p, q) /\ fate[q] = "running" /\ job[q].of # job[p].of => Apart(job[p].of, job[q].of)

\* Who still takes the keys of a battle has ended it.
DropsEnded(p) ==
  \A q \in Kind("statusPK") :
    job[q].of = job[p].of /\ fate[q] = "running" /\ Head(plan[q]) \in {"dropA", "dropB"}
    => battle[job[p].of].status # "active"

Names(s, b) == activeKey[s].battle = b /\ battle[b].since + KeyLife <= activeKey[s].until
KeysNamed(p) == LET b == job[p].of IN /\ HasKeyA(p) => Names(battle[b].streamA, b)
                                      /\ HasKeyB(p) => Names(battle[b].streamB, b)

ScoreFacts ==
  /\ OneBattle /\ AcceptedOnce
  /\ \A p \in Kind("acceptPK") : /\ Turned(p) /\ Alone(p) => DropsEnded(p)
                                 /\ Rules(p) => LaterApart(p) /\ KeysNamed(p)
ScoreInv == faults = 0 => ScoreFacts

\* What a step of a call about battles does.
CallBegins(x) ==
  /\ fate[x] = "new" /\ UNCHANGED <<battle, activeKey, twice>>
  /\ job[x].kind = "acceptPK" =>
       \/ fate'[x] = "failed"
       \/ fate'[x] = "running" /\ Head(plan'[x]) = "updatePK" /\ battle[job[x].of].status = "invite"
  /\ job[x].kind = "statusPK" /\ fate'[x] = "running" =>
       Head(plan'[x]) = "updatePK" /\ battle[job[x].of].status \in {"active", "punishment"}
RowAdded(x, r) ==
  /\ fate[x] = "running" /\ job[x].kind = "invitePK" /\ battle[x] = NoRow
  /\ r \in BattleRow /\ r.status = "invite" /\ battle' = [battle EXCEPT ![x] = r]
  /\ twice' = twice \cup {h \in {r.a, r.b} : OpenBattles(h) # {}} /\ activeKey' = activeKey
RowUpdated(x, b, r) ==
  /\ fate[x] = "running" /\ Head(plan[x]) = "updatePK" /\ job[x].of = b
  /\ battle[b] \in BattleRow /\ r \in BattleRow /\ battle' = [battle EXCEPT ![b] = r] /\ SameSides(r, battle[b])
  /\ twice' = twice \cup {h \in {r.a, r.b} : r.status \in Open /\ OpenBattles(h) \ {b} # {}}
  /\ activeKey' = activeKey
  /\ \/ /\ job[x].kind = "acceptPK" /\ r.status = "active"
        /\ fate'[x] = "running" /\ Head(plan'[x]) = "keyA"
     \/ job[x].kind = "rejectPK" /\ r.status = "rejected"
     \/ job[x].kind = "statusPK" /\ r.status = "punishment" /\ fate'[x] = "done"
     \/ job[x].kind = "statusPK" /\ r.status = "ended"
SetsKey(x, s) ==
  /\ fate[x] = "running" /\ job[x].kind = "acceptPK" /\ battle[job[x].of] \in BattleRow
  /\ \/ Head(plan[x]) = "keyA" /\ s = battle[job[x].of].streamA /\ Head(plan'[x]) = "keyB"
     \/ Head(plan[x]) = "keyB" /\ s = battle[job[x].of].streamB /\ Head(plan'[x]) = "zeroScores"
  /\ fate'[x] = "running"
  /\ activeKey' = [activeKey EXCEPT ![s] = [battle |-> job[x].of, until |-> now + KeyLife]]
  /\ UNCHANGED <<battle, twice>>
TakesKey(x, s) ==
  /\ fate[x] = "running" /\ job[x].kind = "statusPK" /\ Head(plan[x]) \in {"dropA", "dropB"}
  /\ battle[job[x].of] \in BattleRow /\ s \in {battle[job[x].of].streamA, battle[job[x].of].streamB}
  /\ activeKey' = [activeKey EXCEPT ![s] = [battle |-> NoBattle, until |-> 0]]
  /\ UNCHANGED <<battle, twice>>
Scores(x) ==
  /\ fate[x] = "running" /\ fate'[x] = "done" /\ UNCHANGED <<battle, activeKey, twice>>
  /\ \/ job[x].kind = "acceptPK" /\ Head(plan[x]) = "zeroScores"
     \/ job[x].kind = "vote"

Effect(x) ==
  \/ CallBegins(x) \/ Scores(x)
  \/ \E r \in BattleRow : RowAdded(x, r) \/ \E b \in Proc : RowUpdated(x, b, r)
  \/ \E s \in Stream : SetsKey(x, s) \/ TakesKey(x, s)

\* Each step of such a call is one of these.
LEMMA BattleSteps ==
  ASSUME CallInv, StreamInv, BattleInv, NEW x \in Proc, job[x].kind \in BattleKinds, BattleStep(x)
  PROVE  Effect(x)
<1> USE DEF At, Hold, Continue, Go
<1> DEFINE v == seen[x]  t == Tail(plan[x])
<1>1. \A u, w : Follow(x, u, w) =>
        fate'[x] = (IF u = <<>> THEN "done" ELSE "running") /\ plan'[x] = u
  BY DEF Follow, CallInv, CallTypeOK
<1>2. Break(x) => fate'[x] = "failed"
  BY DEF Break, CallInv, CallTypeOK
<1>3. CASE InvitePKBattle(x) \/ AcceptPKBattle(x) \/ RejectPKBattle(x) \/ GetPKStatus(x) \/ SendGift(x)
  <2> USE DEF Asked, AskedAbout, Begin, Refuse, Return
  <2>1. fate[x] = "new" /\ UNCHANGED <<battle, activeKey, twice>>
    BY <1>3 DEF InvitePKBattle, AcceptPKBattle, RejectPKBattle, GetPKStatus, SendGift, battleVars
  <2>2. Head(<<"updatePK", "keyA", "keyB", "zeroScores">>) = "updatePK"
    BY TailOf4
  <2>3. Head(<<"updatePK", "dropA", "dropB">>) = "updatePK"
    BY TailOf3
  <2>4. Head(<<"updatePK">>) = "updatePK"
    BY TailOf1
  <2>5. CASE AcceptPKBattle(x)
    <3>1. job[x].kind = "acceptPK"
      BY <2>5 DEF AcceptPKBattle
    <3>2. \/ Break(x)
          \/ /\ battle[job[x].of].status = "invite"
             /\ \E w : Follow(x, <<"updatePK", "keyA", "keyB", "zeroScores">>, w)
      BY <2>5 DEF AcceptPKBattle
    <3> QED BY <1>1, <1>2, <2>1, <2>2, <3>1, <3>2 DEF CallBegins, Effect
  <2>6. CASE GetPKStatus(x)
    <3> DEFINE b == job[x].of  r == battle[b]
    <3>1. job[x].kind = "statusPK"
      BY <2>6 DEF GetPKStatus
    <3>2. \/ Break(x)
          \/ Follow(x, <<>>, Nothing)
          \/ r.status = "active" /\ \E w : Follow(x, <<"updatePK">>, w)
          \/ r.status = "punishment" /\ \E w : Follow(x, <<"updatePK", "dropA", "dropB">>, w)
      <4>1. CASE ~Found(b)
        BY <2>6, <4>1 DEF GetPKStatus, Found
      <4>2. CASE Found(b) /\ r.status = "active" /\ now >= r.since + BattleTime
        BY <2>6, <4>2 DEF GetPKStatus
      <4>3. CASE Found(b) /\ r.status = "punishment" /\ now >= r.since + PunishTime
        BY <2>6, <4>3 DEF GetPKStatus
      <4>4. CASE /\ Found(b) /\ ~(r.status = "active" /\ now >= r.since + BattleTime)
                 /\ ~(r.status = "punishment" /\ now >= r.since + PunishTime)
        BY <2>6, <4>4 DEF GetPKStatus
      <4> QED BY <4>1, <4>2, <4>3, <4>4
    <3> HIDE DEF r
    <3>3. fate'[x] = "running" => /\ r.status \in {"active", "punishment"}
                                  /\ Head(plan'[x]) = "updatePK"
      BY <1>1, <1>2, <2>3, <2>4, <3>2
    <3> QED BY <2>1, <3>1, <3>3 DEF CallBegins, r, Effect
  <2>7. CASE InvitePKBattle(x) \/ RejectPKBattle(x) \/ SendGift(x)
    <3>1. job[x].kind \in {"invitePK", "rejectPK", "vote"}
      BY <2>7 DEF InvitePKBattle, RejectPKBattle, SendGift
    <3> QED BY <2>1, <3>1 DEF CallBegins, Effect
  <2> QED BY <1>3, <2>5, <2>6, <2>7
<1>4. CASE InsertPK(x) \/ UpdatePK(x) \/ SetActiveKey(x) \/ DelActiveKey(x) \/ ZeroScores(x) \/ AddPoints(x)
  <2>1. fate[x] = "running"
    BY <1>4 DEF InsertPK, UpdatePK, SetActiveKey, DelActiveKey, ZeroScores, AddPoints
  <2>2. BattleFits(x, plan[x], v) /\ BattleStatement(x, Head(plan[x]), t)
    BY <2>1, BattleAt
  <2>3. Follow(x, t, v)
    BY <1>4 DEF InsertPK, UpdatePK, SetActiveKey, DelActiveKey, ZeroScores, AddPoints
  <2> HIDE DEF t
  <2>4. fate'[x] = (IF t = <<>> THEN "done" ELSE "running") /\ plan'[x] = t
    BY <1>1, <2>3
  <2>5. CASE InsertPK(x)
    <3>1. v \in BattleRow /\ v.status = "invite" /\ job[x].kind = "invitePK"
      BY <2>2, <2>5 DEF InsertPK, BattleStatement, BattleFits
    <3>2. battle[x] = NoRow
      BY <2>1 DEF BattleInv, RightRow, Over
    <3>3. PICK r \in BattleRow : r = v
      BY <3>1
    <3>4. RowAdded(x, r)
      BY <2>1, <2>5, <3>1, <3>2, <3>3 DEF RowAdded, InsertPK
    <3> QED BY <3>4 DEF Effect
  <2>6. CASE UpdatePK(x)
    <3>1. PICK c : Changed(job[x].of, v, c)
      BY <2>2, <2>6 DEF UpdatePK, BattleStatement, BattleFits
    <3>2. job[x].of \in Proc
      BY <2>2, <2>6, BattleJob DEF UpdatePK, BattleStatement
    <3>3. PICK b \in Proc, r \in BattleRow :
            b = v.battle /\ b = job[x].of /\ r = v.row /\ battle[b] \in BattleRow /\ SameSides(r, battle[b])
      BY <3>1, <3>2 DEF Changed
    <3>4. /\ battle' = [battle EXCEPT ![b] = r] /\ activeKey' = activeKey
          /\ twice' = twice \cup {h \in {r.a, r.b} : r.status \in Open /\ OpenBattles(h) \ {b} # {}}
      BY <2>6, <3>3 DEF UpdatePK
    <3>5. Head(<<"keyA", "keyB", "zeroScores">>) = "keyA" /\ <<"keyA", "keyB", "zeroScores">> # <<>>
      BY TailOf3
    <3>6. \/ /\ job[x].kind = "acceptPK" /\ r.status = "active"
             /\ fate'[x] = "running" /\ Head(plan'[x]) = "keyA"
          \/ job[x].kind = "rejectPK" /\ r.status = "rejected"
          \/ job[x].kind = "statusPK" /\ r.status = "punishment" /\ fate'[x] = "done"
          \/ job[x].kind = "statusPK" /\ r.status = "ended"
      BY <2>2, <2>4, <2>6, <3>3, <3>5 DEF UpdatePK, BattleStatement
    <3>7. RowUpdated(x, b, r)
      BY <2>1, <2>6, <3>3, <3>4, <3>6 DEF RowUpdated, UpdatePK
    <3> QED BY <3>7 DEF Effect
  <2>7. CASE SetActiveKey(x)
    <3> DEFINE b == job[x].of
    <3>1. job[x].kind = "acceptPK" /\ b \in Proc /\ v.battle = b /\ battle[b] \in BattleRow /\ SameSides(v.row, battle[b])
      BY <2>2, <2>7, BattleJob DEF SetActiveKey, BattleStatement, BattleFits, BattleKinds, Changed
    <3>2. <<"keyB", "zeroScores">> # <<>> /\ Head(<<"keyB", "zeroScores">>) = "keyB"
      BY TailOf2
    <3>3. <<"zeroScores">> # <<>> /\ Head(<<"zeroScores">>) = "zeroScores"
      BY TailOf1
    <3>4. \/ Head(plan[x]) = "keyA" /\ t = <<"keyB", "zeroScores">>
          \/ Head(plan[x]) = "keyB" /\ t = <<"zeroScores">>
      BY <2>2, <2>7 DEF SetActiveKey, BattleStatement
    <3>5. /\ fate'[x] = "running"
          /\ \/ Head(plan[x]) = "keyA" /\ Side(x) = battle[b].streamA /\ Head(plan'[x]) = "keyB"
             \/ Head(plan[x]) = "keyB" /\ Side(x) = battle[b].streamB /\ Head(plan'[x]) = "zeroScores"
      BY <2>4, <3>1, <3>2, <3>3, <3>4 DEF Side, SameSides
    <3>6. Side(x) \in Stream
      BY <3>1, <3>5 DEF BattleRow
    <3>7. PICK s \in Stream : s = Side(x)
      BY <3>6
    <3>8. activeKey' = [activeKey EXCEPT ![s] = [battle |-> b, until |-> now + KeyLife]] /\ UNCHANGED <<battle, twice>>
      BY <2>7, <3>1, <3>7 DEF SetActiveKey
    <3>9. SetsKey(x, s)
      BY <2>1, <3>1, <3>5, <3>7, <3>8 DEF SetsKey
    <3> QED BY <3>9 DEF Effect
  <2>8. CASE DelActiveKey(x)
    <3> DEFINE b == job[x].of
    <3>1. job[x].kind = "statusPK" /\ b \in Proc /\ battle[b] \in BattleRow /\ SameSides(v.row, battle[b])
      BY <2>2, <2>8, BattleJob DEF DelActiveKey, BattleStatement, BattleFits, BattleKinds, Changed
    <3>2. Side(x) \in {battle[b].streamA, battle[b].streamB}
      BY <3>1 DEF Side, SameSides
    <3>3. PICK s \in Stream : s = Side(x)
      BY <3>1, <3>2 DEF BattleRow
    <3>4. TakesKey(x, s)
      BY <2>1, <2>8, <3>1, <3>2, <3>3 DEF DelActiveKey, TakesKey
    <3> QED BY <3>4 DEF Effect
  <2>9. CASE ZeroScores(x)
    BY <2>1, <2>2, <2>4, <2>9 DEF ZeroScores, BattleStatement, Scores, Effect
  <2>10. CASE AddPoints(x)
    BY <2>1, <2>2, <2>4, <2>10 DEF AddPoints, BattleStatement, Scores, Effect
  <2> QED BY <1>4, <2>5, <2>6, <2>7, <2>8, <2>9, <2>10
<1> QED BY <1>3, <1>4 DEF BattleStep

\* What a step makes of a call that accepts.
LEMMA Turns ==
  ASSUME CallInv, NEW x \in Proc, RestOf(x), Effect(x), NEW p \in Kind("acceptPK")
  PROVE  /\ Taken(p) => Taken(p)'
         /\ Turned(p) => Turned(p)'
         /\ Taken(p)' /\ ~Taken(p) => x = p /\ fate'[p] = "running" /\ battle[job[p].of].status = "invite"
         /\ Turned(p)' /\ ~Turned(p) => /\ x = p /\ fate'[p] = "running" /\ Head(plan'[p]) = "keyA"
                                        /\ \E r \in BattleRow, b \in Proc : RowUpdated(p, b, r)
         /\ HasKeyA(p)' /\ ~HasKeyA(p) => x = p /\ SetsKey(p, battle[job[p].of].streamA)
         /\ HasKeyB(p)' /\ ~HasKeyB(p) => x = p /\ SetsKey(p, battle[job[p].of].streamB)
         /\ Turned(p) => Taken(p)
         /\ HasKeyA(p) \/ HasKeyB(p) => Turned(p)
<1> USE DEF Taken, Turned, HasKeyA, HasKeyB, Done
<1>1. CASE x # p
  BY <1>1 DEF RestOf, Kind
<1>2. CASE x = p
  <2>1. job[x].kind = "acceptPK" /\ x \in Proc
    BY <1>2 DEF Kind
  <2>2. CASE CallBegins(x)
    BY <1>2, <2>1, <2>2 DEF CallBegins
  <2>3. CASE Scores(x)
    BY <1>2, <2>1, <2>3 DEF Scores
  <2>4. ASSUME NEW r \in BattleRow, RowAdded(x, r) PROVE FALSE
    BY <2>1, <2>4 DEF RowAdded
  <2>5. ASSUME NEW s \in Stream, TakesKey(x, s) PROVE FALSE
    BY <2>1, <2>5 DEF TakesKey
  <2>6. ASSUME NEW r \in BattleRow, NEW b \in Proc, RowUpdated(x, b, r)
        PROVE  /\ fate[x] = "running" /\ Head(plan[x]) = "updatePK"
               /\ fate'[x] = "running" /\ Head(plan'[x]) = "keyA"
    BY <2>1, <2>6 DEF RowUpdated
  <2>7. CASE \E r \in BattleRow, b \in Proc : RowUpdated(x, b, r)
    BY <1>2, <2>6, <2>7
  <2>8. ASSUME NEW s \in Stream, SetsKey(x, s)
        PROVE  /\ fate[x] = "running" /\ fate'[x] = "running"
               /\ \/ Head(plan[x]) = "keyA" /\ s = battle[job[x].of].streamA /\ Head(plan'[x]) = "keyB"
                  \/ Head(plan[x]) = "keyB" /\ s = battle[job[x].of].streamB /\ Head(plan'[x]) = "zeroScores"
    BY <2>8 DEF SetsKey
  <2>9. ASSUME NEW s \in Stream, SetsKey(x, s)
        PROVE  /\ Taken(p) /\ Taken(p)' /\ Turned(p) /\ Turned(p)'
               /\ HasKeyA(p)' /\ ~HasKeyA(p) => SetsKey(p, battle[job[p].of].streamA)
               /\ HasKeyB(p)' /\ ~HasKeyB(p) => SetsKey(p, battle[job[p].of].streamB)
               /\ HasKeyA(p) \/ HasKeyB(p) => Turned(p)
    BY <1>2, <2>8, <2>9
  <2> QED BY <1>2, <2>2, <2>3, <2>4, <2>5, <2>7, <2>9 DEF Effect
<1> QED BY <1>1, <1>2

\* A call that is alone after a step was so before it.
LEMMA AloneBefore ==
  ASSUME CallInv, Rest \/ \E x \in Proc : RestOf(x), NEW p \in Proc, Alone(p)'
  PROVE  Alone(p)
<1>1. job' = job
  BY DEF Rest, RestOf
<1>2. \A q \in Proc : Overlap(p, q) => Overlap(p, q)'
  BY OverlapStays
<1> QED BY <1>1, <1>2 DEF Alone, Kind

\* Two calls that accept one battle overlap.
LEMMA AcceptsMeet ==
  ASSUME CallInv, AcceptedOnce, NEW p \in Kind("acceptPK"), NEW q \in Kind("acceptPK"), p # q,
         job[p].of = job[q].of, Taken(p), Taken(q)
  PROVE  ~Alone(p)
<1>1. job[p].of \in Proc
  BY BattleJob DEF Kind, BattleKinds
<1> QED BY <1>1 DEF AcceptedOnce, Accepts, Alone

\* Whoever comes to fight in two open battles is noted.
LEMMA OneBattleStays ==
  ASSUME CallInv, BattleInv, NEW x \in Proc, Effect(x), OneBattle
  PROVE  OneBattle' /\ twice \subseteq twice'
<1>1. CASE battle' = battle /\ twice' = twice
  BY <1>1 DEF OneBattle
<1>2. ASSUME NEW y \in Proc, NEW r, battle' = [battle EXCEPT ![y] = r],
             twice' = twice \cup {h \in {r.a, r.b} : r.status \in Open /\ OpenBattles(h) \ {y} # {}}
      PROVE  OneBattle' /\ twice \subseteq twice'
  <2>1. battle'[y] = r /\ \A c \in Proc \ {y} : battle'[c] = battle[c]
    BY <1>2 DEF BattleInv, BattleTypes
  <2>2. ASSUME NEW c \in Proc \ {y}, r.status \in Open, battle[c].status \in Open
        PROVE  {r.a, r.b} \cap {battle[c].a, battle[c].b} \subseteq twice'
    <3> SUFFICES ASSUME NEW h \in {r.a, r.b}, h \in {battle[c].a, battle[c].b} PROVE h \in twice'
      OBVIOUS
    <3>1. c \in OpenBattles(h) \ {y}
      BY <2>2 DEF OpenBattles, Fights, Open
    <3> QED BY <1>2, <2>2, <3>1
  <2> SUFFICES ASSUME NEW b \in Proc, NEW c \in Proc, b # c, battle'[b].status \in Open, battle'[c].status \in Open
               PROVE  {battle'[b].a, battle'[b].b} \cap {battle'[c].a, battle'[c].b} \subseteq twice'
    BY <1>2 DEF OneBattle
  <2>3. CASE b = y
    BY <2>1, <2>2, <2>3
  <2>4. CASE c = y
    BY <2>1, <2>2, <2>4
  <2>5. CASE b # y /\ c # y
    BY <1>2, <2>1, <2>5 DEF OneBattle
  <2> QED BY <2>3, <2>4, <2>5
<1>3. CASE CallBegins(x) \/ Scores(x)
  BY <1>1, <1>3 DEF CallBegins, Scores
<1>4. ASSUME NEW r \in BattleRow, RowAdded(x, r) PROVE OneBattle' /\ twice \subseteq twice'
  <2>1. \A h : OpenBattles(h) \ {x} = OpenBattles(h)
    BY <1>4 DEF RowAdded, OpenBattles, Fights, NoRow
  <2>2. twice' = twice \cup {h \in {r.a, r.b} : r.status \in Open /\ OpenBattles(h) \ {x} # {}}
    BY <1>4, <2>1 DEF RowAdded, Open
  <2> QED BY <1>2, <1>4, <2>2 DEF RowAdded
<1>5. ASSUME NEW r \in BattleRow, NEW b \in Proc, RowUpdated(x, b, r) PROVE OneBattle' /\ twice \subseteq twice'
  BY <1>2, <1>5 DEF RowUpdated
<1>6. ASSUME NEW s \in Stream, SetsKey(x, s) \/ TakesKey(x, s) PROVE OneBattle' /\ twice \subseteq twice'
  BY <1>1, <1>6 DEF SetsKey, TakesKey
<1> QED BY <1>3, <1>4, <1>5, <1>6 DEF Effect

\* How a row comes to be another.
LEMMA RowMoves ==
  ASSUME CallInv, BattleInv, NEW x \in Proc, Effect(x), NEW b \in Proc, battle'[b] # battle[b]
  PROVE  \/ x = b /\ battle[b] = NoRow /\ battle'[b].status = "invite" /\ job[x].kind = "invitePK"
         \/ battle[b] \in BattleRow /\ \E r \in BattleRow : RowUpdated(x, b, r) /\ battle'[b] = r
<1>1. battle \in [Proc -> BattleRow \cup {NoRow}]
  BY DEF BattleInv, BattleTypes
<1>2. CASE CallBegins(x) \/ Scores(x)
  BY <1>2 DEF CallBegins, Scores
<1>3. ASSUME NEW r \in BattleRow, RowAdded(x, r)
      PROVE  x = b /\ battle[b] = NoRow /\ battle'[b].status = "invite" /\ job[x].kind = "invitePK"
  BY <1>1, <1>3 DEF RowAdded
<1>4. ASSUME NEW r \in BattleRow, NEW c \in Proc, RowUpdated(x, c, r)
      PROVE  battle[b] \in BattleRow /\ RowUpdated(x, b, r) /\ battle'[b] = r
  <2>1. battle' = [battle EXCEPT ![c] = r] /\ battle[c] \in BattleRow
    BY <1>4 DEF RowUpdated
  <2>2. c = b
    BY <1>1, <2>1
  <2> QED BY <1>1, <1>4, <2>1, <2>2
<1>5. ASSUME NEW s \in Stream, SetsKey(x, s) \/ TakesKey(x, s) PROVE FALSE
  BY <1>5 DEF SetsKey, TakesKey
<1> QED BY <1>2, <1>3, <1>4, <1>5 DEF Effect

\* A battle that was accepted is still one that was, by calls that overlap.
LEMMA AcceptedOnceStays ==
  ASSUME CallInv, CallInv', BattleInv, BattlesGoOn, NEW x \in Proc, RestOf(x), Effect(x), AcceptedOnce
  PROVE  AcceptedOnce'
<1>1. job' = job
  BY DEF RestOf
<1> SUFFICES ASSUME NEW b \in Proc
             PROVE  /\ \A p \in Accepts(b) : Taken(p)' => battle'[b] \in BattleRow
                    /\ \A p \in Accepts(b) : Turned(p)' => battle'[b].status # "invite"
                    /\ \A p, q \in Accepts(b) : p # q /\ Taken(p)' /\ Taken(q)' => Overlap(p, q)'
                    /\ \/ battle'[b].status \in {"active", "punishment", "ended"}
                       \/ \E q \in Kind("statusPK") : job[q].of = b /\ fate'[q] = "running"
                       => \E p \in Accepts(b) : Turned(p)'
  BY <1>1 DEF AcceptedOnce, Accepts, Kind
<1>2. /\ \A p \in Accepts(b) : Taken(p) => battle[b] \in BattleRow
      /\ \A p \in Accepts(b) : Turned(p) => battle[b].status # "invite"
      /\ \A p, q \in Accepts(b) : p # q /\ Taken(p) /\ Taken(q) => Overlap(p, q)
      /\ \/ battle[b].status \in {"active", "punishment", "ended"}
         \/ \E q \in Kind("statusPK") : job[q].of = b /\ fate[q] = "running"
         => \E p \in Accepts(b) : Turned(p)
  BY DEF AcceptedOnce
<1>3. \A p \in Accepts(b) :
         /\ p \in Proc /\ p \in Kind("acceptPK") /\ job[p].of = b
         /\ Turned(p) => Turned(p)'
         /\ Taken(p)' /\ ~Taken(p) => x = p /\ fate'[p] = "running" /\ battle[b].status = "invite"
         /\ Turned(p)' /\ ~Turned(p) => x = p /\ \E r \in BattleRow, c \in Proc : RowUpdated(p, c, r)
         /\ Turned(p) => Taken(p)
  BY Turns DEF Accepts, Kind
<1>4. battle[b] \in BattleRow \cup {NoRow}
  BY DEF BattleInv, BattleTypes
<1>5. ASSUME NEW p \in Accepts(b), Taken(p)' PROVE battle'[b] \in BattleRow
  <2>1. battle[b] \in BattleRow
    BY <1>2, <1>3, <1>4, <1>5 DEF NoRow
  <2> QED BY <2>1 DEF BattlesGoOn
<1>6. ASSUME NEW p \in Accepts(b), Turned(p)' PROVE battle'[b].status # "invite"
  <2>1. CASE Turned(p)
    <3>1. battle[b] \in BattleRow /\ battle[b].status # "invite"
      BY <1>2, <1>3, <2>1
    <3>2. battle'[b] # battle[b] => \E r \in BattleRow : RowUpdated(x, b, r) /\ battle'[b] = r
      BY <3>1, RowMoves, RowIsThere
    <3> QED BY <3>1, <3>2 DEF RowUpdated
  <2>2. CASE ~Turned(p)
    <3>1. PICK r \in BattleRow, c \in Proc : RowUpdated(p, c, r)
      BY <1>3, <1>6, <2>2
    <3>2. c = b /\ battle'[b] = r
      BY <1>3, <3>1 DEF RowUpdated, BattleInv, BattleTypes
    <3> QED BY <3>1, <3>2 DEF RowUpdated
  <2> QED BY <2>1, <2>2
<1>7. ASSUME NEW p \in Accepts(b), NEW q \in Accepts(b), p # q, Taken(p)', Taken(q)', Taken(p)
      PROVE  Overlap(p, q)'
  <2>1. CASE Taken(q)
    <3>1. Overlap(p, q)
      BY <1>2, <1>7, <2>1
    <3> QED BY <1>3, <3>1, OverlapStays
  <2>2. CASE ~Taken(q)
    <3>1. x = q /\ fate'[q] = "running" /\ battle[b].status = "invite"
      BY <1>3, <1>7, <2>2
    <3>2. fate[p] = "running" /\ ~Turned(p)
      BY <1>2, <1>7, <3>1 DEF Taken, Turned
    <3>3. fate'[p] = "running"
      BY <1>3, <1>7, <3>1, <3>2 DEF RestOf
    <3> QED BY <1>3, <1>7, <3>1, <3>3 DEF Overlap, Before, CallInv, Over
  <2> QED BY <2>1, <2>2
<1>8. ASSUME NEW p \in Accepts(b), NEW q \in Accepts(b), p # q, Taken(p)', Taken(q)' PROVE Overlap(p, q)'
  <2>1. CASE Taken(p)
    BY <1>7, <1>8, <2>1
  <2>2. CASE Taken(q)
    <3>1. Overlap(q, p)'
      BY <1>7, <1>8, <2>2
    <3> QED BY <3>1 DEF Overlap
  <2>3. CASE ~Taken(p) /\ ~Taken(q)
    BY <1>3, <1>8, <2>3
  <2> QED BY <2>1, <2>2, <2>3
<1>9. ASSUME battle'[b].status \in {"active", "punishment", "ended"}
      PROVE  \E p \in Accepts(b) : Turned(p)'
  <2>1. CASE battle'[b] = battle[b]
    BY <1>2, <1>3, <1>9, <2>1
  <2>2. CASE battle'[b] # battle[b]
    <3>1. PICK r \in BattleRow : RowUpdated(x, b, r) /\ battle'[b] = r
      BY <1>9, <2>2, RowMoves
    <3>2. /\ fate[x] = "running" /\ job[x].of = b
          /\ \/ job[x].kind = "acceptPK" /\ fate'[x] = "running" /\ Head(plan'[x]) = "keyA"
             \/ job[x].kind = "statusPK"
      BY <1>9, <3>1 DEF RowUpdated
    <3>3. CASE job[x].kind = "acceptPK"
      <4>1. x \in Accepts(b)
        BY <3>2, <3>3 DEF Accepts, Kind
      <4>2. Turned(x)'
        BY <3>2, <3>3 DEF Turned
      <4> QED BY <4>1, <4>2
    <3>4. CASE job[x].kind = "statusPK"
      BY <1>2, <1>3, <3>2, <3>4 DEF Kind
    <3> QED BY <3>2, <3>3, <3>4
  <2> QED BY <2>1, <2>2
<1>10. ASSUME NEW q \in Kind("statusPK"), job[q].of = b, fate'[q] = "running"
       PROVE  \E p \in Accepts(b) : Turned(p)'
  <2>1. CASE fate[q] = "running"
    BY <1>2, <1>3, <1>10, <2>1
  <2>2. CASE fate[q] # "running"
    <3>1. q = x
      BY <1>10, <2>2 DEF RestOf, Kind
    <3>2. job[x].kind = "statusPK"
      BY <1>10, <3>1 DEF Kind
    <3>3. CallBegins(x)
      BY <2>2, <3>1, <3>2 DEF Effect, RowAdded, RowUpdated, SetsKey, TakesKey, Scores
    <3>4. battle[b].status \in {"active", "punishment"}
      BY <1>10, <3>1, <3>2, <3>3 DEF CallBegins
    <3> QED BY <1>2, <1>3, <3>4
  <2> QED BY <2>1, <2>2
<1> QED BY <1>5, <1>6, <1>8, <1>9, <1>10

\* An active battle that was accepted alone is not written to be one.
LEMMA ActiveBefore ==
  ASSUME CallInv, BattleInv, AcceptedOnce, NEW x \in Proc, RestOf(x), Effect(x),
         NEW p \in Kind("acceptPK"), Turned(p), Alone(p), battle'[job[p].of].status = "active"
  PROVE  battle'[job[p].of] = battle[job[p].of]
<1> SUFFICES ASSUME battle'[job[p].of] # battle[job[p].of] PROVE FALSE
  OBVIOUS
<1>1. job[p].of \in Proc
  BY BattleJob DEF Kind, BattleKinds
<1>2. PICK b \in Proc : b = job[p].of
  BY <1>1
<1>3. PICK r \in BattleRow : RowUpdated(x, b, r) /\ battle'[b] = r
  BY <1>2, RowMoves
<1>4. /\ job[x].kind = "acceptPK" /\ fate[x] = "running" /\ Head(plan[x]) = "updatePK" /\ job[x].of = b
  BY <1>2, <1>3 DEF RowUpdated
<1>5. x \in Kind("acceptPK") /\ x # p /\ Taken(x) /\ Taken(p)
  BY <1>4, Turns DEF Kind, Turned, Taken, Done
<1> QED BY <1>2, <1>4, <1>5, AcceptsMeet

\* Such a battle, on between hosts of no other, was so before the step.
LEMMA RulesBefore ==
  ASSUME CallInv, BattleInv, OneBattle, AcceptedOnce, NEW x \in Proc, RestOf(x), Effect(x),
         NEW p \in Kind("acceptPK"), Rules(p)', Turned(p)
  PROVE  Rules(p) /\ battle'[job[p].of] = battle[job[p].of] /\ battle[job[p].of] \in BattleRow
<1>1. job' = job /\ p \in Proc
  BY DEF RestOf, Kind
<1>2. Alone(p)
  BY AloneBefore, <1>1 DEF Rules
<1>3. battle'[job[p].of].status = "active" /\ twice \subseteq twice'
  BY <1>1, OneBattleStays DEF Rules
<1>4. battle'[job[p].of] = battle[job[p].of]
  BY <1>2, <1>3, ActiveBefore
<1>5. battle[job[p].of] \in BattleRow
  <2>1. job[p].of \in Proc /\ Taken(p)
    BY BattleJob, Turns DEF Kind, BattleKinds
  <2> QED BY <2>1 DEF AcceptedOnce, Accepts
<1> QED BY <1>1, <1>2, <1>3, <1>4, <1>5 DEF Rules

\* A call that gives up the keys of a battle has ended it.
LEMMA DropsStay ==
  ASSUME CallInv, CallInv', BattleInv, BattlesGoOn, ScoreFacts, NEW x \in Proc, RestOf(x), Effect(x),
         NEW p \in Kind("acceptPK"), Turned(p)', Alone(p)'
  PROVE  DropsEnded(p)'
<1> DEFINE b == job[p].of
<1>1. job' = job /\ p \in Proc /\ Alone(p)
  BY AloneBefore DEF RestOf, Kind
<1>2. b \in Proc
  BY BattleJob DEF Kind, BattleKinds
<1> SUFFICES ASSUME NEW q \in Kind("statusPK"), job[q].of = b, fate'[q] = "running", Head(plan'[q]) \in {"dropA", "dropB"},
                    battle'[b].status = "active"
             PROVE  FALSE
  BY <1>1 DEF DropsEnded, Kind
<1>3. CASE Turned(p)
  <2>1. battle[b].status = "active" /\ DropsEnded(p)
    BY <1>1, <1>3, ActiveBefore DEF ScoreFacts
  <2>2. ~(fate[q] = "running" /\ Head(plan[q]) \in {"dropA", "dropB"})
    BY <2>1 DEF DropsEnded
  <2>3. q = x /\ job[x].kind = "statusPK"
    BY <2>2 DEF RestOf, Kind
  <2>4. \A r \in BattleRow, c \in Proc : RowUpdated(x, c, r) => c = b /\ r.status = "ended" /\ battle'[c] = r
    BY <2>3 DEF RowUpdated, BattleInv, BattleTypes
  <2> QED BY <2>2, <2>3, <2>4 DEF Effect, CallBegins, RowAdded, SetsKey, TakesKey, Scores
<1>4. CASE ~Turned(p)
  <2>1. x = p /\ Taken(p)
    BY <1>4, Turns DEF Taken, RowUpdated
  <2>2. fate[q] = "running"
    BY <2>1 DEF RestOf, Kind
  <2>3. PICK r \in Accepts(b) : Turned(r)
    BY <1>2, <2>2 DEF ScoreFacts, AcceptedOnce
  <2>4. r \in Kind("acceptPK") /\ r # p /\ job[r].of = b /\ Taken(r)
    BY <1>4, <2>3, Turns DEF Accepts
  <2> QED BY <1>1, <2>1, <2>4, AcceptsMeet DEF ScoreFacts
<1> QED BY <1>3, <1>4

\* A call that comes later is still about a battle of others.
LEMMA LaterStay ==
  ASSUME CallInv, CallInv', BattleInv, BattlesGoOn, ScoreFacts, NEW x \in Proc, RestOf(x), Effect(x),
         NEW p \in Kind("acceptPK"), Rules(p)'
  PROVE  LaterApart(p)'
<1> DEFINE b == job[p].of
<1>1. job' = job /\ p \in Proc
  BY DEF RestOf, Kind
<1>2. b \in Proc
  BY BattleJob DEF Kind, BattleKinds
<1> SUFFICES ASSUME NEW q \in Kinds({"acceptPK", "statusPK"}), p \in past'[q], fate'[q] = "running", job[q].of # b
             PROVE  Apart(job[p].of, job[q].of)'
  BY <1>1 DEF LaterApart, Kinds, Before
<1>3. PICK c \in Proc : c = job[q].of
  <2>1. job[q].of \in Proc
    BY BattleJob DEF Kinds, BattleKinds
  <2> QED BY <2>1
<1>4. CASE ~Turned(p)
  <2>1. fate'[p] = "running" /\ Turned(p)'
    BY <1>4, Turns DEF Rules
  <2> QED BY <1>1, <2>1 DEF CallInv, Over, Kinds
<1>5. CASE Turned(p)
  <2>1. Rules(p) /\ battle'[b] = battle[b] /\ battle[b] \in BattleRow
    BY <1>5, RulesBefore DEF ScoreFacts
  <2>2. CASE fate[q] = "running"
    <3>1. past'[q] = past[q] /\ q \in Proc
      BY <2>2 DEF RestOf, Kinds
    <3>2. Apart(b, c)
      BY <1>3, <2>1, <2>2, <3>1 DEF ScoreFacts, LaterApart, Before
    <3>3. battle[c] \in BattleRow
      BY <1>3, <2>2 DEF BattleInv, StandsBy, BattleFits, Changed, Kinds, BattleKinds
    <3>4. SameSides(battle'[c], battle[c])
      BY <3>3 DEF BattlesGoOn
    <3> QED BY <1>1, <1>3, <2>1, <3>2, <3>4 DEF Apart, SameSides
  <2>3. CASE fate[q] # "running"
    <3>1. q = x /\ job[x].kind \in {"acceptPK", "statusPK"}
      BY <2>3 DEF RestOf, Kinds
    <3>2. CallBegins(x)
      BY <2>3, <3>1 DEF Effect, RowAdded, RowUpdated, SetsKey, TakesKey, Scores
    <3>3. battle' = battle /\ battle[c].status \in Open
      BY <1>3, <3>1, <3>2 DEF CallBegins, Open
    <3>4. battle[b].status \in Open /\ {battle[b].a, battle[b].b} \cap twice = {}
      BY <2>1 DEF Rules, Open
    <3>5. {battle[b].a, battle[b].b} \cap {battle[c].a, battle[c].b} \subseteq twice
      BY <1>2, <1>3, <3>3, <3>4 DEF ScoreFacts, OneBattle
    <3> QED BY <1>1, <1>3, <3>3, <3>4, <3>5 DEF Apart
  <2> QED BY <2>2, <2>3
<1> QED BY <1>4, <1>5

\* The keys of a battle still name it.
LEMMA KeysStay ==
  ASSUME CallInv, CallInv', BattleInv, BattlesGoOn, ScoreFacts, NEW x \in Proc, RestOf(x), Effect(x),
         NEW p \in Kind("acceptPK"), Rules(p)'
  PROVE  KeysNamed(p)'
<1>1. job' = job /\ p \in Proc
  BY DEF RestOf, Kind
<1>2. PICK b \in Proc : b = job[p].of
  <2>1. job[p].of \in Proc
    BY BattleJob DEF Kind, BattleKinds
  <2> QED BY <2>1
<1>3. CASE ~Turned(p)
  <2>1. ~HasKeyA(p)' /\ ~HasKeyB(p)'
    BY <1>3, Turns DEF Rules, HasKeyA, HasKeyB, Done
  <2> QED BY <2>1 DEF KeysNamed
<1>4. CASE Turned(p)
  <2>1. Rules(p) /\ battle'[b] = battle[b] /\ battle[b] \in BattleRow
    BY <1>2, <1>4, RulesBefore DEF ScoreFacts
  <2>2. battle[b].since \in Nat /\ battle[b].since <= now /\ KeyLife \in Nat /\ now \in Nat
        /\ battle[b].streamA \in Stream /\ battle[b].streamB \in Stream /\ Owned(battle[b])
    BY <2>1, RowIsThere, CallAssumption, BattleAssumption DEF BattleInv, RightRow, BattleRow, CallInv, CallTypeOK
  <2>3. activeKey \in [Stream -> ActiveKey]
    BY DEF BattleInv, BattleTypes
  \* What p writes to a key is right.
  <2>4. ASSUME NEW s \in Stream, SetsKey(p, s)
        PROVE  activeKey'[s].battle = b /\ battle'[b].since + KeyLife <= activeKey'[s].until
    BY <1>2, <2>1, <2>2, <2>3, <2>4 DEF SetsKey
  \* What another writes is no key of this battle.
  <2>5. ASSUME NEW s \in Stream, SetsKey(x, s) \/ TakesKey(x, s), x # p,
               s \in {battle[b].streamA, battle[b].streamB}
        PROVE  FALSE
    <3>1. /\ fate[x] = "running" /\ job[x].kind \in {"acceptPK", "statusPK"} /\ battle[job[x].of] \in BattleRow
          /\ s \in {battle[job[x].of].streamA, battle[job[x].of].streamB}
          /\ job[x].kind = "statusPK" => Head(plan[x]) \in {"dropA", "dropB"}
      BY <2>5 DEF SetsKey, TakesKey
    <3>2. PICK c \in Proc : c = job[x].of
      <4>1. job[x].of \in Proc
        BY <3>1, BattleJob DEF BattleKinds
      <4> QED BY <4>1
    <3>3. Alone(p) /\ battle[b].status = "active" /\ {battle[b].a, battle[b].b} \cap twice = {}
      BY <1>2, <2>1 DEF Rules
    <3>4. CASE c = b
      <4>1. job[x].kind # "acceptPK"
        <5>1. Taken(x) /\ Taken(p)
          BY <1>4, <3>1, Turns DEF Taken
        <5> QED BY <1>2, <2>5, <3>2, <3>3, <3>4, <5>1, AcceptsMeet DEF ScoreFacts, Kind
      <4>2. DropsEnded(p)
        BY <1>4, <3>3 DEF ScoreFacts
      <4> QED BY <1>2, <3>1, <3>2, <3>3, <3>4, <4>1, <4>2 DEF DropsEnded, Kind
    <3>5. CASE c # b
      <4>1. ~Overlap(p, x)
        BY <1>2, <3>1, <3>2, <3>3, <3>5 DEF Alone, Kind
      <4>2. fate[p] # "new" /\ p # x /\ ~Before(x, p)
        BY <1>1, <1>4, <2>5, <3>1 DEF Turned, Done, Before, CallInv, Over
      <4>3. Before(p, x)
        BY <3>1, <4>1, <4>2 DEF Overlap
      <4>4. Apart(b, c)
        BY <1>2, <2>1, <3>1, <3>2, <3>5, <4>3 DEF ScoreFacts, LaterApart, Kinds
      <4>5. Owned(battle[c])
        BY <3>1, <3>2, RowIsThere DEF BattleInv, RightRow
      <4>6. row[s].host \in {battle[b].a, battle[b].b} /\ row[s].host \in {battle[c].a, battle[c].b}
        BY <2>2, <2>5, <3>1, <3>2, <4>5 DEF Owned, Owns
      <4> QED BY <4>4, <4>6 DEF Apart
    <3> QED BY <3>4, <3>5
  \* A key of this battle stays as it is, or p writes it.
  <2>6. ASSUME NEW s \in {battle[b].streamA, battle[b].streamB}
        PROVE  activeKey'[s] = activeKey[s] \/ SetsKey(p, s)
    <3>1. CASE CallBegins(x) \/ Scores(x)
      BY <3>1 DEF CallBegins, Scores
    <3>2. CASE \E r \in BattleRow : RowAdded(x, r) \/ \E d \in Proc : RowUpdated(x, d, r)
      BY <3>2 DEF RowAdded, RowUpdated
    <3>3. ASSUME NEW t \in Stream, SetsKey(x, t) \/ TakesKey(x, t), activeKey'[s] # activeKey[s]
          PROVE  SetsKey(p, s)
      <4>1. s = t
        BY <2>2, <2>3, <3>3 DEF SetsKey, TakesKey
      <4>2. x = p
        BY <2>5, <3>3, <4>1
      <4> QED BY <3>3, <4>1, <4>2 DEF TakesKey, Kind
    <3> QED BY <3>1, <3>2, <3>3 DEF Effect
  <2>7. /\ HasKeyA(p) => Names(battle[b].streamA, b)
        /\ HasKeyB(p) => Names(battle[b].streamB, b)
    BY <1>2, <2>1 DEF ScoreFacts, KeysNamed
  <2>8. /\ HasKeyA(p)' => HasKeyA(p) \/ SetsKey(p, battle[b].streamA)
        /\ HasKeyB(p)' => HasKeyB(p) \/ SetsKey(p, battle[b].streamB)
    BY <1>2, Turns
  <2>9. PICK sA \in Stream, sB \in Stream : sA = battle[b].streamA /\ sB = battle[b].streamB
    BY <2>2
  <2>10. HasKeyA(p)' => activeKey'[sA].battle = b /\ battle'[b].since + KeyLife <= activeKey'[sA].until
    BY <2>1, <2>4, <2>6, <2>7, <2>8, <2>9 DEF Names
  <2>11. HasKeyB(p)' => activeKey'[sB].battle = b /\ battle'[b].since + KeyLife <= activeKey'[sB].until
    BY <2>1, <2>4, <2>6, <2>7, <2>8, <2>9 DEF Names
  <2> QED BY <1>1, <1>2, <2>1, <2>9, <2>10, <2>11 DEF KeysNamed, Names
<1> QED BY <1>3, <1>4

\* A step that is not of a call about battles leaves all this as it is.
LEMMA OthersLeaveScores ==
  ASSUME CallInv, UNCHANGED battleVars, ScoreFacts,
         Rest \/ \E x \in Proc : RestOf(x) /\ job[x].kind \notin BattleKinds
  PROVE  ScoreFacts'
<1>1. job' = job /\ \A p \in Proc : job[p].kind \in BattleKinds => fate'[p] = fate[p] /\ plan'[p] = plan[p] /\ past'[p] = past[p]
  BY DEF Rest, RestOf
<1>2. battle' = battle /\ activeKey' = activeKey /\ twice' = twice
  BY DEF battleVars
<1>3. OneBattle'
  BY <1>2 DEF ScoreFacts, OneBattle
<1>4. \A p \in Kind("acceptPK") : /\ Taken(p)' <=> Taken(p)
                                  /\ Turned(p)' <=> Turned(p)
                                  /\ HasKeyA(p)' <=> HasKeyA(p)
                                  /\ HasKeyB(p)' <=> HasKeyB(p)
  BY <1>1 DEF Taken, Turned, HasKeyA, HasKeyB, Done, Kind, BattleKinds
<1>5. \A p \in Proc : Alone(p)' => Alone(p)
  BY AloneBefore
<1>6. \A p, q \in Proc : Overlap(p, q) => Overlap(p, q)'
  BY OverlapStays
<1>7. AcceptedOnce'
  <2> SUFFICES ASSUME NEW b \in Proc
               PROVE  /\ \A p \in Accepts(b) : Taken(p)' => battle[b] \in BattleRow
                      /\ \A p \in Accepts(b) : Turned(p)' => battle[b].status # "invite"
                      /\ \A p, q \in Accepts(b) : p # q /\ Taken(p)' /\ Taken(q)' => Overlap(p, q)'
                      /\ \/ battle[b].status \in {"active", "punishment", "ended"}
                         \/ \E q \in Kind("statusPK") : job[q].of = b /\ fate'[q] = "running"
                         => \E p \in Accepts(b) : Turned(p)'
    BY <1>1, <1>2 DEF AcceptedOnce, Accepts, Kind
  <2>1. \A q \in Kind("statusPK") : fate'[q] = fate[q]
    BY <1>1 DEF Kind, BattleKinds
  <2>2. AcceptedOnce
    BY DEF ScoreFacts
  <2> QED BY <1>4, <1>6, <2>1, <2>2 DEF AcceptedOnce, Accepts, Kind
<1> SUFFICES ASSUME NEW p \in Kind("acceptPK")
             PROVE  /\ Turned(p)' /\ Alone(p)' => DropsEnded(p)'
                    /\ Rules(p)' => LaterApart(p)' /\ KeysNamed(p)'
  BY <1>1, <1>3, <1>7 DEF ScoreFacts, Kind
<1>8. DropsEnded(p) => DropsEnded(p)'
  BY <1>1, <1>2 DEF DropsEnded, Kind, BattleKinds
<1>9. Rules(p)' => Rules(p)
  BY <1>1, <1>2, <1>4, <1>5 DEF Rules, Kind
<1>10. LaterApart(p) => LaterApart(p)'
  BY <1>1, <1>2 DEF LaterApart, Apart, Before, Kinds, BattleKinds
<1>11. KeysNamed(p) => KeysNamed(p)'
  BY <1>1, <1>2, <1>4 DEF KeysNamed, Names
<1> QED BY <1>4, <1>5, <1>8, <1>9, <1>10, <1>11 DEF ScoreFacts, Kind

\* As long as no statement fails, an active battle between hosts of no other
\* has the keys its call has set.
LEMMA ScoresHold == Spec => []ScoreInv
<1>1. Init => ScoreInv
  <2> SUFFICES ASSUME Init PROVE ScoreFacts
    BY DEF ScoreInv
  <2>1. \A b \in Proc : battle[b].status = "none"
    BY DEF Init, BattleInit
  <2>2. \A p \in Proc : job[p].kind # "none" => ~Taken(p) /\ ~Turned(p) /\ fate[p] # "running"
    BY DEF Init, CallInit, Taken, Turned, Done
  <2> QED BY <2>1, <2>2 DEF ScoreFacts, OneBattle, AcceptedOnce, Accepts, Kind, Rules, Open
<1>2. CallInv /\ CallInv' /\ StreamInv /\ OwnInv /\ BattleInv /\ ScoreInv /\ [Next]_vars => ScoreInv'
  <2> SUFFICES ASSUME CallInv, CallInv', StreamInv, OwnInv, BattleInv, ScoreInv, [Next]_vars, faults' = 0
               PROVE  ScoreFacts'
    BY DEF ScoreInv
  <2>1. ScoreFacts
    BY FaultsGrow DEF ScoreInv
  <2>2. CASE UNCHANGED battleVars /\ (Rest \/ \E x \in Proc : RestOf(x) /\ job[x].kind \notin BattleKinds)
    BY <2>1, <2>2, OthersLeaveScores
  <2>3. ASSUME NEW x \in Proc, job[x].kind \in BattleKinds, BattleStep(x), RestOf(x) PROVE ScoreFacts'
    <3>1. BattlesGoOn /\ Effect(x) /\ job' = job
      BY <2>3, BattleKeeps, BattleSteps DEF RestOf
    <3>2. OneBattle' /\ AcceptedOnce'
      BY <2>1, <2>3, <3>1, OneBattleStays, AcceptedOnceStays DEF ScoreFacts
    <3>3. \A p \in Kind("acceptPK") : /\ Turned(p)' /\ Alone(p)' => DropsEnded(p)'
                                      /\ Rules(p)' => LaterApart(p)' /\ KeysNamed(p)'
      BY <2>1, <2>3, <3>1, DropsStay, LaterStay, KeysStay
    <3> QED BY <3>1, <3>2, <3>3 DEF ScoreFacts, Kind
  <2> QED BY <2>2, <2>3, StepsOfBattles DEF BattleCases
<1> QED BY <1>1, <1>2, CallsHold, StreamsHold, OwnHolds, BattlesHold, PTL DEF Spec

\* Between two hosts that are in no other battle, gifts score in an active one
\* on both sides, until its keys expire, unless another was accepted or ended
\* while it was.
THEOREM BattlesScore == Spec => []ActiveBattleScores
<1>1. CallInv /\ BattleInv /\ ScoreInv => ActiveBattleScores
  <2> SUFFICES ASSUME CallInv, BattleInv, ScoreInv, faults = 0, NEW p \in Kind("acceptPK"), Done(p),
                      battle[job[p].of].status = "active", now < battle[job[p].of].since + KeyLife,
                      {battle[job[p].of].a, battle[job[p].of].b} \cap twice = {}, Alone(p)
               PROVE  /\ ActiveIn(battle[job[p].of].streamA) = job[p].of
                      /\ ActiveIn(battle[job[p].of].streamB) = job[p].of
    BY DEF ActiveBattleScores, Alone
  <2>1. PICK b \in Proc : b = job[p].of
    <3>1. job[p].of \in Proc
      BY BattleJob DEF Kind, BattleKinds
    <3> QED BY <3>1
  <2>2. Turned(p) /\ HasKeyA(p) /\ HasKeyB(p) /\ Taken(p)
    BY DEF Turned, HasKeyA, HasKeyB, Taken
  <2>3. Names(battle[b].streamA, b) /\ Names(battle[b].streamB, b)
    BY <2>1, <2>2 DEF ScoreInv, ScoreFacts, Rules, KeysNamed
  <2>4. battle[b] \in BattleRow
    BY <2>1, <2>2 DEF ScoreInv, ScoreFacts, AcceptedOnce, Accepts
  <2>5. \A s \in {battle[b].streamA, battle[b].streamB} : activeKey[s].until \in Nat
    BY <2>4 DEF BattleInv, BattleTypes, BattleRow, ActiveKey
  <2>6. now \in Nat /\ KeyLife \in Nat /\ battle[b].since \in Nat
    BY <2>4, CallAssumption, BattleAssumption DEF CallInv, CallTypeOK, BattleRow
  <2>7. \A s \in {battle[b].streamA, battle[b].streamB} : Names(s, b) => ActiveIn(s) = b
    BY <2>1, <2>5, <2>6 DEF Names, ActiveIn
  <2> QED BY <2>1, <2>3, <2>7
<1> QED BY <1>1, CallsHold, BattlesHold, ScoresHold, PTL

-----------------------------------------------------------------------------
(***************************************************************************)
(* Schedules: what is cancelled stays so.  First what a step of a call     *)
(* does to the rows, and to what the call has at hand.                     *)
(***************************************************************************)
LinkKinds == ScheduleKinds \cup {"startStream"}

\* p goes through what it has read, has one of it at hand, or links a stream.
Reminds(p) == fate[p] = "running" /\ job[p].kind = "remind" /\ Head(plan[p]) # "markMissed"
Notes(p) == Reminds(p) /\ Head(plan[p]) # "remindNext"
Linking(p) == fate[p] = "running" /\ Head(plan[p]) \in {"linkOccurrence", "linkSchedule"}
Deleted(p) == Done(p) \/ At(p, "cancelFuture")

RowMoves1(x) == \A s \in Schedule :
  \/ schedule'[s] = schedule[s]
  \/ fate[x] = "running" /\ job[x].kind \in {"createSchedule", "updateSchedule"} /\ Sch(x) = s
  \/ job[x].kind = "cancelSchedule" /\ Sch(x) = s /\ fate[x] = "running" /\ schedule'[s].status = "cancelled"
  \/ At(x, "linkSchedule") /\ seen[x].schedule = s /\ schedule'[s].status = "live"
DateMoves(x) == \A s \in Schedule, d \in Date :
  \/ occurrence'[s][d] = occurrence[s][d]
  \/ occurrence[s][d].status = "upcoming" /\ occurrence'[s][d].status \in {"cancelled", "missed"}
  \/ At(x, "linkOccurrence") /\ seen[x].schedule = s /\ occurrence'[s][d].status = "live"
  \/ /\ At(x, "insertOccurrence") /\ occurrence[s][d].status = "none"
     /\ \E o \in seen[x].todo : o.schedule = s
  \/ At(x, "writeOccurrence") /\ Notes(x) /\ seen[x].of.schedule = s /\ seen[x].of.date = d
LogMoves(x) == \A r \in reminded' \ reminded : r.is = "tier" =>
  At(x, "log") /\ Notes(x) /\ r.by = x /\ r.schedule = seen[x].of.schedule /\ r.date = seen[x].of.date
RowsMove(x) == RowMoves1(x) /\ DateMoves(x) /\ LogMoves(x)

\* A change or a cancellation begins with a row that is there.
ComesToRow(x) ==
  /\ job[x].kind \in {"updateSchedule", "cancelSchedule", "cancelOccurrence"} => schedule[Sch(x)].status # "none"
  /\ job[x].kind = "cancelOccurrence" => occurrence[Sch(x)][job[x].date].status # "none"
TodoMoves(x) == At(x, "insertOccurrence")' => \A o \in seen'[x].todo :
  \/ At(x, "insertOccurrence") /\ o \in seen[x].todo
  \/ fate[x] = "running" /\ job[x].kind \in {"createSchedule", "updateSchedule"} /\ o.schedule = Sch(x)
  \/ /\ fate[x] = "new" /\ job[x].kind = "refill" /\ o.schedule \in Schedule
     /\ schedule[o.schedule].status = "scheduled"
ReadMoves(x) ==
  /\ Reminds(x)' => \A o \in seen'[x].rows :
       \/ Reminds(x) /\ o \in seen[x].rows
       \/ /\ fate[x] = "new" /\ o.schedule \in Schedule /\ o.date \in Date
          /\ o.row = occurrence[o.schedule][o.date] /\ o.row.status = "upcoming"
  /\ Notes(x)' => \/ Notes(x) /\ seen'[x].of = seen[x].of
                  \/ Reminds(x) /\ seen'[x].of \in seen[x].rows /\ seen'[x].of.row.start > now
LinkMoves(x) == Linking(x)' =>
  \/ Linking(x) /\ seen'[x].schedule = seen[x].schedule
  \/ seen'[x].schedule \in Schedule /\ \E d \in Date : occurrence[seen'[x].schedule][d].status = "upcoming"
HoldsMove(x) == /\ fate[x] = "new" /\ fate'[x] # "failed" => ComesToRow(x)
                /\ TodoMoves(x) /\ ReadMoves(x) /\ LinkMoves(x)

\* A cancellation leaves the row cancelled, and no date to come.
CancelMoves(x) ==
  /\ job[x].kind = "cancelSchedule" /\ ~Deleted(x) /\ Deleted(x)' => schedule'[Sch(x)].status = "cancelled"
  /\ job[x].kind = "cancelSchedule" /\ Done(x)' => \A d \in Date :
       occurrence'[Sch(x)][d].status = "upcoming" => occurrence'[Sch(x)][d].start <= now
  /\ job[x].kind = "cancelOccurrence" /\ Done(x)' => occurrence'[Sch(x)][job[x].date].status # "upcoming"
ScheduleEffect(x) == RowsMove(x) /\ HoldsMove(x) /\ CancelMoves(x)

\* What has come of a call that goes on to u, holding w.
LEMMA GoesOn ==
  ASSUME CallInv, NEW x \in Proc, NEW u, NEW w, Follow(x, u, w)
  PROVE  /\ plan'[x] = u /\ fate'[x] = (IF u = <<>> THEN "done" ELSE "running")
         /\ u # <<>> => seen'[x] = w
         /\ job' = job /\ now' = now
BY DEF Follow, CallInv, CallTypeOK

\* A call that goes on to u, of which nothing is said here.
LEMMA HoldsNothing ==
  ASSUME CallInv, NEW x \in Proc, job[x].kind \in LinkKinds,
         \/ fate'[x] # "running"
         \/ /\ Head(plan'[x]) \notin {"insertOccurrence", "linkOccurrence", "linkSchedule"}
            /\ job[x].kind # "remind" \/ Head(plan'[x]) = "markMissed"
            /\ job' = job,
         fate[x] = "new" /\ fate'[x] # "failed" => ComesToRow(x)
  PROVE  HoldsMove(x)
BY DEF HoldsMove, TodoMoves, ReadMoves, LinkMoves, Reminds, Notes, Linking, At

\* No row has changed.
LEMMA RowsStand == ASSUME NEW x, UNCHANGED <<schedule, occurrence, reminded>> PROVE RowsMove(x)
BY DEF RowsMove, RowMoves1, DateMoves, LogMoves

\* The calls begin: with what they have read.
LEMMA BeginEffect ==
  ASSUME CallInv, ScheduleInv, NEW x \in Proc, job[x].kind \in ScheduleKinds,
         \/ CreateSchedule(x) \/ UpdateSchedule(x) \/ CancelSchedule(x) \/ CancelOccurrence(x)
         \/ RefillAllOccurrences(x) \/ Subscription(x) \/ CheckAndSendTieredReminders(x)
  PROVE  ScheduleEffect(x)
<1> USE DEF Asked, Begin, Return
<1>1. fate[x] = "new" /\ UNCHANGED <<schedule, occurrence, reminded>>
  BY DEF CreateSchedule, UpdateSchedule, CancelSchedule, CancelOccurrence, RefillAllOccurrences,
         Subscription, CheckAndSendTieredReminders, scheduleVars
<1>2. job[x].kind \in LinkKinds /\ RowsMove(x)
  BY <1>1, RowsStand DEF LinkKinds
<1>3. ASSUME job[x].kind \in {"cancelSchedule", "cancelOccurrence"} =>
               fate'[x] # "done" /\ (fate'[x] = "running" => Head(plan'[x]) # "cancelFuture")
      PROVE  CancelMoves(x)
  BY <1>1, <1>3 DEF CancelMoves, Deleted, Done, At
<1>4. Refuse(x) => fate'[x] = "failed" /\ job' = job
  BY DEF Refuse, Break, CallInv, CallTypeOK
<1>5. Refuse(x) => HoldsMove(x) /\ CancelMoves(x)
  BY <1>2, <1>3, <1>4, HoldsNothing
<1>6. ASSUME NEW u, u # <<>>, NEW w, Follow(x, u, w), job[x].kind \notin {"refill", "remind"},
             Head(u) \in {"insertSchedule", "updateSchedule", "deleteSchedule", "cancelOne"}, ComesToRow(x)
      PROVE  HoldsMove(x) /\ CancelMoves(x)
  <2>1. plan'[x] = u /\ fate'[x] = "running" /\ job' = job
    BY <1>6, GoesOn
  <2> QED BY <1>2, <1>3, <1>6, <2>1, HoldsNothing
<1>7. CASE CreateSchedule(x)
  <2>1. CASE Begin(x, <<"insertSchedule", "generate">>, Nothing)
    <3>1. job[x].kind = "createSchedule" /\ ComesToRow(x)
      BY <1>7 DEF CreateSchedule, ComesToRow
    <3>2. Head(<<"insertSchedule", "generate">>) = "insertSchedule"
      BY TailOf2
    <3> QED BY <1>2, <1>6, <2>1, <3>1, <3>2, TailOf2 DEF ScheduleEffect
  <2> QED BY <1>2, <1>5, <1>7, <2>1 DEF CreateSchedule, ScheduleEffect
<1>8. CASE UpdateSchedule(x)
  <2> DEFINE more == IF schedule[Sch(x)].rule # job[x].rule THEN <<"cancelFuture", "generate">> ELSE <<>>
             w == [row |-> [schedule[Sch(x)] EXCEPT !.rule = job[x].rule]]
  <2>1. CASE OwnedBy(job[x].user, Sch(x)) /\ Begin(x, <<"updateSchedule">> \o more, w)
    <3>1. job[x].kind = "updateSchedule" /\ ComesToRow(x)
      BY <1>8, <2>1 DEF UpdateSchedule, ComesToRow, OwnedBy
    <3>2. more \in Seq({"cancelFuture", "generate"})
      <4>1. <<"cancelFuture", "generate">> \in Seq({"cancelFuture", "generate"})
        OBVIOUS
      <4>2. <<>> \in Seq({"cancelFuture", "generate"})
        OBVIOUS
      <4> QED BY <4>1, <4>2
    <3>3. Head(<<"updateSchedule">> \o more) = "updateSchedule" /\ <<"updateSchedule">> \o more # <<>>
      <4> HIDE DEF more
      <4> QED BY <3>2
    <3> HIDE DEF more, w
    <3> QED BY <1>2, <1>6, <2>1, <3>1, <3>3 DEF ScheduleEffect
  <2> QED BY <1>2, <1>5, <1>8, <2>1 DEF UpdateSchedule, ScheduleEffect
<1>9. CASE CancelSchedule(x)
  <2>1. CASE OwnedBy(job[x].user, Sch(x)) /\ Begin(x, <<"deleteSchedule", "cancelFuture">>, Nothing)
    <3>1. job[x].kind = "cancelSchedule" /\ ComesToRow(x)
      BY <1>9, <2>1 DEF CancelSchedule, ComesToRow, OwnedBy
    <3>2. Head(<<"deleteSchedule", "cancelFuture">>) = "deleteSchedule"
      BY TailOf2
    <3> QED BY <1>2, <1>6, <2>1, <3>1, <3>2, TailOf2 DEF ScheduleEffect
  <2> QED BY <1>2, <1>5, <1>9, <2>1 DEF CancelSchedule, ScheduleEffect
<1>10. CASE CancelOccurrence(x)
  <2>1. CASE /\ OwnedBy(job[x].user, Sch(x)) /\ GetOccurrenceByID(Sch(x), job[x].date).status # "none"
             /\ Begin(x, <<"cancelOne">>, Nothing)
    <3>1. job[x].kind = "cancelOccurrence" /\ ComesToRow(x)
      BY <1>10, <2>1 DEF CancelOccurrence, ComesToRow, OwnedBy, GetOccurrenceByID
    <3>2. Head(<<"cancelOne">>) = "cancelOne"
      BY TailOf1
    <3> QED BY <1>2, <1>6, <2>1, <3>1, <3>2, TailOf1 DEF ScheduleEffect
  <2> QED BY <1>2, <1>5, <1>10, <2>1 DEF CancelOccurrence, ScheduleEffect
<1>11. CASE RefillAllOccurrences(x)
  <2> DEFINE todo == UNION {Coming(s, schedule[s].rule) : s \in GetActiveRecurringSchedules}
             w == [todo |-> todo]
  <2>1. Follow(x, Inserts(todo), w) /\ job[x].kind = "refill"
    BY <1>11 DEF RefillAllOccurrences
  <2>2. ASSUME NEW o \in todo PROVE o.schedule \in Schedule /\ schedule[o.schedule].status = "scheduled"
    <3>1. PICK s \in GetActiveRecurringSchedules : o \in Coming(s, schedule[s].rule)
      BY <2>2
    <3> QED BY <3>1 DEF Coming, GetActiveRecurringSchedules
  <2>3. w.todo = todo
    OBVIOUS
  <2>4. CancelMoves(x)
    BY <1>3, <2>1
  <2> HIDE DEF todo, w
  <2>5. TodoMoves(x)
    <3> SUFFICES ASSUME At(x, "insertOccurrence")', NEW o \in seen'[x].todo
                 PROVE  o \in todo
      BY <1>1, <2>1, <2>2 DEF TodoMoves
    <3>1. seen'[x] = w
      BY <2>1, GoesOn DEF At
    <3> QED BY <2>3, <3>1
  <2>6. ~Reminds(x)' /\ ~Notes(x)'
    BY <2>1, GoesOn DEF Reminds, Notes
  <2>7. ~Linking(x)'
    <3>1. Inserts(todo) # <<>> => Head(Inserts(todo)) = "insertOccurrence"
      BY InsertNext, InsertsAreSome, RefillIsFinite DEF ScheduleInv, todo
    <3> QED BY <2>1, <3>1, GoesOn DEF Linking
  <2> QED BY <1>2, <2>1, <2>4, <2>5, <2>6, <2>7 DEF ScheduleEffect, HoldsMove, ReadMoves, LinkMoves, ComesToRow
<1>12. CASE Subscription(x)
  <2>1. Follow(x, <<>>, Nothing) /\ job[x].kind \in {"subscribe", "unsubscribe"}
    BY <1>12 DEF Subscription
  <2>2. fate'[x] = "done"
    BY <2>1, GoesOn
  <2>3. ComesToRow(x)
    BY <2>1 DEF ComesToRow
  <2> QED BY <1>2, <1>3, <2>1, <2>2, <2>3, HoldsNothing DEF ScheduleEffect
<1>13. CASE CheckAndSendTieredReminders(x)
  <2> DEFINE O == {o \in Schedule \X Date : /\ occurrence[o[1]][o[2]].status = "upcoming"
                                            /\ occurrence[o[1]][o[2]].start >= now}
             rows == {[schedule |-> o[1], date |-> o[2], row |-> occurrence[o[1]][o[2]]] : o \in O}
             w == [rows |-> rows]
  <2>1. Follow(x, <<"remindNext", "markMissed">>, w) /\ job[x].kind = "remind"
    BY <1>13 DEF CheckAndSendTieredReminders
  <2>2. /\ plan'[x] = <<"remindNext", "markMissed">> /\ fate'[x] = "running" /\ seen'[x] = w /\ job' = job
    BY <2>1, GoesOn, TailOf2
  <2>3. Head(plan'[x]) = "remindNext"
    BY <2>2, TailOf2
  <2>4. CancelMoves(x)
    BY <1>3, <2>1
  <2>5. ~Notes(x)' /\ ~Linking(x)' /\ ~At(x, "insertOccurrence")'
    BY <2>3 DEF Notes, Linking, At
  <2>6. ASSUME NEW o \in seen'[x].rows
        PROVE  /\ o.schedule \in Schedule /\ o.date \in Date
               /\ o.row = occurrence[o.schedule][o.date] /\ o.row.status = "upcoming"
    <3>1. PICK e \in O : o = [schedule |-> e[1], date |-> e[2], row |-> occurrence[e[1]][e[2]]]
      BY <2>2, <2>6
    <3> QED BY <3>1
  <2> HIDE DEF w, rows
  <2> QED BY <1>1, <1>2, <2>1, <2>4, <2>5, <2>6
          DEF ScheduleEffect, HoldsMove, TodoMoves, ReadMoves, LinkMoves, ComesToRow
<1> QED BY <1>7, <1>8, <1>9, <1>10, <1>11, <1>12, <1>13

\* A statement of a call that has begun, after which it holds what it held.
LEMMA ContinueHolds ==
  ASSUME CallInv, ScheduleInv, NEW x \in Proc, job[x].kind \in ScheduleKinds, Continue(x), fate[x] = "running",
         job[x].kind # "remind" \/ Head(plan[x]) \in {"writeOccurrence", "openRoom", "log", "markMissed"},
         Head(plan[x]) # "insertOccurrence"
  PROVE  HoldsMove(x)
<1> DEFINE h == Head(plan[x])  t == Tail(plan[x])  v == seen[x]
<1>1. ScheduleStatement(x, h, t, v)
  BY ScheduleAt
<1>2. plan'[x] = t /\ (t # <<>> => seen'[x] = v) /\ job' = job /\ (t = <<>> => fate'[x] = "done")
  BY GoesOn DEF Continue, Hold, Go
<1>3. ASSUME job[x].kind # "remind" PROVE HoldsMove(x)
  <2>1. t = <<>> \/ Head(t) \in {"generate", "cancelFuture"}
    <3>1. t \in {<<>>, <<"generate">>, <<"cancelFuture">>, <<"cancelFuture", "generate">>}
      <4>1. h # "insertOccurrence"
        OBVIOUS
      <4> HIDE DEF h, t, v
      <4> QED BY <1>1, <1>3, <4>1 DEF ScheduleStatement
    <3> HIDE DEF t
    <3> QED BY <3>1, TailOf1, TailOf2, Zenon
  <2>2. fate'[x] # "running" \/ Head(plan'[x]) \in {"generate", "cancelFuture"}
    BY <1>2, <2>1
  <2> QED BY <1>2, <1>3, <2>2, HoldsNothing DEF LinkKinds
<1>4. ASSUME job[x].kind = "remind" PROVE HoldsMove(x)
  <2>1. \/ h = "markMissed" /\ t = <<>>
        \/ h = "writeOccurrence" /\ t = ToOpen
        \/ h = "openRoom" /\ t = ToLog
        \/ h = "log" /\ t = <<"remindNext", "markMissed">>
    <3> HIDE DEF t, v
    <3> QED BY <1>1, <1>4 DEF ScheduleStatement, Reminding
  <2>2. CASE h = "markMissed"
    BY <1>2, <2>1, <2>2, HoldsNothing DEF LinkKinds
  <2>3. CASE h # "markMissed"
    <3>1. Head(t) \in {"openRoom", "log", "remindNext"} /\ t # <<>> /\ (h = "log" => Head(t) = "remindNext")
      <4> HIDE DEF t, h
      <4>1. CASE h = "writeOccurrence"
        <5>1. t = ToOpen
          BY <2>1, <4>1
        <5>2. t = <<"openRoom", "log", "remindNext", "markMissed">>
          BY <5>1, Zenon DEF ToOpen
        <5>3. Head(t) = "openRoom" /\ t # <<>>
          <6>1. /\ Head(<<"openRoom", "log", "remindNext", "markMissed">>) = "openRoom"
                /\ <<"openRoom", "log", "remindNext", "markMissed">> # <<>>
            BY TailOf4
          <6> QED BY <5>2, <6>1, Zenon
        <5> QED BY <4>1, <5>3
      <4>2. CASE h = "openRoom"
        <5>1. t = ToLog
          BY <2>1, <4>2
        <5>2. t = <<"log", "remindNext", "markMissed">>
          BY <5>1, Zenon DEF ToLog
        <5>3. Head(t) = "log" /\ t # <<>>
          BY <5>2, TailOf3, Zenon
        <5> QED BY <4>2, <5>3
      <4>3. CASE h = "log"
        <5>1. t = <<"remindNext", "markMissed">>
          BY <2>1, <4>3
        <5> QED BY <5>1, TailOf2, Zenon
      <4> QED BY <2>1, <2>3, <4>1, <4>2, <4>3
    <3>2. plan'[x] = t /\ seen'[x] = v
      BY <1>2, <3>1
    <3>3. Reminds(x) /\ (Notes(x)' => Notes(x))
      BY <1>2, <1>4, <2>1, <2>3, <3>1, <3>2 DEF Reminds, Notes
    <3>4. ~Linking(x)' /\ ~At(x, "insertOccurrence")'
      BY <3>1, <3>2 DEF Linking, At
    <3> QED BY <3>2, <3>3, <3>4 DEF HoldsMove, TodoMoves, ReadMoves, LinkMoves
  <2> QED BY <2>2, <2>3
<1> QED BY <1>3, <1>4

\* What kind of call is at a statement, and what is left after it.
LEMMA WhoIsAt ==
  ASSUME NEW x, NEW h, NEW t, NEW v, ScheduleStatement(x, h, t, v)
  PROVE  /\ h = "insertSchedule" => job[x].kind = "createSchedule"
         /\ h = "updateSchedule" => job[x].kind = "updateSchedule"
         /\ h = "deleteSchedule" => job[x].kind = "cancelSchedule" /\ t = <<"cancelFuture">>
         /\ h = "cancelOne" => job[x].kind = "cancelOccurrence" /\ t = <<>>
         /\ h = "cancelFuture" => \/ job[x].kind = "cancelSchedule" /\ t = <<>>
                                  \/ job[x].kind = "updateSchedule" /\ t = <<"generate">>
         /\ h = "generate" => job[x].kind \in {"createSchedule", "updateSchedule"} /\ t = <<>>
         /\ h = "insertOccurrence" => /\ job[x].kind \in {"createSchedule", "updateSchedule", "refill"}
                                     /\ t \in Insertion /\ v.todo \subseteq Due
         /\ h \in {"remindNext", "writeOccurrence", "openRoom", "log", "markMissed"} =>
              job[x].kind = "remind" /\ Reminding(h, t, v)
         /\ h \notin {"autoLink", "linkOccurrence", "linkSchedule"}
BY DEF ScheduleStatement, Reminding

\* The rows of schedules are written.
LEMMA RowEffect ==
  ASSUME CallInv, ScheduleInv, NEW x \in Proc, job[x].kind \in ScheduleKinds,
         InsertSchedule(x) \/ WriteSchedule(x) \/ Delete(x)
  PROVE  ScheduleEffect(x)
<1> USE DEF At
<1>1. /\ fate[x] = "running" /\ Continue(x) /\ UNCHANGED <<occurrence, reminded>>
      /\ Head(plan[x]) \in {"insertSchedule", "updateSchedule", "deleteSchedule"}
  BY DEF InsertSchedule, WriteSchedule, Delete, SetSchedule
<1>2. ScheduleStatement(x, Head(plan[x]), Tail(plan[x]), seen[x])
  BY <1>1, ScheduleAt
<1>3. job[x].kind # "remind"
  BY <1>1, <1>2 DEF ScheduleStatement, Reminding
<1>4. HoldsMove(x)
  BY <1>1, <1>3, ContinueHolds
<1>5. \E r : schedule' = [schedule EXCEPT ![Sch(x)] = r] /\ (Delete(x) => r.status = "cancelled")
  <2>1. CASE InsertSchedule(x)
    BY <2>1 DEF InsertSchedule, SetSchedule, Delete
  <2>2. CASE WriteSchedule(x)
    BY <2>2 DEF WriteSchedule, SetSchedule, Delete
  <2>3. CASE Delete(x)
    <3>1. Sch(x) \in Schedule
      BY <1>2, <2>3, ScheduleJob DEF Delete, ScheduleStatement, Reminding
    <3>2. [schedule[Sch(x)] EXCEPT !.status = "cancelled"].status = "cancelled"
      BY <3>1 DEF ScheduleInv, RowsTypeOK, ScheduleRow
    <3> QED BY <2>3, <3>2 DEF Delete, SetSchedule
  <2> QED BY <2>1, <2>2, <2>3
<1>6. \/ job[x].kind \in {"createSchedule", "updateSchedule"}
      \/ job[x].kind = "cancelSchedule" /\ Delete(x)
  <2>1. /\ Head(plan[x]) = "insertSchedule" => job[x].kind = "createSchedule"
        /\ Head(plan[x]) = "updateSchedule" => job[x].kind = "updateSchedule"
        /\ Head(plan[x]) = "deleteSchedule" => job[x].kind = "cancelSchedule"
    BY <1>2, WhoIsAt, Zenon
  <2>2. \/ Head(plan[x]) = "insertSchedule" \/ Head(plan[x]) = "updateSchedule"
        \/ Head(plan[x]) = "deleteSchedule" /\ Delete(x)
    BY DEF InsertSchedule, WriteSchedule, Delete
  <2> QED BY <2>1, <2>2
<1>7. Sch(x) \in Schedule /\ schedule \in [Schedule -> ScheduleRow]
  BY <1>6, ScheduleJob DEF ScheduleInv, RowsTypeOK
<1>8. RowsMove(x)
  BY <1>1, <1>5, <1>6, <1>7 DEF RowsMove, RowMoves1, DateMoves, LogMoves
<1>9. CancelMoves(x)
  <2>1. ASSUME job[x].kind = "cancelSchedule" PROVE schedule'[Sch(x)].status = "cancelled" /\ ~Done(x)'
    <3>1. Head(plan[x]) = "deleteSchedule" /\ Delete(x)
      BY <1>6, <2>1 DEF Delete
    <3>2. Tail(plan[x]) = <<"cancelFuture">>
      BY <1>2, <3>1 DEF ScheduleStatement, Reminding
    <3>3. fate'[x] = "running"
      BY <1>1, <3>2, TailOf1, GoesOn DEF Continue, Hold, Go
    <3> QED BY <1>5, <1>7, <3>1, <3>3 DEF Done
  <2> QED BY <1>6, <2>1 DEF CancelMoves
<1> QED BY <1>4, <1>8, <1>9 DEF ScheduleEffect

\* The dates that are marked were to come.
LEMMA MarksMove ==
  ASSUME CallInv, ScheduleInv, NEW x \in Proc, NEW s \in Schedule, NEW S, Mark(s, S, "cancelled"),
         UNCHANGED <<schedule, reminded>>
  PROVE  /\ RowsMove(x)
         /\ \A d \in Date \cap S : occurrence'[s][d].status # "upcoming"
         /\ \A d \in Date \ S : occurrence'[s][d] = occurrence[s][d]
<1> DEFINE f == [d \in Date |-> IF d \in S /\ occurrence[s][d].status = "upcoming"
                                THEN [occurrence[s][d] EXCEPT !.status = "cancelled"] ELSE occurrence[s][d]]
<1>1. occurrence' = [occurrence EXCEPT ![s] = f] /\ occurrence \in [Schedule -> [Date -> OccurrenceRow]]
  BY DEF Mark, ScheduleInv, RowsTypeOK
<1>2. \A o \in OccurrenceRow : [o EXCEPT !.status = "cancelled"].status = "cancelled"
  BY DEF OccurrenceRow
<1>3. \A d \in Date : \/ f[d] = occurrence[s][d] /\ (d \in S => f[d].status # "upcoming")
                      \/ occurrence[s][d].status = "upcoming" /\ f[d].status = "cancelled" /\ d \in S
  BY <1>1, <1>2
<1> HIDE DEF f
<1>4. occurrence'[s] = f /\ \A e \in Schedule \ {s} : occurrence'[e] = occurrence[e]
  BY <1>1
<1>5. DateMoves(x)
  BY <1>3, <1>4 DEF DateMoves
<1> QED BY <1>3, <1>4, <1>5 DEF RowsMove, RowMoves1, LogMoves

\* The dates are marked as cancelled or missed.
LEMMA MarksEffect ==
  ASSUME CallInv, ScheduleInv, NEW x \in Proc, job[x].kind \in ScheduleKinds,
         CancelFutureOccurrences(x) \/ CancelSingleOccurrence(x) \/ MarkMissedOccurrences(x)
  PROVE  ScheduleEffect(x)
<1> USE DEF At
<1>1. /\ fate[x] = "running" /\ Continue(x) /\ UNCHANGED <<schedule, reminded>>
      /\ Head(plan[x]) \in {"cancelFuture", "cancelOne", "markMissed"}
  BY DEF CancelFutureOccurrences, CancelSingleOccurrence, MarkMissedOccurrences
<1>2. ScheduleStatement(x, Head(plan[x]), Tail(plan[x]), seen[x])
  BY <1>1, ScheduleAt
<1>3. HoldsMove(x)
  <2>1. Head(plan[x]) # "insertOccurrence"
    BY <1>1
  <2>2. job[x].kind = "remind" => Head(plan[x]) = "markMissed"
    <3>1. /\ Head(plan[x]) = "cancelOne" => job[x].kind = "cancelOccurrence"
          /\ Head(plan[x]) = "cancelFuture" => job[x].kind \in {"cancelSchedule", "updateSchedule"}
      BY <1>2, WhoIsAt
    <3> QED BY <1>1, <3>1
  <2> QED BY <1>1, <2>1, <2>2, ContinueHolds
<1>4. CASE CancelFutureOccurrences(x)
  <2> DEFINE S == {d \in Date : occurrence[Sch(x)][d].start > now}
  <2>1. job[x].kind \in {"cancelSchedule", "updateSchedule"}
    BY <1>2, <1>4, WhoIsAt DEF CancelFutureOccurrences
  <2>2. Sch(x) \in Schedule
    BY <2>1, ScheduleJob
  <2>3. PICK s \in Schedule : s = Sch(x)
    BY <2>2
  <2>4. Mark(s, S, "cancelled")
    BY <1>4, <2>3 DEF CancelFutureOccurrences
  <2>5. \A d \in Date \ S : occurrence[s][d].start <= now
    <3>1. now \in Nat
      BY CallAssumption DEF CallInv, CallTypeOK
    <3> QED BY <2>3, <3>1 DEF ScheduleInv, RowsTypeOK, OccurrenceRow
  <2> HIDE DEF S
  <2>6. /\ RowsMove(x)
        /\ \A d \in Date \cap S : occurrence'[s][d].status # "upcoming"
        /\ \A d \in Date \ S : occurrence'[s][d] = occurrence[s][d]
    BY <1>1, <2>4, MarksMove
  <2>7. CancelMoves(x)
    BY <1>1, <1>4, <2>1, <2>3, <2>5, <2>6 DEF CancelMoves, Deleted, CancelFutureOccurrences
  <2> QED BY <1>3, <2>6, <2>7 DEF ScheduleEffect
<1>5. CASE CancelSingleOccurrence(x)
  <2>1. job[x].kind = "cancelOccurrence"
    BY <1>2, <1>5, WhoIsAt DEF CancelSingleOccurrence
  <2>2. Sch(x) \in Schedule /\ job[x].date \in Date
    BY <2>1, ScheduleJob
  <2>3. PICK s \in Schedule : s = Sch(x)
    BY <2>2
  <2>4. Mark(s, {job[x].date}, "cancelled")
    BY <1>5, <2>3 DEF CancelSingleOccurrence
  <2>6. RowsMove(x) /\ \A d \in Date \cap {job[x].date} : occurrence'[s][d].status # "upcoming"
    BY <1>1, <2>4, MarksMove
  <2>7. CancelMoves(x)
    BY <2>1, <2>2, <2>3, <2>6 DEF CancelMoves
  <2> QED BY <1>3, <2>6, <2>7 DEF ScheduleEffect
<1>6. CASE MarkMissedOccurrences(x)
  <2>1. job[x].kind = "remind"
    BY <1>2, <1>6, WhoIsAt DEF MarkMissedOccurrences
  <2>2. \A o \in OccurrenceRow : [o EXCEPT !.status = "missed"].status = "missed"
    BY DEF OccurrenceRow
  <2>3. occurrence \in [Schedule -> [Date -> OccurrenceRow]]
    BY DEF ScheduleInv, RowsTypeOK
  <2>4. \A s \in Schedule, d \in Date :
          \/ occurrence'[s][d] = occurrence[s][d]
          \/ occurrence[s][d].status = "upcoming" /\ occurrence'[s][d].status = "missed"
    <3>1. occurrence' = [s \in Schedule |-> [d \in Date |->
            IF occurrence[s][d].status = "upcoming" /\ occurrence[s][d].start + Late < now
            THEN [occurrence[s][d] EXCEPT !.status = "missed"] ELSE occurrence[s][d]]]
      BY <1>6 DEF MarkMissedOccurrences
    <3>2. \A s \in Schedule, d \in Date : occurrence'[s][d] =
            IF occurrence[s][d].status = "upcoming" /\ occurrence[s][d].start + Late < now
            THEN [occurrence[s][d] EXCEPT !.status = "missed"] ELSE occurrence[s][d]
      BY <3>1
    <3>3. ASSUME NEW s \in Schedule, NEW d \in Date
          PROVE  \/ occurrence'[s][d] = occurrence[s][d]
                 \/ occurrence[s][d].status = "upcoming" /\ occurrence'[s][d].status = "missed"
      <4>1. occurrence[s][d] \in OccurrenceRow
        BY <2>3
      <4>2. PICK o \in OccurrenceRow : o = occurrence[s][d]
        BY <4>1
      <4>3. \/ occurrence'[s][d] = o
            \/ o.status = "upcoming" /\ occurrence'[s][d] = [o EXCEPT !.status = "missed"]
        BY <3>2, <4>2
      <4> QED BY <2>2, <4>2, <4>3
    <3> QED BY <3>3
  <2>5. RowsMove(x)
    BY <1>1, <2>4 DEF RowsMove, RowMoves1, DateMoves, LogMoves
  <2>6. CancelMoves(x)
    BY <2>1 DEF CancelMoves
  <2> QED BY <1>3, <2>5, <2>6 DEF ScheduleEffect
<1> QED BY <1>4, <1>5, <1>6

\* The dates of a schedule are come by, and inserted.
LEMMA InsertEffect ==
  ASSUME CallInv, ScheduleInv, NEW x \in Proc, job[x].kind \in ScheduleKinds,
         GenerateOccurrences(x) \/ CreateOccurrence(x)
  PROVE  ScheduleEffect(x)
<1> USE DEF At, Go, Hold
<1>1. fate[x] = "running"
  BY DEF GenerateOccurrences, CreateOccurrence, InsertOne
<1>2. ScheduleStatement(x, Head(plan[x]), Tail(plan[x]), seen[x])
  BY <1>1, ScheduleAt
<1>3. job[x].kind \in {"createSchedule", "updateSchedule", "refill"}
  <2>1. Head(plan[x]) \in {"generate", "insertOccurrence"}
    BY DEF GenerateOccurrences, CreateOccurrence, InsertOne
  <2>2. /\ Head(plan[x]) = "generate" => job[x].kind \in {"createSchedule", "updateSchedule"}
        /\ Head(plan[x]) = "insertOccurrence" => job[x].kind \in {"createSchedule", "updateSchedule", "refill"}
    BY <1>2, WhoIsAt
  <2> QED BY <2>1, <2>2
<1>4. CancelMoves(x)
  BY <1>3 DEF CancelMoves
<1>5. ASSUME NEW u \in Insertion, NEW w, Follow(x, u, w),
             \A o \in w.todo : \/ Head(plan[x]) = "insertOccurrence" /\ o \in seen[x].todo
                               \/ job[x].kind \in {"createSchedule", "updateSchedule"} /\ o.schedule = Sch(x)
      PROVE  HoldsMove(x)
  <2>1. CASE u = <<>>
    <3>1. fate'[x] = "done"
      BY <1>5, <2>1, GoesOn
    <3> QED BY <1>1, <1>3, <3>1, HoldsNothing DEF LinkKinds, ScheduleKinds
  <2>2. CASE u # <<>>
    <3>1. plan'[x] = u /\ seen'[x] = w /\ job' = job
      BY <1>5, <2>2, GoesOn
    <3>2. Head(u) = "insertOccurrence"
      BY <2>2, InsertNext
    <3>3. TodoMoves(x)
      BY <1>1, <1>5, <3>1 DEF TodoMoves
    <3>4. ~Reminds(x)' /\ ~Notes(x)' /\ ~Linking(x)'
      BY <1>3, <3>1, <3>2 DEF Reminds, Notes, Linking
    <3> QED BY <1>1, <3>3, <3>4 DEF HoldsMove, ReadMoves, LinkMoves
  <2> QED BY <2>1, <2>2
<1>6. CASE GenerateOccurrences(x)
  <2> DEFINE todo == Coming(Sch(x), job[x].rule)  w == [todo |-> todo]
  <2>1. Head(plan[x]) = "generate" /\ Follow(x, Inserts(todo), w) /\ UNCHANGED <<schedule, occurrence, reminded>>
    BY <1>6 DEF GenerateOccurrences, scheduleVars
  <2>2. job[x].kind \in {"createSchedule", "updateSchedule"}
    BY <1>2, <2>1, WhoIsAt
  <2>3. Sch(x) \in Schedule /\ job[x].rule \in Rule
    BY <2>2, ScheduleJob
  <2>4. PICK s \in Schedule, r \in Rule : s = Sch(x) /\ r = job[x].rule
    BY <2>3
  <2>5. IsFiniteSet(todo)
    BY <2>4, ComingIsFinite
  <2>6. w.todo = todo /\ \A o \in todo : o.schedule = Sch(x)
    BY DEF Coming
  <2> HIDE DEF todo, w
  <2>7. Inserts(todo) \in Insertion
    BY <2>5, InsertsAreSome
  <2>8. HoldsMove(x)
    BY <1>5, <2>1, <2>2, <2>6, <2>7
  <2> QED BY <1>4, <2>1, <2>8, RowsStand DEF ScheduleEffect
<1>7. CASE CreateOccurrence(x)
  <2> DEFINE kept == {o \in seen[x].todo : occurrence[o.schedule][o.date].status # "none"}
  <2>1. /\ Head(plan[x]) = "insertOccurrence" /\ UNCHANGED <<schedule, reminded>>
        /\ InsertOne(x, kept)
    BY <1>7 DEF CreateOccurrence, InsertOne
  <2>2. Tail(plan[x]) \in Insertion /\ seen[x].todo \subseteq Due
    BY <1>2, <2>1, WhoIsAt
  <2>3. PICK o \in seen[x].todo :
          /\ occurrence' = IF o \in kept THEN occurrence
                           ELSE [occurrence EXCEPT ![o.schedule][o.date] =
                                   [status |-> "upcoming", start |-> o.start, opened |-> FALSE]]
          /\ Follow(x, Tail(plan[x]), [todo |-> seen[x].todo \ {o}])
    BY <2>1 DEF InsertOne
  <2>4. HoldsMove(x)
    BY <1>5, <2>1, <2>2, <2>3
  <2>5. o.schedule \in Schedule /\ o.date \in Date /\ occurrence \in [Schedule -> [Date -> OccurrenceRow]]
    BY <2>2 DEF Due, ScheduleInv, RowsTypeOK
  <2>6. \A s \in Schedule, d \in Date :
          \/ occurrence'[s][d] = occurrence[s][d]
          \/ s = o.schedule /\ occurrence[s][d].status = "none"
    BY <2>3, <2>5
  <2>7. RowsMove(x)
    BY <1>1, <2>1, <2>3, <2>6 DEF RowsMove, RowMoves1, DateMoves, LogMoves
  <2> QED BY <1>4, <2>4, <2>7 DEF ScheduleEffect
<1> QED BY <1>6, <1>7

\* A reminder goes on to the next that it has read.
LEMMA RemindNextHolds ==
  ASSUME CallInv, ScheduleInv, NEW x \in Proc, job[x].kind \in ScheduleKinds, RemindNext(x)
  PROVE  job[x].kind = "remind" /\ HoldsMove(x)
<1> USE DEF At, Go, Hold, Continue
<1>1. fate[x] = "running" /\ Head(plan[x]) = "remindNext"
  BY DEF RemindNext
<1>2. ScheduleFits(x, plan[x], seen[x]) /\ ScheduleStatement(x, Head(plan[x]), Tail(plan[x]), seen[x])
  BY <1>1, ScheduleAt
<1>3. job[x].kind = "remind" /\ Reminding("remindNext", Tail(plan[x]), seen[x])
  BY <1>1, <1>2, WhoIsAt
<1>4. seen[x].rows \subseteq Read /\ Tail(plan[x]) = <<"markMissed">>
  BY <1>3 DEF Reminding
<1>5. plan[x] = <<"remindNext", "markMissed">>
  <2>1. \A s \in {<<"markMissed">>, ToLog, ToOpen, ToWrite} : Head(s) # "remindNext"
    BY DEF ToLog, ToOpen, ToWrite
  <2> QED BY <1>1, <1>2, <1>3, <2>1 DEF ScheduleFits, RemindFits
<1>6. Reminds(x)
  BY <1>1, <1>3 DEF Reminds
<1>7. CASE seen[x].rows = {}
  <2>1. Follow(x, <<"markMissed">>, seen[x])
    BY <1>4, <1>7 DEF RemindNext
  <2>2. plan'[x] = <<"markMissed">> /\ fate'[x] = "running" /\ job' = job
    BY <2>1, TailOf1, GoesOn
  <2>3. Head(plan'[x]) = "markMissed"
    BY <2>2, TailOf1
  <2> QED BY <1>1, <1>3, <2>2, <2>3, HoldsNothing DEF LinkKinds, ScheduleKinds
<1>8. CASE seen[x].rows # {}
  <2>1. PICK o \in seen[x].rows :
          LET left == [rows |-> seen[x].rows \ {o}, of |-> o]
              wait == o.row.start - now IN
          CASE wait = OpenLead -> Follow(x, <<"writeOccurrence", "openRoom", "log">> \o plan[x], left)
            [] wait \in Tier \ {OpenLead} -> Follow(x, <<"log">> \o plan[x], left)
            [] OTHER -> Follow(x, plan[x], left)
    BY <1>8 DEF RemindNext
  <2> DEFINE left == [rows |-> seen[x].rows \ {o}, of |-> o]
             wait == o.row.start - now
  <2>2. o.row.start \in Nat /\ now \in Nat
    BY <1>4, CallAssumption DEF Read, OccurrenceRow, CallInv, CallTypeOK
  <2>3. left.rows = seen[x].rows \ {o} /\ left.of = o
    OBVIOUS
  <2>4. wait \in Tier => o.row.start > now
    BY <2>2, ScheduleAssumption
  <2> HIDE DEF left
  <2>5. \/ wait \in Tier /\ Follow(x, ToWrite, left)
        \/ wait \in Tier /\ Follow(x, ToLog, left)
        \/ Follow(x, <<"remindNext", "markMissed">>, left)
    <3>1. CASE wait = OpenLead
      <4>1. Follow(x, <<"writeOccurrence", "openRoom", "log">> \o plan[x], left)
        BY <2>1, <3>1 DEF left
      <4>2. <<"writeOccurrence", "openRoom", "log">> \o plan[x] = ToWrite
        BY <1>5, Joins5 DEF ToWrite
      <4> QED BY <3>1, <4>1, <4>2, ScheduleAssumption
    <3>2. CASE wait \in Tier \ {OpenLead}
      <4>1. Follow(x, <<"log">> \o plan[x], left)
        BY <2>1, <3>2 DEF left
      <4>2. <<"log">> \o plan[x] = ToLog
        BY <1>5, Joins2 DEF ToLog
      <4> QED BY <3>2, <4>1, <4>2
    <3>3. CASE wait # OpenLead /\ wait \notin Tier \ {OpenLead}
      <4>1. Follow(x, plan[x], left)
        BY <2>1, <3>3 DEF left
      <4> QED BY <1>5, <4>1
    <3> QED BY <3>1, <3>2, <3>3
  <2> HIDE DEF wait
  <2>6. PICK u \in {ToWrite, ToLog, <<"remindNext", "markMissed">>} :
          Follow(x, u, left) /\ (u # <<"remindNext", "markMissed">> => wait \in Tier)
    BY <2>5
  <2>7. u # <<>> /\ Head(u) \in {"writeOccurrence", "log", "remindNext"}
    BY <2>6, TailOfToWrite, TailOf2, TailOf3 DEF ToLog
  <2>8. plan'[x] = u /\ seen'[x] = left /\ job' = job
    BY <2>6, <2>7, GoesOn
  <2>9. Head(u) # "remindNext" => u # <<"remindNext", "markMissed">>
    BY TailOf2
  <2>10. ~At(x, "insertOccurrence")' /\ ~Linking(x)'
    BY <2>7, <2>8 DEF Linking
  <2>11. ReadMoves(x)
    <3>1. Notes(x)' => seen'[x].of \in seen[x].rows /\ seen'[x].of.row.start > now
      BY <2>3, <2>4, <2>6, <2>8, <2>9 DEF Notes
    <3>2. \A e \in seen'[x].rows : e \in seen[x].rows
      BY <2>3, <2>8
    <3> QED BY <1>6, <3>1, <3>2 DEF ReadMoves
  <2> QED BY <1>1, <1>3, <2>10, <2>11 DEF HoldsMove, TodoMoves, LinkMoves
<1> QED BY <1>3, <1>7, <1>8

\* The reminders.
LEMMA RemindEffect ==
  ASSUME CallInv, ScheduleInv, NEW x \in Proc, job[x].kind \in ScheduleKinds,
         RemindNext(x) \/ UpdateOccurrence(x) \/ CreateWaitRoom(x) \/ LogReminder(x)
  PROVE  ScheduleEffect(x)
<1>1. CASE RemindNext(x)
  <2>1. job[x].kind = "remind" /\ HoldsMove(x)
    BY <1>1, RemindNextHolds
  <2>2. UNCHANGED <<schedule, occurrence, reminded>>
    BY <1>1 DEF RemindNext, scheduleVars
  <2> QED BY <2>1, <2>2, RowsStand DEF ScheduleEffect, CancelMoves
<1>2. CASE UpdateOccurrence(x) \/ CreateWaitRoom(x) \/ LogReminder(x)
  <2>1. fate[x] = "running" /\ Continue(x) /\ Head(plan[x]) \in {"writeOccurrence", "openRoom", "log"}
    BY <1>2 DEF UpdateOccurrence, CreateWaitRoom, LogReminder, At
  <2>2. ScheduleStatement(x, Head(plan[x]), Tail(plan[x]), seen[x])
    BY <2>1, ScheduleAt
  <2>3. job[x].kind = "remind"
    BY <2>1, <2>2, WhoIsAt
  <2>4. Notes(x)
    BY <2>1, <2>3 DEF Notes, Reminds
  <2>5. HoldsMove(x)
    BY <2>1, ContinueHolds
  <2>6. RowsMove(x)
    <3>1. CASE UpdateOccurrence(x)
      <4>1. \A s \in Schedule, d \in Date : \/ occurrence'[s][d] = occurrence[s][d]
                                            \/ s = seen[x].of.schedule /\ d = seen[x].of.date
        BY <3>1 DEF UpdateOccurrence, ScheduleInv, RowsTypeOK
      <4> QED BY <2>4, <3>1, <4>1 DEF UpdateOccurrence, RowsMove, RowMoves1, DateMoves, LogMoves
    <3>2. CASE CreateWaitRoom(x)
      BY <3>2, RowsStand DEF CreateWaitRoom
    <3>3. CASE LogReminder(x)
      <4>1. reminded' = reminded \cup Log(x, seen[x].of.schedule, seen[x].of.date, "tier")
        BY <3>3 DEF LogReminder
      <4>2. LogMoves(x)
        BY <2>4, <3>3, <4>1 DEF LogReminder, Log, LogMoves
      <4> QED BY <3>3, <4>2 DEF LogReminder, RowsMove, RowMoves1, DateMoves
    <3> QED BY <1>2, <3>1, <3>2, <3>3
  <2> QED BY <2>3, <2>5, <2>6 DEF ScheduleEffect, CancelMoves
<1> QED BY <1>1, <1>2

\* A stream that starts is linked.
LEMMA LinkEffect ==
  ASSUME CallInv, StreamInv, ScheduleInv, NEW x \in Proc, job[x].kind = "startStream", ScheduleStep(x)
  PROVE  ScheduleEffect(x)
<1> USE DEF At, Go, Hold, Continue
<1>1. CheckAndAutoLinkStream(x) \/ LinkOccurrence(x) \/ LinkSchedule(x)
  BY LinkFits DEF StreamKinds
<1>2. fate[x] = "running"
  BY <1>1 DEF CheckAndAutoLinkStream, LinkOccurrence, LinkSchedule
<1>3. StatementFits(x, Head(plan[x]), Tail(plan[x]))
  BY <1>2, StreamAt DEF StreamKinds
<1>4. CancelMoves(x)
  BY DEF CancelMoves
<1>5. ASSUME NEW u, NEW w, Follow(x, u, w),
             \/ u = <<>>
             \/ /\ u = <<"linkOccurrence", "linkSchedule">> /\ w.schedule \in Schedule
                /\ \E d \in Date : occurrence[w.schedule][d].status = "upcoming"
             \/ u = <<"linkSchedule">> /\ w = seen[x] /\ Linking(x)
      PROVE  HoldsMove(x)
  <2>1. CASE u = <<>>
    <3>1. fate'[x] = "done"
      BY <1>5, <2>1, GoesOn
    <3> QED BY <1>2, <3>1, HoldsNothing DEF LinkKinds
  <2>2. CASE u # <<>>
    <3>1. plan'[x] = u /\ seen'[x] = w /\ job' = job
      BY <1>5, <2>2, GoesOn
    <3>2. Head(u) \in {"linkOccurrence", "linkSchedule"}
      BY <1>5, <2>2, TailOf1, TailOf2
    <3>3. LinkMoves(x)
      BY <1>5, <2>2, <3>1 DEF LinkMoves
    <3>4. ~At(x, "insertOccurrence")' /\ ~Reminds(x)' /\ ~Notes(x)'
      BY <3>1, <3>2 DEF Reminds, Notes
    <3> QED BY <1>2, <3>3, <3>4 DEF HoldsMove, TodoMoves, ReadMoves
  <2> QED BY <2>1, <2>2
<1>6. CASE CheckAndAutoLinkStream(x)
  <2>1. UNCHANGED <<schedule, occurrence, reminded>>
    BY <1>6 DEF CheckAndAutoLinkStream, scheduleVars
  <2>2. CASE InWindow(row[Of(x)].host) = {}
    <3>1. Follow(x, Tail(plan[x]), seen[x]) /\ Head(plan[x]) = "autoLink"
      BY <1>6, <2>2 DEF CheckAndAutoLinkStream
    <3>2. Tail(plan[x]) = <<>>
      BY <1>3, <3>1 DEF StatementFits
    <3> QED BY <1>4, <1>5, <2>1, <3>1, <3>2, RowsStand DEF ScheduleEffect
  <2>3. CASE InWindow(row[Of(x)].host) # {}
    <3>1. PICK o \in InWindow(row[Of(x)].host) :
            Follow(x, <<"linkOccurrence", "linkSchedule">>, [schedule |-> o[1], date |-> o[2]])
      BY <1>6, <2>3 DEF CheckAndAutoLinkStream
    <3>2. o[1] \in Schedule /\ o[2] \in Date /\ occurrence[o[1]][o[2]].status = "upcoming"
      BY DEF InWindow
    <3> DEFINE w == [schedule |-> o[1], date |-> o[2]]
    <3>3. w.schedule = o[1]
      OBVIOUS
    <3> HIDE DEF w
    <3>4. HoldsMove(x)
      BY <1>5, <3>1, <3>2, <3>3 DEF w
    <3> QED BY <1>4, <2>1, <3>4, RowsStand DEF ScheduleEffect
  <2> QED BY <2>2, <2>3
<1>7. CASE LinkOccurrence(x)
  <2>1. Head(plan[x]) = "linkOccurrence" /\ Follow(x, Tail(plan[x]), seen[x]) /\ UNCHANGED <<schedule, reminded>>
    BY <1>7 DEF LinkOccurrence
  <2>2. Tail(plan[x]) = <<"linkSchedule">> /\ seen[x].schedule \in Schedule /\ seen[x].date \in Date
    BY <1>3, <2>1 DEF StatementFits
  <2>3. HoldsMove(x)
    BY <1>2, <1>5, <2>1, <2>2 DEF Linking
  <2>4. occurrence \in [Schedule -> [Date -> OccurrenceRow]]
    BY DEF ScheduleInv, RowsTypeOK
  <2> DEFINE o == [occurrence[seen[x].schedule][seen[x].date] EXCEPT !.status = "live"]
  <2>5. o.status = "live"
    BY <2>2, <2>4 DEF OccurrenceRow
  <2>6. occurrence' = [occurrence EXCEPT ![seen[x].schedule][seen[x].date] = o]
    BY <1>7, <2>2, <2>4 DEF LinkOccurrence
  <2> HIDE DEF o
  <2>7. \A s \in Schedule, d \in Date : \/ occurrence'[s][d] = occurrence[s][d]
                                        \/ seen[x].schedule = s /\ occurrence'[s][d].status = "live"
    BY <2>2, <2>4, <2>5, <2>6
  <2>8. RowsMove(x)
    BY <1>2, <2>1, <2>7 DEF RowsMove, RowMoves1, DateMoves, LogMoves
  <2> QED BY <1>4, <2>3, <2>8 DEF ScheduleEffect
<1>8. CASE LinkSchedule(x)
  <2>1. Head(plan[x]) = "linkSchedule" /\ Follow(x, Tail(plan[x]), seen[x]) /\ UNCHANGED occurrence
    BY <1>8 DEF LinkSchedule
  <2>2. Tail(plan[x]) = <<>> /\ seen[x].schedule \in Schedule
    BY <1>3, <2>1 DEF StatementFits
  <2>3. HoldsMove(x)
    BY <1>5, <2>1, <2>2
  <2>4. schedule[seen[x].schedule] \in ScheduleRow /\ schedule \in [Schedule -> ScheduleRow]
    BY <2>2 DEF ScheduleInv, RowsTypeOK
  <2> DEFINE r == [schedule[seen[x].schedule] EXCEPT !.status = "live"]
  <2>5. r.status = "live" /\ schedule' = [schedule EXCEPT ![seen[x].schedule] = r]
    BY <1>8, <2>4 DEF LinkSchedule, ScheduleRow
  <2> HIDE DEF r
  <2>6. LogMoves(x)
    <3>1. reminded' = reminded \cup Log(x, seen[x].schedule, seen[x].date, "start")
      BY <1>8 DEF LinkSchedule
    <3> QED BY <3>1 DEF Log, LogMoves
  <2>7. RowsMove(x)
    BY <1>2, <2>1, <2>4, <2>5, <2>6 DEF RowsMove, RowMoves1, DateMoves
  <2> QED BY <1>4, <2>3, <2>7 DEF ScheduleEffect
<1> QED BY <1>1, <1>6, <1>7, <1>8

\* The steps of a stream that starts, before it is linked.
LEMMA StartsUnlinked ==
  ASSUME CallInv, StreamInv, NEW x \in Proc, job[x].kind = "startStream", StreamStep(x)
  PROVE  ~Linking(x)' /\ ~At(x, "insertOccurrence")'
<1> USE DEF At, Asked, Go, Hold, Continue
<1>1. fate[x] = "running" => StatementFits(x, Head(plan[x]), Tail(plan[x]))
  BY StreamAt DEF StreamKinds
<1>2. StartStream(x) \/ UpdateStream(x) \/ ResetCount(x)
  <2>1. ~ (\/ CreateStream(x) \/ SwitchRoomMode(x) \/ EndStream(x) \/ OpenHostSocket(x) \/ OpenViewerSocket(x)
           \/ SyncCounts(x))
    BY DEF CreateStream, SwitchRoomMode, EndStream, OpenHostSocket, OpenViewerSocket, SyncCounts
  <2>2. fate[x] = "running" => Head(plan[x]) \in {"updateStream", "resetCount", "autoLink", "linkOccurrence", "linkSchedule"}
    BY <1>1 DEF StatementFits, ViewerKinds
  <2>3. ~ (\/ Create(x) \/ ClearCount(x) \/ HostOn(x) \/ HandleHostConnection(x) \/ Negotiate(x) \/ ExpirePeer(x)
           \/ CloseSocket(x) \/ RemovePeer(x) \/ HostOff(x) \/ RejoinTimer(x) \/ EndGone(x) \/ RemoveRoom(x))
    BY <2>2 DEF Create, ClearCount, HostOn, HandleHostConnection, Negotiate, ExpirePeer, CloseSocket, RemovePeer,
                HostOff, RejoinTimer, EndGone, RemoveRoom
  <2>4. ~ (\/ HandleViewerConnection(x) \/ JoinStream(x) \/ OpenSession(x) \/ IncrCount(x) \/ LeaveStream(x)
           \/ CloseSession(x) \/ DecrCount(x) \/ SyncCount(x) \/ SyncRow(x))
    BY <2>2 DEF HandleViewerConnection, JoinStream, OpenSession, IncrCount, LeaveStream, CloseSession, DecrCount,
                SyncCount, SyncRow
  <2> QED BY <2>1, <2>3, <2>4 DEF StreamStep
<1>3. ASSUME NEW u \in {<<"updateStream", "resetCount", "autoLink">>, <<"resetCount", "autoLink">>, <<"autoLink">>},
             NEW w, Follow(x, u, w)
      PROVE  ~Linking(x)' /\ ~At(x, "insertOccurrence")'
  <2>1. u # <<>> /\ Head(u) \in {"updateStream", "resetCount", "autoLink"}
    BY <1>3, TailOf1, TailOf2, TailOf3
  <2> QED BY <1>3, <2>1, GoesOn DEF Linking
<1>4. Break(x) => ~Linking(x)' /\ ~At(x, "insertOccurrence")'
  BY DEF Break, Linking, CallInv, CallTypeOK
<1>5. CASE StartStream(x)
  <2>1. \/ Begin(x, <<"resetCount", "autoLink">>, Nothing)
        \/ \E w : Begin(x, <<"updateStream", "resetCount", "autoLink">>, w)
        \/ Refuse(x)
    <3>1. CASE GetByID(Of(x)).status = "live"
      BY <1>5, <3>1 DEF StartStream
    <3>2. CASE GetByID(Of(x)).status = "preparing"
      BY <1>5, <3>2 DEF StartStream
    <3>3. CASE GetByID(Of(x)).status \notin {"live", "preparing"}
      BY <1>5, <3>3 DEF StartStream
    <3> QED BY <3>1, <3>2, <3>3
  <2>2. CASE Begin(x, <<"resetCount", "autoLink">>, Nothing)
    BY <1>3, <2>2 DEF Begin
  <2>3. CASE \E w : Begin(x, <<"updateStream", "resetCount", "autoLink">>, w)
    BY <1>3, <2>3 DEF Begin
  <2>4. CASE Refuse(x)
    BY <1>4, <2>4 DEF Refuse
  <2> QED BY <2>1, <2>2, <2>3, <2>4
<1>6. CASE UpdateStream(x)
  <2>1. fate[x] = "running" /\ Head(plan[x]) = "updateStream"
    BY <1>6 DEF UpdateStream
  <2>2. Tail(plan[x]) = <<"resetCount", "autoLink">>
    BY <1>1, <2>1 DEF StatementFits
  <2>3. Follow(x, Tail(plan[x]), seen[x]) \/ Break(x)
    BY <1>6 DEF UpdateStream, Stop
  <2> QED BY <1>3, <1>4, <2>2, <2>3
<1>7. CASE ResetCount(x)
  <2>1. fate[x] = "running" /\ Head(plan[x]) = "resetCount" /\ Follow(x, Tail(plan[x]), seen[x])
    BY <1>7 DEF ResetCount
  <2>2. Tail(plan[x]) = <<"autoLink">>
    BY <1>1, <2>1 DEF StatementFits
  <2> QED BY <1>3, <2>1, <2>2
<1> QED BY <1>2, <1>5, <1>6, <1>7

\* Every step without a fault, as the schedules see it.
EffectCases ==
  \/ \E x \in Proc : job[x].kind \in LinkKinds /\ RestOf(x) /\ ScheduleEffect(x)
  \/ /\ UNCHANGED <<schedule, occurrence, reminded>>
     /\ Rest \/ \E x \in Proc : job[x].kind \notin LinkKinds /\ RestOf(x)

\* Every step without a fault is one of these.
LEMMA StepsHaveEffect ==
  ASSUME CallInv, StreamInv, ScheduleInv, [Next]_vars, faults' = 0
  PROVE  EffectCases
<1>1. ASSUME NEW x \in Proc, job[x].kind \in ScheduleKinds \cup {"startStream"}, ScheduleStep(x), RestOf(x)
      PROVE  EffectCases
  <2>1. job[x].kind \in LinkKinds
    BY <1>1 DEF LinkKinds
  <2>2. CASE job[x].kind = "startStream"
    BY <1>1, <2>1, <2>2, LinkEffect DEF EffectCases
  <2>3. CASE job[x].kind \in ScheduleKinds
    <3>1. ~ (CheckAndAutoLinkStream(x) \/ LinkOccurrence(x) \/ LinkSchedule(x))
      <4>1. fate[x] = "running" => ScheduleStatement(x, Head(plan[x]), Tail(plan[x]), seen[x])
        BY <2>3, ScheduleAt
      <4> QED BY <4>1 DEF CheckAndAutoLinkStream, LinkOccurrence, LinkSchedule, At, ScheduleStatement, Reminding
    <3>2. CASE \/ CreateSchedule(x) \/ UpdateSchedule(x) \/ CancelSchedule(x) \/ CancelOccurrence(x)
               \/ RefillAllOccurrences(x) \/ Subscription(x) \/ CheckAndSendTieredReminders(x)
      BY <1>1, <2>1, <2>3, <3>2, BeginEffect DEF EffectCases
    <3>3. CASE InsertSchedule(x) \/ WriteSchedule(x) \/ Delete(x)
      BY <1>1, <2>1, <2>3, <3>3, RowEffect DEF EffectCases
    <3>4. CASE CancelFutureOccurrences(x) \/ CancelSingleOccurrence(x) \/ MarkMissedOccurrences(x)
      BY <1>1, <2>1, <2>3, <3>4, MarksEffect DEF EffectCases
    <3>5. CASE GenerateOccurrences(x) \/ CreateOccurrence(x)
      BY <1>1, <2>1, <2>3, <3>5, InsertEffect DEF EffectCases
    <3>6. CASE RemindNext(x) \/ UpdateOccurrence(x) \/ CreateWaitRoom(x) \/ LogReminder(x)
      BY <1>1, <2>1, <2>3, <3>6, RemindEffect DEF EffectCases
    <3> QED BY <1>1, <3>1, <3>2, <3>3, <3>4, <3>5, <3>6 DEF ScheduleStep
  <2> QED BY <1>1, <2>2, <2>3
<1>2. ASSUME NEW x \in Proc, job[x].kind \notin ScheduleKinds, RestOf(x), UNCHANGED scheduleVars,
             job[x].kind = "startStream" => StreamStep(x)
      PROVE  EffectCases
  <2>1. UNCHANGED <<schedule, occurrence, reminded>>
    BY <1>2 DEF scheduleVars
  <2>2. CASE job[x].kind # "startStream"
    <3>1. job[x].kind \notin LinkKinds
      BY <1>2, <2>2 DEF LinkKinds
    <3> QED BY <1>2, <2>1, <3>1 DEF EffectCases
  <2>3. CASE job[x].kind = "startStream"
    <3>1. ~Linking(x)' /\ ~At(x, "insertOccurrence")' /\ job' = job
      BY <1>2, <2>3, StartsUnlinked DEF RestOf
    <3>2. ScheduleEffect(x)
      BY <2>1, <2>3, <3>1, RowsStand
         DEF ScheduleEffect, HoldsMove, TodoMoves, ReadMoves, LinkMoves, ComesToRow, CancelMoves, Reminds, Notes
    <3> QED BY <1>2, <2>3, <3>2 DEF EffectCases, LinkKinds
  <2> QED BY <2>2, <2>3
<1>3. ASSUME Rest, UNCHANGED scheduleVars PROVE EffectCases
  BY <1>3 DEF EffectCases, scheduleVars
<1>4. ASSUME WaitRoomStep PROVE UNCHANGED <<schedule, occurrence, reminded>>
  BY <1>4 DEF WaitRoomStep, HubStep, UpdateWaitRoomCount, scheduleVars
<1>5. ASSUME WaitRoomStep, Rest \/ \E p \in Kind("waitWS") : RestOf(p) PROVE EffectCases
  BY <1>4, <1>5 DEF EffectCases, Kind, LinkKinds, ScheduleKinds
<1> QED BY <1>1, <1>2, <1>3, <1>5, StepsOfSchedules DEF ScheduleCases

-----------------------------------------------------------------------------
(***************************************************************************)
(* A schedule that has a row, or dates, or is held by a call, is there     *)
(* from the start, or the call that makes it has begun.                    *)
(***************************************************************************)
Makers(s) == {q \in Kind("createSchedule") : Sch(q) = s}
Known(s) == \A q \in Makers(s) : fate[q] # "new"

\* The schedules that x holds are known; those it changes were made before.
AtHand(x) ==
  /\ At(x, "insertOccurrence") => \A o \in seen[x].todo : Known(o.schedule)
  /\ Reminds(x) => \A o \in seen[x].rows : Known(o.schedule)
  /\ Notes(x) => Known(seen[x].of.schedule)
  /\ Linking(x) => Known(seen[x].schedule)
MadeBefore(x) ==
  job[x].kind \in {"updateSchedule", "cancelSchedule", "cancelOccurrence"} /\ fate[x] \in {"running", "done"} =>
    \A q \in Makers(Sch(x)) : fate[q] # "new" /\ ~Before(x, q)
RowsKnown == \A s \in Schedule :
  schedule[s].status # "none" \/ (\E d \in Date : occurrence[s][d].status # "none") => Known(s)
KnownInv == faults = 0 => RowsKnown /\ \A x \in Kinds(LinkKinds) : AtHand(x) /\ MadeBefore(x)

\* A schedule stays known.
LEMMA KnownStays ==
  ASSUME NEW x \in Proc, RestOf(x), NEW s, Known(s)
  PROVE  Known(s)'
BY DEF Known, Makers, Kind, Sch, RestOf

\* A schedule that its maker, or a call that knows it, is at is known.
LEMMA MakerKnows ==
  ASSUME CallInv, NEW x \in Proc, RestOf(x), fate'[x] # "new",
         \/ job[x].kind = "createSchedule"
         \/ Known(Sch(x))
  PROVE  Known(Sch(x))'
<1>1. CASE job[x].kind = "createSchedule"
  <2>1. \A q \in Makers(Sch(x)) : q = x
    BY <1>1, FreshAssumption DEF CallInv, Makers, Kind, Sch
  <2> QED BY <2>1 DEF Known, Makers, Kind, Sch, RestOf
<1>2. CASE Known(Sch(x))
  BY <1>2, KnownStays DEF Known, Makers, Kind, Sch, RestOf
<1> QED BY <1>1, <1>2

\* A call x that does nothing leaves what it holds, and what it was made after.
LEMMA OthersHold ==
  ASSUME CallInv, NEW y \in Proc, AtHand(y), MadeBefore(y),
         Rest \/ \E x \in Proc \ {y} : RestOf(x)
  PROVE  AtHand(y)' /\ MadeBefore(y)'
<1>1. /\ job' = job /\ fate'[y] = fate[y] /\ plan'[y] = plan[y] /\ seen'[y] = seen[y]
      /\ \A q \in Proc : fate[q] # "new" => fate'[q] # "new" /\ past'[q] = past[q]
  BY DEF Rest, RestOf
<1>2. \A s : Known(s) => Known(s)'
  BY <1>1 DEF Known, Makers, Kind, Sch
<1>3. At(y, "insertOccurrence")' => \A o \in seen'[y].todo : Known(o.schedule)'
  BY <1>1, <1>2 DEF AtHand, At
<1>4. Reminds(y)' => \A o \in seen'[y].rows : Known(o.schedule)'
  BY <1>1, <1>2 DEF AtHand, Reminds
<1>5. Notes(y)' => Known(seen[y].of.schedule)'
  BY <1>1 DEF AtHand, Notes, Reminds, Known, Makers, Kind, Sch
<1>6. Linking(y)' => Known(seen[y].schedule)'
  BY <1>1 DEF AtHand, Linking, Known, Makers, Kind, Sch
<1>7. MadeBefore(y)'
  BY <1>1 DEF MadeBefore, Makers, Kind, Sch, Before
<1> QED BY <1>3, <1>4, <1>5, <1>6, <1>7 DEF AtHand

\* The rows stay known: whoever writes one knows its schedule.
LEMMA RowsStayKnown ==
  ASSUME CallInv, RowsKnown, NEW x \in Proc, job[x].kind \in LinkKinds, AtHand(x), MadeBefore(x), RestOf(x), RowsMove(x)
  PROVE  RowsKnown'
<1>1. \A s : Known(s) => Known(s)'
  BY KnownStays
<1>2. job[x].kind = "createSchedule" => Known(Sch(x))'
  BY MakerKnows DEF RestOf
<1>3. job' = job /\ fate'[x] # "new"
  BY DEF RestOf
<1>4. ASSUME NEW s \in Schedule, job[x].kind = "createSchedule", Sch(x) = s PROVE Known(s)'
  BY <1>2, <1>3, <1>4 DEF Known, Makers, Kind, Sch
<1>5. ASSUME NEW s \in Schedule, schedule'[s].status # "none" PROVE Known(s)'
  <2>1. CASE schedule'[s] = schedule[s]
    BY <1>1, <1>5, <2>1 DEF RowsKnown
  <2>2. CASE fate[x] = "running" /\ job[x].kind \in {"createSchedule", "updateSchedule"} /\ Sch(x) = s
    <3>1. job[x].kind = "updateSchedule" => Known(s)
      BY <2>2 DEF MadeBefore, Known
    <3> QED BY <1>1, <1>4, <2>2, <3>1
  <2>3. CASE job[x].kind = "cancelSchedule" /\ Sch(x) = s /\ fate[x] = "running"
    <3>1. Known(s)
      BY <2>3 DEF MadeBefore, Known
    <3> QED BY <1>1, <3>1
  <2>4. CASE At(x, "linkSchedule") /\ seen[x].schedule = s
    <3>1. Known(s)
      BY <2>4 DEF AtHand, Linking, At
    <3> QED BY <1>1, <3>1
  <2> QED BY <2>1, <2>2, <2>3, <2>4 DEF RowsMove, RowMoves1
<1>6. ASSUME NEW s \in Schedule, NEW d \in Date, occurrence'[s][d].status # "none" PROVE Known(s)'
  <2>1. CASE occurrence'[s][d] = occurrence[s][d] \/ occurrence[s][d].status = "upcoming"
    BY <1>1, <1>6, <2>1 DEF RowsKnown
  <2>2. CASE At(x, "linkOccurrence") /\ seen[x].schedule = s
    <3>1. Known(s)
      BY <2>2 DEF AtHand, Linking, At
    <3> QED BY <1>1, <3>1
  <2>3. CASE At(x, "insertOccurrence") /\ \E o \in seen[x].todo : o.schedule = s
    BY <1>1, <2>3 DEF AtHand
  <2>4. CASE Notes(x) /\ seen[x].of.schedule = s
    BY <1>1, <2>4 DEF AtHand
  <2> QED BY <2>1, <2>2, <2>3, <2>4 DEF RowsMove, DateMoves
<1> QED BY <1>5, <1>6 DEF RowsKnown

\* What a call comes to hold is known.
LEMMA HoldsKnown ==
  ASSUME CallInv, ScheduleInv, RowsKnown, NEW x \in Proc, job[x].kind \in LinkKinds, AtHand(x), MadeBefore(x), RestOf(x),
         HoldsMove(x)
  PROVE  AtHand(x)' /\ MadeBefore(x)'
<1>1. \A s : Known(s) => Known(s)'
  BY KnownStays
<1>2. job' = job /\ fate'[x] # "new"
  BY DEF RestOf
<1>3. \A s \in Schedule, d \in Date : occurrence[s][d].status = "upcoming" => Known(s)
  BY DEF RowsKnown
<1>4. At(x, "insertOccurrence")' => \A o \in seen'[x].todo : Known(o.schedule)'
  <2> SUFFICES ASSUME At(x, "insertOccurrence")', NEW o \in seen'[x].todo
               PROVE  Known(o.schedule)'
    OBVIOUS
  <2>1. CASE At(x, "insertOccurrence") /\ o \in seen[x].todo
    BY <1>1, <2>1 DEF AtHand
  <2>2. CASE fate[x] = "running" /\ job[x].kind \in {"createSchedule", "updateSchedule"} /\ o.schedule = Sch(x)
    <3>1. job[x].kind = "updateSchedule" => Known(Sch(x))
      BY <2>2 DEF MadeBefore, Known
    <3>2. Known(Sch(x))'
      BY <2>2, <3>1, <1>2, MakerKnows
    <3> QED BY <1>2, <2>2, <3>2 DEF Known, Makers, Kind, Sch
  <2>3. CASE o.schedule \in Schedule /\ schedule[o.schedule].status = "scheduled"
    BY <1>1, <2>3 DEF RowsKnown
  <2> QED BY <2>1, <2>2, <2>3 DEF HoldsMove, TodoMoves
<1>5. Reminds(x)' => \A o \in seen'[x].rows : Known(o.schedule)'
  <2> SUFFICES ASSUME Reminds(x)', NEW o \in seen'[x].rows
               PROVE  Known(o.schedule)'
    OBVIOUS
  <2>1. CASE Reminds(x) /\ o \in seen[x].rows
    BY <1>1, <2>1 DEF AtHand
  <2>2. CASE o.schedule \in Schedule /\ o.date \in Date /\ o.row = occurrence[o.schedule][o.date] /\ o.row.status = "upcoming"
    BY <1>1, <1>3, <2>2
  <2> QED BY <2>1, <2>2 DEF HoldsMove, ReadMoves
<1>6. Notes(x)' => Known(seen[x].of.schedule)'
  <2> SUFFICES ASSUME Notes(x)' PROVE Known(seen[x].of.schedule)'
    OBVIOUS
  <2>1. PICK s : s = seen'[x].of.schedule
    OBVIOUS
  <2>2. Known(s)
    <3>1. Notes(x) /\ seen'[x].of = seen[x].of => Known(s)
      BY <2>1 DEF AtHand
    <3>2. Reminds(x) /\ seen'[x].of \in seen[x].rows => Known(s)
      BY <2>1 DEF AtHand
    <3> QED BY <3>1, <3>2 DEF HoldsMove, ReadMoves
  <2>3. Known(s)'
    BY <1>1, <2>2
  <2> QED BY <2>1, <2>3 DEF Known, Makers, Kind, Sch
<1>7. Linking(x)' => Known(seen[x].schedule)'
  <2> SUFFICES ASSUME Linking(x)' PROVE Known(seen[x].schedule)'
    OBVIOUS
  <2>1. PICK s : s = seen'[x].schedule
    OBVIOUS
  <2>2. Known(s)
    <3>1. Linking(x) /\ seen'[x].schedule = seen[x].schedule => Known(s)
      BY <2>1 DEF AtHand
    <3> QED BY <1>3, <2>1, <3>1 DEF HoldsMove, LinkMoves
  <2>3. Known(s)'
    BY <1>1, <2>2
  <2> QED BY <2>1, <2>3 DEF Known, Makers, Kind, Sch
<1>8. MadeBefore(x)'
  <2> SUFFICES ASSUME job[x].kind \in {"updateSchedule", "cancelSchedule", "cancelOccurrence"},
                      fate'[x] \in {"running", "done"}, NEW q \in Makers(Sch(x))
               PROVE  fate'[q] # "new" /\ ~Before(x, q)'
    BY <1>2 DEF MadeBefore, Makers, Kind, Sch
  <2>1. q \in Proc
    BY DEF Makers, Kind
  <2>2. fate[x] \in {"new", "running"}
    BY DEF RestOf, Over, CallInv, CallTypeOK
  <2>3. CASE fate[x] = "new"
    <3>1. schedule[Sch(x)].status # "none" /\ Sch(x) \in Schedule
      <4>1. ComesToRow(x)
        BY <2>3 DEF HoldsMove
      <4>2. Sch(x) \in Schedule
        BY ScheduleJob DEF ScheduleKinds
      <4> QED BY <4>1, <4>2 DEF ComesToRow
    <3>2. fate[q] # "new"
      BY <3>1 DEF RowsKnown, Known
    <3> QED BY <2>1, <2>3, <3>2, BeforeStays
  <2>4. CASE fate[x] = "running"
    <3>1. fate[q] # "new" /\ ~Before(x, q)
      BY <2>4 DEF MadeBefore
    <3> QED BY <2>1, <3>1, BeforeStays
  <2> QED BY <2>2, <2>3, <2>4
<1> QED BY <1>4, <1>5, <1>6, <1>7, <1>8 DEF AtHand

\* No schedule is touched before the call that makes it.
LEMMA SchedulesAreKnown == Spec => []KnownInv
<1>1. Init => KnownInv
  <2> SUFFICES ASSUME Init PROVE KnownInv
    OBVIOUS
  <2>1. job \in Jobs /\ \A x \in Kinds(LinkKinds) : fate[x] = "new"
    BY DEF Init, CallInit, Kinds, LinkKinds, ScheduleKinds
  <2>2. \A x \in Kinds(LinkKinds) : AtHand(x) /\ MadeBefore(x)
    BY <2>1 DEF AtHand, MadeBefore, At, Reminds, Notes, Linking
  <2>3. ASSUME NEW s \in Schedule,
               schedule[s].status # "none" \/ (\E d \in Date : occurrence[s][d].status # "none")
        PROVE  Known(s)
    <3>1. s \in DOMAIN OldSchedules
      BY <2>3 DEF Init, ScheduleInit
    <3>2. \A q \in Proc : job[q].kind = "createSchedule" => job[q].schedule # s
      BY <2>1, <3>1, FreshAssumption
    <3> QED BY <3>2 DEF Known, Makers, Kind, Sch
  <2> QED BY <2>2, <2>3 DEF KnownInv, RowsKnown
<1>2. CallInv /\ StreamInv /\ ScheduleInv /\ KnownInv /\ [Next]_vars => KnownInv'
  <2> SUFFICES ASSUME CallInv, StreamInv, ScheduleInv, KnownInv, [Next]_vars, faults' = 0
               PROVE  RowsKnown' /\ \A x \in Kinds(LinkKinds)' : AtHand(x)' /\ MadeBefore(x)'
    BY DEF KnownInv
  <2>1. RowsKnown /\ \A x \in Kinds(LinkKinds) : AtHand(x) /\ MadeBefore(x)
    BY FaultsGrow DEF KnownInv
  <2>2. EffectCases
    BY StepsHaveEffect
  <2>3. ASSUME NEW x \in Proc, job[x].kind \in LinkKinds, RestOf(x), ScheduleEffect(x)
        PROVE  RowsKnown' /\ \A y \in Kinds(LinkKinds)' : AtHand(y)' /\ MadeBefore(y)'
    <3>1. AtHand(x) /\ MadeBefore(x)
      BY <2>1, <2>3 DEF Kinds
    <3>2. RowsKnown'
      BY <2>1, <2>3, <3>1, RowsStayKnown DEF ScheduleEffect
    <3>3. AtHand(x)' /\ MadeBefore(x)'
      BY <2>1, <2>3, <3>1, HoldsKnown DEF ScheduleEffect
    <3>4. ASSUME NEW y \in Proc \ {x}, job[y].kind \in LinkKinds PROVE AtHand(y)' /\ MadeBefore(y)'
      <4>1. AtHand(y) /\ MadeBefore(y)
        BY <2>1, <3>4 DEF Kinds
      <4> QED BY <2>3, <4>1, OthersHold
    <3>5. job' = job
      BY <2>3 DEF RestOf
    <3> QED BY <3>2, <3>3, <3>4, <3>5 DEF Kinds
  <2>4. ASSUME UNCHANGED <<schedule, occurrence, reminded>>,
               Rest \/ \E x \in Proc : job[x].kind \notin LinkKinds /\ RestOf(x)
        PROVE  RowsKnown' /\ \A y \in Kinds(LinkKinds)' : AtHand(y)' /\ MadeBefore(y)'
    <3>1. job' = job /\ \A q \in Proc : fate[q] # "new" => fate'[q] # "new"
      BY <2>4 DEF Rest, RestOf
    <3>2. \A s : Known(s) => Known(s)'
      BY <3>1 DEF Known, Makers, Kind, Sch
    <3>3. RowsKnown'
      BY <2>1, <2>4, <3>2 DEF RowsKnown
    <3>4. ASSUME NEW y \in Proc, job[y].kind \in LinkKinds PROVE AtHand(y)' /\ MadeBefore(y)'
      <4>1. AtHand(y) /\ MadeBefore(y)
        BY <2>1, <3>4 DEF Kinds
      <4>2. Rest \/ \E x \in Proc \ {y} : RestOf(x)
        BY <2>4, <3>4
      <4> QED BY <4>1, <4>2, OthersHold
    <3> QED BY <3>1, <3>3, <3>4 DEF Kinds
  <2> QED BY <2>2, <2>3, <2>4 DEF EffectCases
<1> QED BY <1>1, <1>2, CallsHold, StreamsHold, SchedulesHold, PTL DEF Spec

-----------------------------------------------------------------------------
(***************************************************************************)
(* What a cancellation leaves as it goes on, if no call that writes dates  *)
(* was under way: the row is not scheduled again, the date is there and    *)
(* not to come, and no call that began since has it in hand.               *)
(***************************************************************************)
Undisturbed(p) == \A q \in OccurrenceWriters : ~Overlap(p, q)
Cancelling(p, s, d) == fate[p] \in {"running", "done"} /\ Cancels(p, s, d) /\ Undisturbed(p)

\* A call x that began afterwards: it inserts none of the dates, and reminds of none.
Leaves(x, p, s, d) ==
  /\ job[p].kind = "cancelSchedule" /\ At(x, "insertOccurrence") => \A o \in seen[x].todo : o.schedule # s
  /\ Reminds(x) => \A o \in seen[x].rows :
       o.schedule = s /\ o.date = d => job[p].kind = "cancelSchedule" /\ o.row.start <= now
  /\ Notes(x) => ~ (seen[x].of.schedule = s /\ seen[x].of.date = d)
RowGone(p, s) == job[p].kind = "cancelSchedule" /\ Deleted(p) => schedule[s].status \in {"cancelled", "live"}
DateThere(p, s, d) == job[p].kind = "cancelOccurrence" => occurrence[s][d].status # "none"
DateGone(p, s, d) == Done(p) /\ occurrence[s][d].status = "upcoming" =>
                       job[p].kind = "cancelSchedule" /\ occurrence[s][d].start <= now
RemindedBefore(p, s, d) ==
  \A r \in reminded : r.schedule = s /\ r.date = d /\ r.is = "tier" => Before(r.by, p)
LaterLeave(p, s, d) == \A x \in OccurrenceWriters : Before(p, x) => Leaves(x, p, s, d)
Cancelled(p, s, d) == /\ RowGone(p, s) /\ DateThere(p, s, d) /\ DateGone(p, s, d)
                      /\ RemindedBefore(p, s, d) /\ LaterLeave(p, s, d)

CancelKinds == {"cancelSchedule", "cancelOccurrence"}
OnlyRemindersRemind == \A r \in reminded : r.is = "tier" => job[r.by].kind = "remind"
CancelInv == faults = 0 =>
  /\ OnlyRemindersRemind
  /\ \A p \in Kinds(CancelKinds), s \in Schedule, d \in Date : Cancelling(p, s, d) => Cancelled(p, s, d)

\* A writer that goes on began after the cancellation, which was done by then.
LEMMA WritersFollow ==
  ASSUME CallInv, NEW p \in Proc, NEW x \in OccurrenceWriters, p # x, Undisturbed(p),
         fate[p] \in {"running", "done"}, fate[x] = "running"
  PROVE  x \in Proc /\ Before(p, x) /\ Done(p) /\ ~Before(x, p)
BY DEF Undisturbed, Overlap, Before, Done, CallInv, Over, OccurrenceWriters, Kinds

\* Who inserts a date is one of the writers.
LEMMA InsertersWrite ==
  ASSUME CallInv, ScheduleInv, NEW x \in Proc, job[x].kind \in LinkKinds
  PROVE  /\ At(x, "insertOccurrence") => x \in OccurrenceWriters
         /\ Reminds(x) => x \in OccurrenceWriters /\ seen[x].rows \subseteq Read
<1>1. CASE job[x].kind = "startStream"
  BY <1>1 DEF OccurrenceWriters, Kinds, Reminds
<1>2. ASSUME job[x].kind \in ScheduleKinds, fate[x] = "running"
      PROVE  /\ Head(plan[x]) = "insertOccurrence" => x \in OccurrenceWriters
             /\ job[x].kind = "remind" /\ Head(plan[x]) # "markMissed" =>
                  x \in OccurrenceWriters /\ seen[x].rows \subseteq Read
  <2>1. ScheduleStatement(x, Head(plan[x]), Tail(plan[x]), seen[x])
    BY <1>2, ScheduleAt
  <2>2. Head(plan[x]) = "insertOccurrence" => job[x].kind \in {"createSchedule", "updateSchedule", "refill"}
    BY <2>1, WhoIsAt
  <2>3. job[x].kind = "remind" => Reminding(Head(plan[x]), Tail(plan[x]), seen[x])
    BY <2>1, Zenon DEF ScheduleStatement
  <2>4. job[x].kind = "remind" /\ Head(plan[x]) # "markMissed" => seen[x].rows \subseteq Read
    BY <2>3 DEF Reminding
  <2> QED BY <2>2, <2>4 DEF OccurrenceWriters, Kinds
<1> QED BY <1>1, <1>2 DEF LinkKinds, At, Reminds

\* What a call that goes on does not have in hand.
SparesDate(x, p, s, d) ==
  /\ job[p].kind = "cancelSchedule" => /\ job[x].kind \in {"createSchedule", "updateSchedule"} => Sch(x) # s
                                       /\ At(x, "insertOccurrence") => \A o \in seen[x].todo : o.schedule # s
  /\ Notes(x) => ~ (seen[x].of.schedule = s /\ seen[x].of.date = d)

\* It is none of what was cancelled.
LEMMA RunningSpare ==
  ASSUME CallInv, ScheduleInv, NEW p \in Proc, NEW s, NEW d, job[p].kind \in CancelKinds,
         Cancelling(p, s, d), LaterLeave(p, s, d), MadeBefore(p),
         NEW x \in Proc \ {p}, job[x].kind \in LinkKinds, fate[x] = "running"
  PROVE  SparesDate(x, p, s, d)
<1>1. ASSUME x \in OccurrenceWriters
      PROVE  Before(p, x) /\ ~Before(x, p) /\ Leaves(x, p, s, d)
  BY <1>1, WritersFollow DEF Cancelling, LaterLeave
<1>2. ASSUME job[p].kind = "cancelSchedule", job[x].kind = "createSchedule" PROVE Sch(x) # s
  <2>1. Before(p, x)
    BY <1>1, <1>2 DEF OccurrenceWriters, Kinds
  <2>2. Sch(p) = s
    BY <1>2 DEF Cancelling, Cancels
  <2> QED BY <1>2, <2>1, <2>2 DEF MadeBefore, Makers, Kind, Cancelling
<1>3. ASSUME job[p].kind = "cancelSchedule", job[x].kind = "updateSchedule" PROVE FALSE
  <2>1. ~Before(x, p)
    BY <1>1, <1>3 DEF OccurrenceWriters, Kinds
  <2> QED BY <1>3, <2>1 DEF Cancelling, Cancels, Kind
<1>4. At(x, "insertOccurrence") \/ Notes(x) => x \in OccurrenceWriters
  BY InsertersWrite DEF Notes
<1> QED BY <1>1, <1>2, <1>3, <1>4 DEF SparesDate, Leaves

\* What a step of another call, or of none, leaves of a cancellation.
LEMMA WasCancelling ==
  ASSUME CallInv, NEW p \in Proc, NEW s, NEW d, fate[p] # "new", Rest \/ \E x \in Proc : RestOf(x), Cancelling(p, s, d)'
  PROVE  Cancelling(p, s, d)
<1>1. job' = job /\ \A q \in Proc : fate[q] # "new" => fate'[q] # "new" /\ past'[q] = past[q]
  BY DEF Rest, RestOf
<1>2. fate[p] \in {"running", "done"}
  <2>1. fate[p] \in Over => fate'[p] = fate[p]
    BY DEF Rest, RestOf
  <2> QED BY <2>1 DEF Cancelling, Over, CallInv, CallTypeOK
<1>3. Cancels(p, s, d)
  BY <1>1 DEF Cancelling, Cancels, Kind, Before, Sch
<1>4. Undisturbed(p)
  <2>1. ASSUME NEW q \in OccurrenceWriters, Overlap(p, q) PROVE FALSE
    <3>1. q \in Proc
      BY DEF OccurrenceWriters, Kinds
    <3>2. Overlap(p, q)'
      BY <2>1, <3>1, OverlapStays
    <3>3. q \in OccurrenceWriters'
      BY <1>1 DEF OccurrenceWriters, Kinds
    <3> QED BY <3>2, <3>3 DEF Cancelling, Undisturbed
  <2> QED BY <2>1 DEF Undisturbed
<1> QED BY <1>2, <1>3, <1>4 DEF Cancelling

\* The rows of what was cancelled, after a step of another call.
LEMMA RowsStayGone ==
  ASSUME CallInv, NEW p \in Proc, NEW s \in Schedule, NEW d \in Date, job[p].kind \in CancelKinds,
         Cancelled(p, s, d), NEW x \in Proc \ {p}, RestOf(x), RowsMove(x), fate[x] = "running" => SparesDate(x, p, s, d)
  PROVE  RowGone(p, s)' /\ DateThere(p, s, d)' /\ DateGone(p, s, d)'
<1>1. /\ job' = job /\ now' = now /\ fate'[p] = fate[p] /\ plan'[p] = plan[p]
      /\ RowGone(p, s) /\ DateThere(p, s, d) /\ DateGone(p, s, d)
  BY DEF RestOf, Cancelled
<1>2. RowGone(p, s)'
  BY <1>1 DEF RowGone, Deleted, Done, At, RowsMove, RowMoves1, SparesDate
<1>3. Notes(x) => fate[x] = "running"
  BY DEF Notes, Reminds
<1>4. DateThere(p, s, d)'
  BY <1>1, <1>3 DEF DateThere, RowsMove, DateMoves, SparesDate, CancelKinds
<1>5. DateGone(p, s, d)'
  <2> SUFFICES ASSUME Done(p), occurrence'[s][d].status = "upcoming"
               PROVE  job[p].kind = "cancelSchedule" /\ occurrence'[s][d].start <= now
    BY <1>1 DEF DateGone, Done
  <2>1. CASE occurrence'[s][d] = occurrence[s][d]
    BY <1>1, <2>1 DEF DateGone
  <2>2. CASE occurrence'[s][d] # occurrence[s][d]
    BY <1>1, <1>3, <2>2 DEF RowsMove, DateMoves, SparesDate, CancelKinds, DateThere, At
  <2> QED BY <2>1, <2>2
<1> QED BY <1>2, <1>4, <1>5

\* The rows of what is cancelled, after a step of the call that does.
LEMMA RowsAreGone ==
  ASSUME CallInv, NEW p \in Proc, NEW s \in Schedule, NEW d \in Date, job[p].kind \in CancelKinds,
         Sch(p) = s, job[p].kind = "cancelOccurrence" => job[p].date = d,
         fate[p] = "running" => RowGone(p, s) /\ DateThere(p, s, d), fate'[p] # "failed", RestOf(p), ScheduleEffect(p)
  PROVE  RowGone(p, s)' /\ DateThere(p, s, d)' /\ DateGone(p, s, d)'
<1>1. job' = job /\ now' = now /\ fate[p] \in {"new", "running"}
  BY DEF RestOf, Over, CallInv, CallTypeOK
<1>2. Sch(p) = s /\ (job[p].kind = "cancelOccurrence" => job[p].date = d)
  OBVIOUS
<1>3. ~Notes(p)
  BY DEF Notes, Reminds, CancelKinds
<1>4. RowGone(p, s)'
  <2> SUFFICES ASSUME job[p].kind = "cancelSchedule", Deleted(p)'
               PROVE  schedule'[s].status \in {"cancelled", "live"}
    BY <1>1 DEF RowGone
  <2>1. CASE ~Deleted(p)
    BY <1>2, <2>1 DEF ScheduleEffect, CancelMoves
  <2>2. CASE Deleted(p)
    <3>1. schedule[s].status \in {"cancelled", "live"}
      BY <1>1, <2>2 DEF RowGone, Deleted, Done, At
    <3> QED BY <3>1 DEF ScheduleEffect, RowsMove, RowMoves1
  <2> QED BY <2>1, <2>2
<1>5. DateThere(p, s, d)'
  <2> SUFFICES ASSUME job[p].kind = "cancelOccurrence" PROVE occurrence'[s][d].status # "none"
    BY <1>1 DEF DateThere
  <2>1. occurrence[s][d].status # "none"
    BY <1>1, <1>2 DEF DateThere, ScheduleEffect, HoldsMove, ComesToRow
  <2> QED BY <1>3, <2>1 DEF ScheduleEffect, RowsMove, DateMoves
<1>6. DateGone(p, s, d)'
  BY <1>1, <1>2 DEF DateGone, ScheduleEffect, CancelMoves, CancelKinds
<1> QED BY <1>4, <1>5, <1>6

\* Who has been reminded, after a step of another call.
LEMMA RemindedStaysBefore ==
  ASSUME CallInv, UnsubInv, NEW p \in Proc, NEW s, NEW d, fate[p] # "new", RemindedBefore(p, s, d),
         NEW x \in Proc, RestOf(x), LogMoves(x), Notes(x) => SparesDate(x, p, s, d)
  PROVE  RemindedBefore(p, s, d)'
<1>1. past'[p] = past[p]
  BY DEF RestOf
<1>2. \A r \in reminded' \ reminded : ~ (r.schedule = s /\ r.date = d /\ r.is = "tier")
  BY DEF LogMoves, SparesDate
<1> QED BY <1>1, <1>2 DEF RemindedBefore, Before

\* Who has been reminded, as a cancellation begins that nobody disturbs.
LEMMA RemindedIsBefore ==
  ASSUME CallInv, UnsubInv, NEW p \in Proc, NEW s, NEW d, fate[p] = "new", job[p].kind \in CancelKinds, RestOf(p),
         reminded' = reminded \/ LogMoves(p), OnlyRemindersRemind, Undisturbed(p)'
  PROVE  RemindedBefore(p, s, d)'
<1>1. \A r \in reminded' : r.is = "tier" => r \in reminded
  BY DEF LogMoves, Notes, Reminds
<1>2. ASSUME NEW r \in reminded, r.is = "tier" PROVE Before(r.by, p)'
  <2>1. r.by \in Proc /\ fate[r.by] # "new" /\ job[r.by].kind = "remind"
    BY <1>2 DEF UnsubInv, OnlyRemindersRemind
  <2>2. r.by # p /\ fate'[r.by] # "new" /\ past'[r.by] = past[r.by] /\ job' = job /\ fate'[p] # "new"
    BY <2>1 DEF RestOf
  <2>3. p \notin past[r.by]
    BY <2>1 DEF CallInv, Over
  <2>4. r.by \in OccurrenceWriters'
    BY <2>1, <2>2 DEF OccurrenceWriters, Kinds
  <2> QED BY <2>2, <2>3, <2>4 DEF Undisturbed, Overlap, Before
<1> QED BY <1>1, <1>2 DEF RemindedBefore

\* What later calls have in hand, after a step of one of them or of another.
LEMMA LaterStillLeave ==
  ASSUME CallInv, CallInv', ScheduleInv, NEW p \in Proc, NEW s \in Schedule, NEW d \in Date,
         job[p].kind \in CancelKinds, fate[p] \in {"running", "done"}, Cancelled(p, s, d), NEW x \in Proc \ {p},
         job[x].kind \in LinkKinds, RestOf(x), HoldsMove(x), fate[x] = "running" => SparesDate(x, p, s, d)
  PROVE  LaterLeave(p, s, d)'
<1>1. /\ job' = job /\ now' = now /\ fate'[p] = fate[p]
      /\ \A y \in Proc \ {x} : past'[y] = past[y] /\ fate'[y] = fate[y] /\ plan'[y] = plan[y] /\ seen'[y] = seen[y]
  BY DEF RestOf
<1>2. LaterLeave(p, s, d) /\ RowGone(p, s) /\ DateGone(p, s, d)
  BY DEF Cancelled
<1>3. now \in Nat
  BY CallAssumption DEF CallInv, CallTypeOK
<1>4. ASSUME NEW y \in OccurrenceWriters \ {x}, Before(p, y)' PROVE Leaves(y, p, s, d)'
  <2>1. y \in Proc \ {x} /\ Before(p, y)
    BY <1>1, <1>4 DEF OccurrenceWriters, Kinds, Before
  <2>2. Leaves(y, p, s, d)
    BY <1>2, <2>1 DEF LaterLeave
  <2> QED BY <1>1, <2>1, <2>2 DEF Leaves, At, Reminds, Notes
<1>5. ASSUME x \in OccurrenceWriters, Before(p, x)' PROVE Leaves(x, p, s, d)'
  <2>1. CASE fate[x] = "running"
    <3>1. Leaves(x, p, s, d)
      <4>1. Before(p, x)
        BY <1>5, <2>1 DEF RestOf, Before
      <4> QED BY <1>2, <1>5, <4>1 DEF LaterLeave
    <3>2. ASSUME job[p].kind = "cancelSchedule", At(x, "insertOccurrence")', NEW o \in seen'[x].todo PROVE o.schedule # s
      BY <2>1, <3>1, <3>2 DEF HoldsMove, TodoMoves, Leaves, SparesDate
    <3>3. ASSUME Reminds(x)', NEW o \in seen'[x].rows, o.schedule = s, o.date = d
          PROVE  job[p].kind = "cancelSchedule" /\ o.row.start <= now
      BY <2>1, <3>1, <3>3 DEF HoldsMove, ReadMoves, Leaves
    <3>4. ASSUME Notes(x)' PROVE ~ (seen'[x].of.schedule = s /\ seen'[x].of.date = d)
      <4>1. CASE Notes(x) /\ seen'[x].of = seen[x].of
        BY <3>1, <4>1 DEF Leaves
      <4>2. CASE Reminds(x) /\ seen'[x].of \in seen[x].rows /\ seen'[x].of.row.start > now
        <5>1. seen'[x].of.row.start \in Nat
          BY <4>2, InsertersWrite DEF Read, OccurrenceRow
        <5> QED BY <1>3, <3>1, <4>2, <5>1 DEF Leaves
      <4> QED BY <3>4, <4>1, <4>2 DEF HoldsMove, ReadMoves
    <3> QED BY <1>1, <3>2, <3>3, <3>4 DEF Leaves
  <2>2. CASE fate[x] = "new"
    <3>1. Done(p)
      BY <1>1, <1>5 DEF CallInv, Before, Over, Done
    <3>2. ~Reminds(x) /\ ~Notes(x) /\ ~At(x, "insertOccurrence")
      BY <2>2 DEF Reminds, Notes, At
    <3>3. ASSUME job[p].kind = "cancelSchedule", At(x, "insertOccurrence")', NEW o \in seen'[x].todo PROVE o.schedule # s
      <4>1. schedule[s].status # "scheduled"
        BY <1>2, <3>1, <3>3 DEF RowGone, Deleted
      <4> QED BY <2>2, <3>2, <3>3, <4>1 DEF HoldsMove, TodoMoves
    <3>4. ASSUME Reminds(x)', NEW o \in seen'[x].rows, o.schedule = s, o.date = d
          PROVE  job[p].kind = "cancelSchedule" /\ o.row.start <= now
      BY <1>2, <3>1, <3>2, <3>4 DEF HoldsMove, ReadMoves, DateGone
    <3>5. ~Notes(x)'
      BY <3>2 DEF HoldsMove, ReadMoves
    <3> QED BY <1>1, <3>3, <3>4, <3>5 DEF Leaves
  <2>3. fate[x] \in {"new", "running"}
    BY DEF RestOf, Over, CallInv, CallTypeOK
  <2> QED BY <2>1, <2>2, <2>3
<1>6. OccurrenceWriters' = OccurrenceWriters
  BY <1>1 DEF OccurrenceWriters, Kinds
<1> QED BY <1>4, <1>5, <1>6 DEF LaterLeave

\* What later calls have in hand, after a step of the cancellation: none began yet.
LEMMA NoneIsLater ==
  ASSUME CallInv, CallInv', NEW p \in Proc, NEW s, NEW d, job[p].kind \in CancelKinds, RestOf(p)
  PROVE  LaterLeave(p, s, d)'
<1>1. fate[p] \notin Over /\ job' = job /\ \A y \in Proc \ {p} : past'[y] = past[y]
  BY DEF RestOf
<1>2. ASSUME NEW y \in OccurrenceWriters' PROVE ~Before(p, y)'
  <2>1. y \in Proc \ {p}
    BY <1>1 DEF OccurrenceWriters, Kinds, CancelKinds
  <2> QED BY <1>1, <2>1 DEF Before, CallInv
<1> QED BY <1>2 DEF LaterLeave

\* A step that has nothing to do with schedules.
LEMMA OthersCancelNothing ==
  ASSUME CallInv, ScheduleInv, NEW p \in Proc, NEW s \in Schedule, NEW d \in Date, job[p].kind \in CancelKinds,
         Cancelled(p, s, d), UNCHANGED <<schedule, occurrence, reminded>>, [Next]_vars,
         Rest \/ \E x \in Proc : job[x].kind \notin LinkKinds /\ RestOf(x)
  PROVE  Cancelled(p, s, d)'
<1>1. /\ job' = job
      /\ \A y \in Proc : job[y].kind \in LinkKinds =>
           past'[y] = past[y] /\ fate'[y] = fate[y] /\ plan'[y] = plan[y] /\ seen'[y] = seen[y]
  BY DEF Rest, RestOf
<1>2. now \in Nat /\ now' \in Nat /\ now <= now'
  BY TimeGoesOn
<1>3. job[p].kind \in LinkKinds
  BY DEF CancelKinds, LinkKinds, ScheduleKinds
<1>4. RowGone(p, s)' /\ DateThere(p, s, d)'
  BY <1>1, <1>3 DEF Cancelled, RowGone, DateThere, Deleted, Done, At
<1>5. DateGone(p, s, d)'
  <2>1. occurrence[s][d].start \in Nat
    BY DEF ScheduleInv, RowsTypeOK, OccurrenceRow
  <2> QED BY <1>1, <1>2, <1>3, <2>1 DEF Cancelled, DateGone, Done
<1>6. RemindedBefore(p, s, d)'
  BY <1>1, <1>3 DEF Cancelled, RemindedBefore, Before
<1>7. ASSUME NEW y \in OccurrenceWriters, Before(p, y)' PROVE Leaves(y, p, s, d)'
  <2>1. y \in Proc /\ job[y].kind \in LinkKinds
    BY DEF OccurrenceWriters, Kinds, LinkKinds, ScheduleKinds
  <2>2. Leaves(y, p, s, d)
    BY <1>1, <1>7, <2>1 DEF Cancelled, LaterLeave, Before
  <2>3. Reminds(y) => \A o \in seen[y].rows : o.row.start \in Nat
    BY <2>1, InsertersWrite DEF Read, OccurrenceRow
  <2>4. Reminds(y)' <=> Reminds(y)
    BY <1>1, <2>1 DEF Reminds
  <2>5. Notes(y)' <=> Notes(y)
    BY <1>1, <2>1, <2>4 DEF Notes
  <2> QED BY <1>1, <1>2, <2>1, <2>2, <2>3, <2>4, <2>5 DEF Leaves, At
<1>8. LaterLeave(p, s, d)'
  <2>1. OccurrenceWriters' = OccurrenceWriters
    BY <1>1 DEF OccurrenceWriters, Kinds
  <2> QED BY <1>7, <2>1 DEF LaterLeave
<1> QED BY <1>4, <1>5, <1>6, <1>8 DEF Cancelled

\* A step of a schedule call, or of the start of a stream, and one cancellation.
LEMMA CancelStep ==
  ASSUME CallInv, CallInv', ScheduleInv, UnsubInv, OnlyRemindersRemind,
         NEW p \in Proc, NEW s \in Schedule, NEW d \in Date, job[p].kind \in CancelKinds, MadeBefore(p),
         Cancelling(p, s, d) => Cancelled(p, s, d), Cancelling(p, s, d)',
         NEW x \in Proc, job[x].kind \in LinkKinds, RestOf(x), ScheduleEffect(x)
  PROVE  Cancelled(p, s, d)'
<1>1. CASE x # p
  <2>1. fate[p] # "new"
    BY <1>1 DEF RestOf, Cancelling
  <2>2. Cancelling(p, s, d) /\ Cancelled(p, s, d)
    BY <2>1, WasCancelling
  <2>3. fate[x] = "running" => SparesDate(x, p, s, d)
    BY <1>1, <2>2, RunningSpare DEF Cancelled
  <2>4. Notes(x) => SparesDate(x, p, s, d)
    BY <2>3 DEF Notes, Reminds
  <2>5. RowGone(p, s)' /\ DateThere(p, s, d)' /\ DateGone(p, s, d)'
    BY <1>1, <2>2, <2>3, RowsStayGone DEF ScheduleEffect
  <2>6. RemindedBefore(p, s, d)'
    BY <2>1, <2>2, <2>4, RemindedStaysBefore DEF Cancelled, ScheduleEffect, RowsMove
  <2>7. LaterLeave(p, s, d)'
    BY <1>1, <2>2, <2>3, LaterStillLeave DEF Cancelling, ScheduleEffect
  <2> QED BY <2>5, <2>6, <2>7 DEF Cancelled
<1>2. CASE x = p
  <2>1. RestOf(p) /\ ScheduleEffect(p) /\ fate[p] \in {"new", "running"} /\ job' = job /\ job[p].kind \in LinkKinds
    BY <1>2 DEF RestOf, Over, CallInv, CallTypeOK
  <2>2. fate[p] = "running" => Cancelled(p, s, d)
    BY <2>1, WasCancelling
  <2>3. Sch(p) = s /\ (job[p].kind = "cancelOccurrence" => job[p].date = d)
    BY <2>1 DEF Cancelling, Cancels, Sch, CancelKinds
  <2>4. fate'[p] # "failed" /\ Undisturbed(p)'
    BY DEF Cancelling
  <2>5. RowGone(p, s)' /\ DateThere(p, s, d)' /\ DateGone(p, s, d)'
    BY <2>1, <2>2, <2>3, <2>4, RowsAreGone DEF Cancelled
  <2>6. RemindedBefore(p, s, d)'
    <3>1. LogMoves(p) /\ ~Notes(p)
      BY <2>1 DEF ScheduleEffect, RowsMove, Notes, Reminds, CancelKinds
    <3>2. CASE fate[p] = "new"
      BY <2>1, <2>4, <3>1, <3>2, RemindedIsBefore
    <3>3. CASE fate[p] = "running"
      BY <2>1, <2>2, <3>1, <3>3, RemindedStaysBefore DEF Cancelled
    <3> QED BY <2>1, <3>2, <3>3
  <2>7. LaterLeave(p, s, d)'
    BY <2>1, NoneIsLater
  <2> QED BY <2>5, <2>6, <2>7 DEF Cancelled
<1> QED BY <1>1, <1>2

\* A cancellation that nobody disturbs stays one.
LEMMA CancelsHold == Spec => []CancelInv
<1>1. Init => CancelInv
  <2> SUFFICES ASSUME Init PROVE CancelInv
    OBVIOUS
  <2>1. reminded = {} /\ \A p \in Kinds(CancelKinds) : fate[p] = "new"
    BY DEF Init, CallInit, ScheduleInit, Kinds, CancelKinds
  <2> QED BY <2>1 DEF CancelInv, OnlyRemindersRemind, Cancelling
<1>2. CallInv /\ CallInv' /\ StreamInv /\ ScheduleInv /\ UnsubInv /\ KnownInv /\ CancelInv /\ [Next]_vars => CancelInv'
  <2> SUFFICES ASSUME CallInv, CallInv', StreamInv, ScheduleInv, UnsubInv, KnownInv, CancelInv, [Next]_vars
               PROVE  CancelInv'
    OBVIOUS
  <2>1. job' = job
    BY StepsOfSchedules DEF ScheduleCases, Rest, RestOf
  <2>2. ASSUME faults' = 0, NEW r \in reminded', r.is = "tier" PROVE job[r.by].kind = "remind"
    <3>1. faults = 0 /\ EffectCases
      BY <2>2, FaultsGrow, StepsHaveEffect
    <3>2. CASE r \in reminded
      BY <2>2, <3>1, <3>2 DEF CancelInv, OnlyRemindersRemind
    <3>3. CASE r \notin reminded
      BY <2>2, <3>1, <3>3 DEF EffectCases, ScheduleEffect, RowsMove, LogMoves, Notes, Reminds
    <3> QED BY <3>2, <3>3
  <2>3. ASSUME faults' = 0, NEW p \in Kinds(CancelKinds), NEW s \in Schedule, NEW d \in Date, Cancelling(p, s, d)'
        PROVE  Cancelled(p, s, d)'
    <3>1. faults = 0 /\ EffectCases
      BY <2>3, FaultsGrow, StepsHaveEffect
    <3>2. /\ p \in Proc /\ job[p].kind \in CancelKinds /\ (Cancelling(p, s, d) => Cancelled(p, s, d))
          /\ OnlyRemindersRemind
      BY <3>1 DEF CancelInv, Kinds
    <3>3. MadeBefore(p)
      BY <3>1, <3>2 DEF KnownInv, Kinds, LinkKinds, ScheduleKinds, CancelKinds
    <3>4. ASSUME NEW x \in Proc, job[x].kind \in LinkKinds, RestOf(x), ScheduleEffect(x) PROVE Cancelled(p, s, d)'
      BY <2>3, <3>2, <3>3, <3>4, CancelStep
    <3>5. ASSUME UNCHANGED <<schedule, occurrence, reminded>>,
                 Rest \/ \E x \in Proc : job[x].kind \notin LinkKinds /\ RestOf(x)
          PROVE  Cancelled(p, s, d)'
      <4>1. fate[p] # "new"
        BY <2>3, <3>2, <3>5 DEF Rest, RestOf, LinkKinds, ScheduleKinds, CancelKinds, Cancelling
      <4>2. Cancelling(p, s, d)
        BY <2>3, <3>2, <3>5, <4>1, WasCancelling
      <4> QED BY <3>2, <3>5, <4>2, OthersCancelNothing
    <3> QED BY <3>1, <3>4, <3>5 DEF EffectCases
  <2> QED BY <2>1, <2>2, <2>3 DEF CancelInv, OnlyRemindersRemind, Kinds
<1> QED BY <1>1, <1>2, CallsHold, StreamsHold, SchedulesHold, UnsubHolds, SchedulesAreKnown, PTL DEF Spec

\* An occurrence that was to come when it was cancelled is never again upcoming,
\* whatever is generated, updated or reminded of later, and nobody is reminded of
\* it, unless a call that writes dates was under way meanwhile: internal/usecase/
\* schedule.go:230 and :266.
THEOREM CancelledDatesStay == Spec => []CancelledStays
<1>1. CancelInv => CancelledStays
  BY DEF CancelInv, CancelledStays, Cancelling, Cancelled, DateGone, RemindedBefore, Undisturbed, Done, CancelKinds
<1> QED BY <1>1, CancelsHold, PTL

\* What was answered stays so: a battle that was accepted scores, a date that was
\* cancelled does not come back, and who has unsubscribed is not reminded.
THEOREM AnswersDoStand == Spec => []AnswersStand
<1>1. ActiveBattleScores /\ CancelledStays /\ UnsubscribedIsLeftAlone => AnswersStand
  BY DEF AnswersStand
<1> QED BY <1>1, BattlesScore, CancelledDatesStay, UnsubscribedAreLeft, PTL
=============================================================================
