-------------------------------- MODULE Live --------------------------------
(***************************************************************************)
(* What happens around a live stream: the stream and its sockets, battles, *)
(* schedules and waiting rooms, and the chat, on one clock.                *)
(***************************************************************************)
EXTENDS Streams, Schedules, Hub

ASSUME JobAssumption ==
  \A j \in Jobs, p \in Proc :
    \/ j[p] = [kind |-> "none"]
    \/ j[p] \in StreamRequests \/ j[p] \in BattleRequests \/ j[p] \in ScheduleRequests
    \/ j[p] \in WaitRoomRequests \/ j[p] \in ChatRequests

\* A stream and a schedule are made once.
ASSUME FreshAssumption ==
  \A j \in Jobs, p, q \in Proc :
    /\ p # q /\ j[p].kind = j[q].kind =>
         /\ j[p].kind = "createStream" => j[p].stream # j[q].stream
         /\ j[p].kind = "createSchedule" => j[p].schedule # j[q].schedule
    /\ j[p].kind = "createSchedule" => j[p].schedule \notin DOMAIN OldSchedules

vars == <<callVars, streamVars, battleVars, scheduleVars, waitRoomVars, hubVars>>

TypeOK == /\ CallTypeOK /\ StreamTypeOK /\ BattleTypeOK /\ ScheduleTypeOK
          /\ WaitRoomTypeOK /\ HubTypeOK

Init == /\ CallInit /\ StreamInit /\ BattleInit /\ ScheduleInit /\ WaitRoomInit /\ HubInit

Ignored == IgnoredStream \cup IgnoredBattle \cup IgnoredSchedule

\* The statements of a socket of the chat or of a waiting room may fail where they
\* are, which no call ends with: see Slip in Hub and Schedules.
IsSocket(p) == job[p].kind \in {"waitWS", "chatWS"}

Step ==
  \/ \E p \in Proc :
       \/ /\ job[p] \in StreamRequests /\ StreamStep(p)
          /\ UNCHANGED <<battleVars, scheduleVars, waitRoomVars, hubVars>>
       \/ /\ job[p] \in BattleRequests /\ BattleStep(p)
          /\ UNCHANGED <<scheduleVars, waitRoomVars, hubVars>>
       \/ /\ job[p] \in ScheduleRequests \cup StartStreamRequest /\ ScheduleStep(p)
          /\ UNCHANGED <<battleVars, waitRoomVars, hubVars>>
       \/ /\ ~IsSocket(p) /\ Fault(p, Ignored)
          /\ UNCHANGED <<streamVars, battleVars, scheduleVars, waitRoomVars, hubVars>>
  \/ WaitRoomStep /\ UNCHANGED <<battleVars, hubVars>>
  \/ ChatStep /\ UNCHANGED <<streamVars, battleVars, scheduleVars, waitRoomVars>>

\* Only these read the clock: without one of them to come it need not go on.
Timed ==
  (Kinds({"hostWS", "viewerWS", "signalWS", "invitePK", "acceptPK", "statusPK", "vote", "startStream",
          "createSchedule", "updateSchedule", "cancelSchedule", "refill", "remind", "waitWS"}) \ Ended)
  \cup {p \in Kind("chatWS") : At(p, "send") \/ (fate[p] = "new" /\ job[p].says # <<>>)}

\* A panic of the hub is the end of all, and the last tick that of the clock.
Next == \/ ~crashed /\ Step
        \/ ~crashed /\ Timed # {} /\ Tick
           /\ UNCHANGED <<streamVars, battleVars, scheduleVars, waitRoomVars, hubVars>>
        \/ (Quiet \/ crashed \/ now = MaxTime \/ Timed = {}) /\ UNCHANGED vars

Spec == Init /\ [][Next]_vars

-----------------------------------------------------------------------------
(* Streams end once, and are counted: see the three parts.                   *)
StreamsAddUp == EndedStaysEnded /\ CountIsSessions /\ CountsReachTheRow

(* What a host or a viewer was told has been done stays done: a battle that  *)
(* was accepted, a date that was cancelled, a reminder that was switched off.*)
AnswersStand == ActiveBattleScores /\ CancelledStays /\ UnsubscribedIsLeftAlone

(* The chat of a room goes on, in order, among those who are there.          *)
HubSound == PanicNeedsTwoReaders /\ HeardOnceInOrder /\ GoneAreForgotten
=============================================================================
