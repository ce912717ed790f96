---------------------------- MODULE StreamProofs ----------------------------
(***************************************************************************)
(* Proofs about Live, the first half: what each call does, then the chat   *)
(* of the room of a stream (Hub), then the streams and their counts.       *)
(***************************************************************************)
EXTENDS Live, FiniteSetTheorems, SequenceTheorems, TLAPS

-----------------------------------------------------------------------------
(***************************************************************************)
(* Calls: what they are never changes, and a step is that of one of them.  *)
(***************************************************************************)
Over == {"done", "failed"}

CallInv == /\ job \in Jobs /\ CallTypeOK /\ DOMAIN plan = Proc
           /\ \A p \in Proc : \A q \in past[p] : fate[q] \in Over

\* p begins, is refused, goes on or is stopped, by a fault perhaps.
Moves(p) == \/ fate[p] = "new" /\ (Refuse(p) \/ \E s, v : Begin(p, s, v))
            \/ fate[p] = "running" /\ (Stop(p) \/ \E s, v : Go(p, s, v))
            \/ Fault(p, Ignored)

\* p goes on although its statement failed.
Slips(p) == fate[p] = "running" /\ \E s, v : Slip(p, s, v)

\* All that a step of p leaves alone.
RestOf(p) == /\ job' = job /\ now' = now
             /\ \A q \in Proc \ {p} : /\ fate'[q] = fate[q] /\ plan'[q] = plan[q]
                                      /\ seen'[q] = seen[q] /\ past'[q] = past[q]
             /\ fate[p] # "new" => past'[p] = past[p]
             /\ fate[p] \notin Over /\ fate'[p] # "new"

Rest == UNCHANGED <<job, fate, plan, seen, past>>

\* What the calls may be.
LEMMA JobOf ==
  ASSUME CallInv, NEW p \in Proc
  PROVE  \/ job[p] = [kind |-> "none"]
         \/ job[p] \in StreamRequests \/ job[p] \in BattleRequests \/ job[p] \in ScheduleRequests
         \/ job[p] \in WaitRoomRequests \/ job[p] \in ChatRequests
BY JobAssumption DEF CallInv

\* No call is of two kinds.
ChatKinds == {"chatWS", "stopHub", "redisDown", "redisBack", "broadcast"}

\* The kinds of the requests of each part.
LEMMA RequestKinds ==
  /\ \A j \in StreamRequests : j.kind \in {"createStream", "startStream", "endStream", "switchMode",
                                           "hostWS", "viewerWS", "signalWS", "syncCounts"}
  /\ \A j \in BattleRequests : j.kind \in {"invitePK", "acceptPK", "rejectPK", "statusPK", "vote"}
  /\ \A j \in ScheduleRequests : j.kind \in {"createSchedule", "updateSchedule", "cancelSchedule",
                                             "cancelOccurrence", "subscribe", "unsubscribe",
                                             "refill", "remind"}
  /\ \A j \in WaitRoomRequests : j.kind = "waitWS"
  /\ \A j \in ChatRequests : j.kind \in ChatKinds
  /\ \A j \in ChatRequests : j.kind = "chatWS" => j \in ServeWS
BY DEF StreamRequests, CreateStreamRequest, StartStreamRequest, EndStreamRequest,
       SwitchRoomModeRequest, ServeHostWS, ServeViewerWS, SignalWS,
       BattleRequests, InvitePKRequest, AcceptPKRequest, RejectPKRequest, StatusRequest, GiftVote,
       ScheduleRequests, CreateScheduleRequest, UpdateScheduleRequest, CancelScheduleRequest,
       CancelOccurrenceRequest, SubscribeReminderRequest, UnsubscribeReminderRequest,
       WaitRoomRequests, ServeWaitRoomWS, ChatRequests, ServeWS, ChatKinds

\* A chat request is one by its kind.
LEMMA ChatJob ==
  ASSUME CallInv, NEW p \in Proc, job[p].kind \in ChatKinds
  PROVE  job[p] \in ChatRequests
BY JobOf, RequestKinds DEF ChatKinds

\* A call that goes on or breaks off changes nothing of another.
LEMMA FollowIsOwn ==
  ASSUME CallInv, NEW p \in Proc, NEW s, NEW v, Follow(p, s, v) \/ Break(p)
  PROVE  /\ job' = job /\ now' = now /\ DOMAIN plan' = Proc /\ DOMAIN seen' = Proc
         /\ fate' \in [Proc -> {"new", "running", "done", "failed"}]
         /\ \A q \in Proc : (fate'[q] = "running") <=> (plan'[q] # <<>>)
         /\ \A q \in Proc \ {p} : fate'[q] = fate[q] /\ plan'[q] = plan[q] /\ seen'[q] = seen[q]
         /\ fate'[p] # "new"
<1> USE DEF CallInv, CallTypeOK
<1>1. CASE Follow(p, s, v)
  BY <1>1 DEF Follow
<1>2. CASE Break(p)
  BY <1>2 DEF Break
<1> QED BY <1>1, <1>2

\* A move is one of its call.
LEMMA MoveIsOwn ==
  ASSUME CallInv, NEW p \in Proc, Moves(p) \/ Slips(p)
  PROVE  RestOf(p) /\ CallInv'
<1> USE DEF CallInv
<1>1. CASE fate[p] = "new" /\ (Refuse(p) \/ \E s, v : Begin(p, s, v))
  <2>1. PICK s, v : Follow(p, s, v) \/ Break(p)
    BY <1>1 DEF Refuse, Begin
  <2>2. past' = [past EXCEPT ![p] = Ended] /\ faults' = faults
    BY <1>1 DEF Refuse, Begin, Begins
  <2> HIDE DEF CallInv
  <2>3. /\ job' = job /\ now' = now /\ DOMAIN plan' = Proc /\ DOMAIN seen' = Proc
        /\ fate' \in [Proc -> {"new", "running", "done", "failed"}]
        /\ \A q \in Proc : (fate'[q] = "running") <=> (plan'[q] # <<>>)
        /\ \A q \in Proc \ {p} : fate'[q] = fate[q] /\ plan'[q] = plan[q] /\ seen'[q] = seen[q]
        /\ fate'[p] # "new"
    BY <2>1, FollowIsOwn
  <2> QED BY <1>1, <2>2, <2>3 DEF CallInv, CallTypeOK, RestOf, Ended, Over
<1>2. CASE (Moves(p) \/ Slips(p)) /\ fate[p] = "running"
  <2>1. PICK s, v : Follow(p, s, v) \/ Break(p)
    BY <1>2 DEF Moves, Stop, Go, Fault, Slips, Slip
  <2>2. past' = past /\ faults' \in 0..Faults
    BY <1>2, CallAssumption DEF Moves, Stop, Go, Fault, CallTypeOK, Slips, Slip
  <2> HIDE DEF CallInv
  <2>3. /\ job' = job /\ now' = now /\ DOMAIN plan' = Proc /\ DOMAIN seen' = Proc
        /\ fate' \in [Proc -> {"new", "running", "done", "failed"}]
        /\ \A q \in Proc : (fate'[q] = "running") <=> (plan'[q] # <<>>)
        /\ \A q \in Proc \ {p} : fate'[q] = fate[q] /\ plan'[q] = plan[q] /\ seen'[q] = seen[q]
        /\ fate'[p] # "new"
    BY <2>1, FollowIsOwn
  <2> QED BY <1>2, <2>2, <2>3 DEF CallInv, CallTypeOK, RestOf, Over
<1> QED BY <1>1, <1>2 DEF Moves, Fault, Slips

\* A step of the streams.
LEMMA StreamMoves ==
  ASSUME NEW p \in Proc, StreamStep(p)
  PROVE  Moves(p) \/ UNCHANGED callVars
<1> USE DEF Asked, At, Hold, Continue, Return
<1>1. CASE \/ CreateStream(p) \/ Create(p) \/ StartStream(p) \/ SwitchRoomMode(p) \/ EndStream(p)
           \/ UpdateStream(p) \/ ResetCount(p) \/ ClearCount(p)
  BY <1>1 DEF CreateStream, Create, StartStream, SwitchRoomMode, EndStream, UpdateStream,
              ResetCount, ClearCount, Moves
<1>2. CASE \/ OpenHostSocket(p) \/ HostOn(p) \/ HandleHostConnection(p) \/ Negotiate(p)
           \/ ExpirePeer(p) \/ CloseSocket(p) \/ RemovePeer(p) \/ HostOff(p)
  BY <1>2 DEF OpenHostSocket, HostOn, HandleHostConnection, Negotiate, ExpirePeer, CloseSocket,
              RemovePeer, HostOff, Moves
<1>3. CASE \/ RejoinTimer(p) \/ EndGone(p) \/ RemoveRoom(p) \/ OpenViewerSocket(p)
           \/ HandleViewerConnection(p) \/ JoinStream(p) \/ OpenSession(p) \/ IncrCount(p)
  BY <1>3 DEF RejoinTimer, EndGone, RemoveRoom, OpenViewerSocket, HandleViewerConnection,
              JoinStream, OpenSession, IncrCount, Moves
<1>4. CASE \/ LeaveStream(p) \/ CloseSession(p) \/ DecrCount(p) \/ SyncCounts(p)
           \/ SyncCount(p) \/ SyncRow(p)
  BY <1>4 DEF LeaveStream, CloseSession, DecrCount, SyncCounts, SyncCount, SyncRow, Moves
<1> QED BY <1>1, <1>2, <1>3, <1>4 DEF StreamStep

\* A step of the battles.
LEMMA BattleMoves ==
  ASSUME NEW p \in Proc, BattleStep(p)
  PROVE  Moves(p)
BY DEF BattleStep, InvitePKBattle, InsertPK, AcceptPKBattle, RejectPKBattle, GetPKStatus, UpdatePK,
       SetActiveKey, DelActiveKey, ZeroScores, SendGift, AddPoints,
       Asked, AskedAbout, At, Hold, Continue, Return, Moves

\* A step of the schedules.
LEMMA ScheduleMoves ==
  ASSUME NEW p \in Proc, ScheduleStep(p)
  PROVE  Moves(p)
<1> USE DEF Asked, At, Hold, Continue, Return, Moves
<1>1. CASE \/ CreateSchedule(p) \/ InsertSchedule(p) \/ GenerateOccurrences(p) \/ CreateOccurrence(p)
           \/ UpdateSchedule(p) \/ WriteSchedule(p) \/ CancelSchedule(p) \/ Delete(p)
  BY <1>1 DEF CreateSchedule, InsertSchedule, GenerateOccurrences, CreateOccurrence, InsertOne,
              UpdateSchedule, WriteSchedule, CancelSchedule, Delete
<1>2. CASE \/ CancelFutureOccurrences(p) \/ CancelOccurrence(p) \/ CancelSingleOccurrence(p)
           \/ RefillAllOccurrences(p) \/ Subscription(p) \/ CheckAndSendTieredReminders(p)
  BY <1>2 DEF CancelFutureOccurrences, CancelOccurrence, CancelSingleOccurrence,
              RefillAllOccurrences, Subscription, CheckAndSendTieredReminders
<1>3. CASE \/ RemindNext(p) \/ UpdateOccurrence(p) \/ CreateWaitRoom(p) \/ LogReminder(p)
           \/ MarkMissedOccurrences(p) \/ CheckAndAutoLinkStream(p) \/ LinkOccurrence(p) \/ LinkSchedule(p)
  BY <1>3 DEF RemindNext, UpdateOccurrence, CreateWaitRoom, LogReminder, MarkMissedOccurrences,
              CheckAndAutoLinkStream, LinkOccurrence, LinkSchedule
<1> QED BY <1>1, <1>2, <1>3 DEF ScheduleStep

\* A step of the waiting rooms.
LEMMA WaitRoomMoves ==
  ASSUME WaitRoomStep
  PROVE  /\ Rest \/ \E p \in Kind("waitWS") : Moves(p) \/ Slips(p)
         /\ now' = now
         /\ faults' = faults \/ (faults < Faults /\ faults' = faults + 1)
<1>1. CASE HubStep
  <2>1. \/ UNCHANGED callVars
        \/ \E p \in Kind("waitWS") : \/ fate[p] = "new" /\ (Refuse(p) \/ \E s, v : Begin(p, s, v))
                                     \/ fate[p] = "running" /\ \E s, v : Go(p, s, v) \/ Slip(p, s, v)
    BY <1>1 DEF HubStep, OpenWaitSocket, Register, Say, LeaveSocket, Unregister, DropSlow, HostMissed,
                Asked, At, Hold, Continue, Return
  <2>2. ASSUME UNCHANGED callVars PROVE Rest /\ now' = now /\ faults' = faults
    BY <2>2 DEF callVars, Rest
  <2>3. ASSUME NEW p \in Kind("waitWS"), fate[p] = "new", Refuse(p) \/ \E s, v : Begin(p, s, v)
        PROVE  Moves(p) /\ now' = now /\ faults' = faults
    BY <2>3 DEF Moves, Refuse, Begin, Begins, Follow, Break
  <2>4. ASSUME NEW p \in Kind("waitWS"), fate[p] = "running", NEW s, NEW v, Go(p, s, v)
        PROVE  Moves(p) /\ now' = now /\ faults' = faults
    BY <2>4 DEF Moves, Go, Follow
  <2>5. ASSUME NEW p \in Kind("waitWS"), fate[p] = "running", NEW s, NEW v, Slip(p, s, v)
        PROVE  Slips(p) /\ now' = now /\ faults < Faults /\ faults' = faults + 1
    BY <2>5 DEF Slips, Slip, Follow
  <2> QED BY <2>1, <2>2, <2>3, <2>4, <2>5
<1>2. CASE UpdateWaitRoomCount
  <2>1. Rest /\ now' = now
    BY <1>2 DEF UpdateWaitRoomCount, Rest
  <2>2. PICK c \in counting : LookForRoom(c) \/ WriteCount(c) \/ LoseCount(c)
    BY <1>2 DEF UpdateWaitRoomCount
  <2>3. faults' = faults \/ (faults < Faults /\ faults' = faults + 1)
    BY <2>2 DEF LookForRoom, WriteCount, LoseCount, Fails
  <2> QED BY <2>1, <2>3
<1> QED BY <1>1, <1>2 DEF WaitRoomStep

\* A step of a call of the chat.
LEMMA ChatCallMoves ==
  ASSUME NEW p \in Proc,
         \/ NewClient(p) \/ ReadPumpEnds(p) \/ HubBroadcast(p) \/ DropKicked(p)
         \/ BroadcastToRoom(p) \/ StopHub(p) \/ RedisHealth(p)
  PROVE  /\ Moves(p) \/ Slips(p)
         /\ now' = now
         /\ faults' = faults \/ (faults < Faults /\ faults' = faults + 1)
<1>1. \/ fate[p] = "new" /\ \E s, v : Begin(p, s, v)
      \/ fate[p] = "running" /\ \E s, v : Go(p, s, v) \/ Slip(p, s, v)
  <2>1. ASSUME NewClient(p) \/ ReadPumpEnds(p) \/ DropKicked(p) \/ BroadcastToRoom(p) \/ StopHub(p) \/ RedisHealth(p)
        PROVE  \/ fate[p] = "new" /\ \E s, v : Begin(p, s, v)
               \/ fate[p] = "running" /\ \E s, v : Go(p, s, v)
    BY <2>1 DEF NewClient, ReadPumpEnds, DropKicked, BroadcastToRoom, StopHub, RedisHealth, Said, Deal,
                Asked, At, Return
  <2>2. ASSUME HubBroadcast(p) PROVE fate[p] = "running" /\ \E s, v, f : Deal(p, s, v, f)
    BY <2>2 DEF HubBroadcast, Refused, Said, ExecuteModeratorCommand, Mute, Kick, Pin, ChatSettings,
                HandleChat, At
  <2> QED BY <2>1, <2>2 DEF Deal
<1> QED BY <1>1 DEF Begin, Go, Slip, Begins, Follow, Moves, Slips

\* A step of the chat.
LEMMA ChatMoves ==
  ASSUME ChatStep
  PROVE  /\ Rest \/ \E p \in Proc : Moves(p) \/ Slips(p)
         /\ now' = now
         /\ faults' = faults \/ (faults < Faults /\ faults' = faults + 1)
<1>1. CASE HubRegister \/ HubUnregister
  BY <1>1 DEF HubRegister, HubUnregister, RunRegister, RunUnregister, Rest, callVars
<1>2. CASE BrokerStep
  BY <1>2 DEF BrokerStep, Take, StartSending, Send, CloseSend, DropClient, Rest
<1> QED BY <1>1, <1>2, ChatCallMoves DEF ChatStep

\* Any step: of a call, and then of the chat if it is one of a chat request;
\* of nobody; or of the clock.
LEMMA StepMoves ==
  ASSUME CallInv, [Next]_vars
  PROVE  \/ \E p \in Proc : Moves(p) \/ Slips(p)
         \/ Rest /\ now' \in 0..MaxTime /\ faults' \in 0..Faults
<1> USE DEF CallInv, CallTypeOK
<1>1. CASE Step
  <2>1. CASE \E p \in Proc : StreamStep(p) \/ BattleStep(p) \/ ScheduleStep(p) \/ Fault(p, Ignored)
    BY <2>1, StreamMoves, BattleMoves, ScheduleMoves DEF Rest, Moves, callVars
  <2>2. CASE WaitRoomStep
    BY <2>2, WaitRoomMoves, CallAssumption DEF Kind
  <2>3. CASE ChatStep
    BY <2>3, ChatMoves, CallAssumption
  <2> QED BY <1>1, <2>1, <2>2, <2>3 DEF Step
<1>2. CASE Tick
  BY <1>2, CallAssumption DEF Tick, Rest
<1>3. CASE UNCHANGED vars
  BY <1>3 DEF vars, callVars, Rest
<1> QED BY <1>1, <1>2, <1>3 DEF Next

\* The faults are counted.
LEMMA FaultsGrow ==
  ASSUME CallInv, [Next]_vars
  PROVE  faults' = 0 => faults = 0
<1>1. faults \in Nat
  BY CallAssumption DEF CallInv, CallTypeOK
<1>2. \A p \in Proc : Moves(p) \/ Slips(p) => faults' = faults \/ faults' = faults + 1
  BY DEF Moves, Slips, Slip, Refuse, Begin, Begins, Stop, Go, Fault
<1>3. CASE Step
  <2>1. CASE \E p \in Proc : StreamStep(p) \/ BattleStep(p) \/ ScheduleStep(p) \/ Fault(p, Ignored)
    BY <1>1, <1>2, <2>1, StreamMoves, BattleMoves, ScheduleMoves DEF Moves, callVars
  <2>2. CASE WaitRoomStep
    BY <1>1, <2>2, WaitRoomMoves
  <2>3. CASE ChatStep
    BY <1>1, <2>3, ChatMoves
  <2> QED BY <1>3, <2>1, <2>2, <2>3 DEF Step
<1>4. CASE Tick
  BY <1>4 DEF Tick
<1>5. CASE UNCHANGED vars
  BY <1>5 DEF vars, callVars
<1> QED BY <1>3, <1>4, <1>5 DEF Next

\* Calls are as they start, and each step keeps them so.
LEMMA CallsHold == Spec => []CallInv
<1>1. Init => CallInv
  BY CallAssumption DEF Init, CallInit, CallInv, CallTypeOK
<1>2. CallInv /\ [Next]_vars => CallInv'
  <2> SUFFICES ASSUME CallInv, [Next]_vars PROVE CallInv'
    OBVIOUS
  <2>1. ASSUME Rest, now' \in 0..MaxTime, faults' \in 0..Faults PROVE CallInv'
    BY <2>1 DEF Rest, CallInv, CallTypeOK, Over
  <2> QED BY <2>1, MoveIsOwn, StepMoves
<1> QED BY <1>1, <1>2, PTL DEF Spec

-----------------------------------------------------------------------------
(***************************************************************************)
(* The calls of the chat, which nobody else moves.                         *)
(***************************************************************************)
Words == {"send", "dropKicked", "chatting"}

\* A socket has one statement for each word it has still to say, or is about to
\* drop the sockets it kicked with it, and then chats; other calls end at once.
TalkInv ==
  \A p \in Proc :
    /\ job[p].kind \in ChatKinds \ {"chatWS"} => fate[p] # "running"
    /\ job[p].kind = "chatWS" /\ fate[p] = "running" =>
         /\ plan[p] \in Seq(Words)
         /\ plan[p][Len(plan[p])] = "chatting"
         /\ seen[p].says \in Seq(Chat \cup Command)
         /\ Len(plan[p]) = Len(seen[p].says) + 1

\* A step that is none of the chat.
Aside == /\ UNCHANGED <<hubVars, job>>
         /\ now' \in Nat /\ now <= now'
         /\ \A q \in Proc : fate[q] # "new" => fate'[q] # "new"
         /\ \A q \in Proc : job[q].kind \in ChatKinds =>
              fate'[q] = fate[q] /\ plan'[q] = plan[q] /\ seen'[q] = seen[q]

\* What is to be said, after the first word.
LEMMA OneWordLess ==
  ASSUME NEW s, NEW w, NEW W, s \in Seq(Words), w \in Seq(W), Len(s) = Len(w) + 1,
         s[Len(s)] = "chatting", Head(s) # "chatting"
  PROVE  /\ w # <<>> /\ Head(w) \in W /\ Tail(w) \in Seq(W)
         /\ Tail(s) \in Seq(Words) /\ Tail(s) # <<>> /\ Tail(s)[Len(Tail(s))] = "chatting"
         /\ Len(Tail(s)) = Len(Tail(w)) + 1
<1>1. Len(s) >= 2 /\ Len(w) >= 1
  OBVIOUS
<1>2. /\ w # <<>> /\ Head(w) \in W /\ Tail(w) \in Seq(W) /\ Len(Tail(w)) = Len(w) - 1
      /\ Tail(s) \in Seq(Words) /\ Len(Tail(s)) = Len(s) - 1
  BY <1>1
<1>3. Tail(s)[Len(Tail(s))] = s[Len(s)]
  BY <1>1, <1>2
<1> QED BY <1>1, <1>2, <1>3

\* What is to be said at first.
LEMMA FirstWords ==
  ASSUME NEW W, NEW w \in Seq(W)
  PROVE  LET s == [i \in 1..Len(w) |-> "send"] \o <<"chatting">> IN
         /\ s \in Seq(Words) /\ s # <<>> /\ s[Len(s)] = "chatting" /\ Len(s) = Len(w) + 1
<1> DEFINE t == [i \in 1..Len(w) |-> "send"]
<1>1. t \in Seq(Words) /\ Len(t) = Len(w)
  BY DEF Words
<1>2. <<"chatting">> \in Seq(Words) /\ Len(<<"chatting">>) = 1 /\ <<"chatting">>[1] = "chatting"
  BY DEF Words
<1> HIDE DEF t
<1>3. /\ t \o <<"chatting">> \in Seq(Words) /\ Len(t \o <<"chatting">>) = Len(w) + 1
      /\ (t \o <<"chatting">>)[Len(w) + 1] = "chatting"
  BY <1>1, <1>2
<1> QED BY <1>3 DEF t

\* A step is of the chat or aside.
LEMMA ChatOrAside ==
  ASSUME CallInv, TalkInv, [Next]_vars
  PROVE  (~crashed /\ ChatStep /\ now' = now) \/ Aside
<1>1. ASSUME NEW p \in Proc, RestOf(p), job[p].kind \notin ChatKinds, UNCHANGED hubVars
      PROVE  Aside
  BY <1>1 DEF RestOf, Aside, CallInv, CallTypeOK
<1>2. ASSUME UNCHANGED <<callVars, hubVars>>
      PROVE  Aside
  BY <1>2 DEF Aside, CallInv, CallTypeOK, callVars
<1>6. ASSUME Rest, now' = now, UNCHANGED hubVars
      PROVE  Aside
  BY <1>6 DEF Aside, CallInv, CallTypeOK, Rest
<1>3. CASE ~crashed /\ Step
  <2>1. ASSUME NEW p \in Proc, StreamStep(p), job[p] \in StreamRequests, UNCHANGED hubVars PROVE Aside
    <3>1. job[p].kind \notin ChatKinds
      BY <2>1, RequestKinds DEF ChatKinds
    <3> QED BY <1>1, <1>2, <2>1, <3>1, StreamMoves, MoveIsOwn
  <2>2. ASSUME NEW p \in Proc, BattleStep(p), job[p] \in BattleRequests, UNCHANGED hubVars PROVE Aside
    <3>1. job[p].kind \notin ChatKinds
      BY <2>2, RequestKinds DEF ChatKinds
    <3> QED BY <1>1, <2>2, <3>1, BattleMoves, MoveIsOwn
  <2>3. ASSUME NEW p \in Proc, ScheduleStep(p), job[p] \in ScheduleRequests \cup StartStreamRequest,
               UNCHANGED hubVars
        PROVE  Aside
    <3>1. job[p].kind \notin ChatKinds
      BY <2>3, RequestKinds DEF ChatKinds, StreamRequests
    <3> QED BY <1>1, <2>3, <3>1, ScheduleMoves, MoveIsOwn
  <2>4. ASSUME NEW p \in Proc, Fault(p, Ignored), ~IsSocket(p), UNCHANGED hubVars PROVE Aside
    <3>1. job[p].kind \notin ChatKinds
      BY <2>4 DEF IsSocket, TalkInv, ChatKinds, Fault
    <3> QED BY <1>1, <2>4, <3>1, MoveIsOwn DEF Moves
  <2>5. ASSUME WaitRoomStep, UNCHANGED hubVars PROVE Aside
    <3>1. \A p \in Kind("waitWS") : p \in Proc /\ job[p].kind \notin ChatKinds
      BY DEF Kind, ChatKinds
    <3> QED BY <1>1, <1>6, <2>5, <3>1, WaitRoomMoves, MoveIsOwn
  <2> QED BY <1>3, <2>1, <2>2, <2>3, <2>4, <2>5, ChatMoves DEF Step
<1>4. CASE Tick /\ UNCHANGED hubVars
  BY <1>4, CallAssumption DEF Tick, Aside, CallInv, CallTypeOK
<1>5. CASE UNCHANGED vars
  BY <1>2, <1>5 DEF vars
<1> QED BY <1>3, <1>4, <1>5 DEF Next

\* The words are there.
LEMMA TalkHolds == Spec => []TalkInv
<1>1. Init => TalkInv
  BY DEF Init, CallInit, TalkInv, ChatKinds
<1>2. CallInv /\ TalkInv /\ [Next]_vars => TalkInv'
  <2> SUFFICES ASSUME CallInv, TalkInv, [Next]_vars PROVE TalkInv'
    OBVIOUS
  <2>1. CASE Aside
    BY <2>1 DEF Aside, TalkInv, ChatKinds
  <2>2. CASE ChatStep
    <3>1. CASE Rest
      BY <3>1 DEF Rest, TalkInv
    <3>2. ASSUME NEW p \in Proc, RestOf(p),
                 job[p].kind = "chatWS" /\ fate'[p] = "running" =>
                   /\ plan'[p] \in Seq(Words) /\ plan'[p][Len(plan'[p])] = "chatting"
                   /\ seen'[p].says \in Seq(Chat \cup Command)
                   /\ Len(plan'[p]) = Len(seen'[p].says) + 1,
                 job[p].kind \in ChatKinds \ {"chatWS"} => fate'[p] # "running"
          PROVE  TalkInv'
      BY <3>2 DEF RestOf, TalkInv
    <3>3. ASSUME NEW p \in Proc, job[p] \in ChatRequests, RestOf(p),
                 \/ NewClient(p) \/ ReadPumpEnds(p) \/ HubBroadcast(p) \/ DropKicked(p)
                 \/ BroadcastToRoom(p) \/ StopHub(p) \/ RedisHealth(p)
          PROVE  TalkInv'
      <4>1. job[p].kind \in ChatKinds /\ (job[p].kind = "chatWS" => job[p] \in ServeWS)
        BY <3>3, RequestKinds
      <4> USE DEF CallInv, CallTypeOK
      <4>2. CASE BroadcastToRoom(p) \/ StopHub(p) \/ RedisHealth(p) \/ ReadPumpEnds(p)
        BY <3>2, <3>3, <4>1, <4>2 DEF BroadcastToRoom, StopHub, RedisHealth, ReadPumpEnds, Asked, Return,
                                      Begin, Go, Follow
      <4>3. CASE NewClient(p)
        <5>1. job[p].says \in Seq(Chat \cup Command) /\ job[p].kind = "chatWS"
          BY <4>1, <4>3 DEF NewClient, Asked, ServeWS
        <5> DEFINE s == [i \in 1..Len(job[p].says) |-> "send"] \o <<"chatting">>
        <5>2. s \in Seq(Words) /\ s # <<>> /\ s[Len(s)] = "chatting" /\ Len(s) = Len(job[p].says) + 1
          BY <5>1, FirstWords
        <5> HIDE DEF s
        <5>3. plan'[p] = s /\ seen'[p] = [says |-> job[p].says]
          BY <4>3, <5>2 DEF NewClient, Begin, Follow, s
        <5>4. [says |-> job[p].says].says = job[p].says
          OBVIOUS
        <5> HIDE DEF CallInv, CallTypeOK
        <5> QED BY <3>2, <3>3, <5>1, <5>2, <5>3, <5>4
      <4>4. CASE HubBroadcast(p) \/ DropKicked(p)
        <5>1. fate[p] = "running" /\ Head(plan[p]) # "chatting" /\ job[p].kind = "chatWS"
          BY <4>1, <4>4 DEF HubBroadcast, DropKicked, At, TalkInv
        <5> DEFINE w == seen[p].says
        <5>2. /\ plan[p] \in Seq(Words) /\ w \in Seq(Chat \cup Command) /\ Len(plan[p]) = Len(w) + 1
              /\ plan[p][Len(plan[p])] = "chatting"
          BY <5>1 DEF TalkInv
        <5>3. /\ w # <<>> /\ Head(w) \in Chat \cup Command /\ Tail(w) \in Seq(Chat \cup Command)
              /\ Tail(plan[p]) \in Seq(Words) /\ Tail(plan[p]) # <<>>
              /\ Tail(plan[p])[Len(Tail(plan[p]))] = "chatting"
              /\ Len(Tail(plan[p])) = Len(Tail(w)) + 1
          BY <5>1, <5>2, OneWordLess
        <5>4. \/ plan'[p] = Tail(plan[p]) /\ seen'[p] = [says |-> Tail(w)]
              \/ plan'[p] = <<"dropKicked">> \o Tail(plan[p]) /\ seen'[p] = seen[p]
          <6>1. \E f \in Statement \cup {"none"} :
                  \/ Deal(p, Tail(plan[p]), [says |-> Tail(w)], f)
                  \/ Deal(p, <<"dropKicked">> \o Tail(plan[p]), seen[p], f)
            <7>1. CASE HubBroadcast(p)
              BY <7>1 DEF HubBroadcast, Refused, Said, ExecuteModeratorCommand, Mute, Kick, Pin,
                          ChatSettings, HandleChat
            <7>2. CASE DropKicked(p)
              BY <7>2 DEF DropKicked, Said
            <7> QED BY <4>4, <7>1, <7>2
          <6>2. <<"dropKicked">> \o Tail(plan[p]) # <<>>
            BY <5>3
          <6> QED BY <5>3, <6>1, <6>2 DEF Deal, Go, Slip, Follow
        <5>5. CASE plan'[p] = Tail(plan[p]) /\ seen'[p] = [says |-> Tail(w)]
          <6>1. seen'[p].says = Tail(w)
            BY <5>5
          <6> HIDE DEF CallInv, CallTypeOK, w
          <6> QED BY <3>2, <3>3, <5>1, <5>3, <5>5, <6>1
        <5>6. CASE plan'[p] = <<"dropKicked">> \o Tail(plan[p]) /\ seen'[p] = seen[p]
          <6> DEFINE t == Tail(plan[p])
          <6>1. t \in Seq(Words) /\ t[Len(t)] = "chatting" /\ Len(t) = Len(w)
            BY <5>2, <5>3
          <6> HIDE DEF t
          <6>2. LET s == <<"dropKicked">> \o t IN
                s \in Seq(Words) /\ Len(s) = Len(t) + 1 /\ s[Len(s)] = "chatting"
            BY <5>3, <6>1 DEF Words
          <6> QED BY <3>2, <3>3, <5>1, <5>2, <5>6, <6>1, <6>2 DEF t
        <5> QED BY <5>4, <5>5, <5>6
      <4> QED BY <3>3, <4>2, <4>3, <4>4
    <3>4. BrokerStep \/ HubRegister \/ HubUnregister => Rest
      BY DEF BrokerStep, HubRegister, HubUnregister, RunRegister, RunUnregister, Rest, callVars
    <3>5. ASSUME NEW p \in Proc, job[p] \in ChatRequests,
                 \/ NewClient(p) \/ ReadPumpEnds(p) \/ HubBroadcast(p) \/ DropKicked(p)
                 \/ BroadcastToRoom(p) \/ StopHub(p) \/ RedisHealth(p)
          PROVE  RestOf(p)
      BY <3>5, ChatCallMoves, MoveIsOwn
    <3> QED BY <2>2, <3>1, <3>3, <3>4, <3>5 DEF ChatStep
  <2> QED BY <2>1, <2>2, ChatOrAside
<1> QED BY <1>1, <1>2, CallsHold, PTL DEF Spec

-----------------------------------------------------------------------------
(***************************************************************************)
(* The hub keeps its variables in their types.                             *)
(***************************************************************************)
Sub == [redis : BOOLEAN, queue : Seq(Nat)]
Message == [n : Nat, from : Chatter \cup {"hub"}, is : {"message", "pin", "news"}]
Handler == {h \in [sub : Nat, message : Nat, at : {"ready", "sending", "full", "shut"},
                   todo : SUBSET Proc, socket : Proc \cup {NoSocket}] :
              h.at \in {"full", "shut"} => h.socket \in Proc}

\* There are finitely many handlers, those that found a channel full know whose,
\* and no bucket was filled in the future.
HubInv == /\ HubTypeOK /\ IsFiniteSet(handlers) /\ handlers \subseteq Handler
          /\ \A u \in Chatter : bucket[u].at <= now

\* A function on 1..n is a sequence.
LEMMA SeqOf ==
  ASSUME NEW S, NEW n \in Nat, NEW f \in [1..n -> S]
  PROVE  f \in Seq(S) /\ Len(f) = n
OBVIOUS

\* A message that some subscriptions are handed has a handler for each.
LEMMA HandedOut ==
  ASSUME NEW n \in Nat, NEW m \in Nat, NEW I \in SUBSET (1..m)
  PROVE  {Ready(i, n) : i \in I} \subseteq Handler /\ IsFiniteSet({Ready(i, n) : i \in I})
<1> DEFINE T == {Ready(i, n) : i \in I}
           f == [i \in I |-> Ready(i, n)]
<1>1. IsFiniteSet(I)
  <2>1. IsFiniteSet(1..m)
    BY FS_Interval
  <2> QED BY <2>1, FS_Subset
<1>2. f \in Surjection(I, T)
  BY DEF Surjection
<1>3. IsFiniteSet(T)
  BY <1>1, <1>2, FS_Surjection
<1> QED BY <1>3 DEF Ready, Handler

\* A handler that goes on, and what that may have led to.
LEMMA BecomesKeepsTypes ==
  ASSUME HubInv, NEW h, NEW g \in Handler, Becomes(h, g)
  PROVE  handlers' \subseteq Handler /\ IsFiniteSet(handlers')
         /\ ledTo' \subseteq {"twoReaders", "overtaken", "reopened", "disorder"}
<1> USE DEF HubInv, HubTypeOK
<1>1. handlers' = handlers \ {h} \/ handlers' = (handlers \ {h}) \cup {g}
  BY DEF Becomes
<1>2. IsFiniteSet(handlers \ {h}) /\ IsFiniteSet((handlers \ {h}) \cup {g})
  <2> HIDE DEF HubTypeOK
  <2>1. IsFiniteSet(handlers \ {h})
    BY FS_Subset
  <2> QED BY <2>1, FS_AddElement
<1> QED BY <1>1, <1>2 DEF Becomes

\* A published message has a number and reaches queues or handlers.
LEMMA PublishKeepsTypes ==
  ASSUME HubInv, NEW from \in Chatter \cup {"hub"}, NEW is \in {"message", "pin", "news"},
         Publish(from, is)
  PROVE  /\ published' \in Message
         /\ subs' \in Seq(Sub) /\ handlers' \subseteq Handler /\ IsFiniteSet(handlers')
<1>1. /\ published \in Message /\ subs \in Seq(Sub)
      /\ handlers \subseteq Handler /\ IsFiniteSet(handlers) /\ redisUp \in BOOLEAN
  BY DEF HubInv, HubTypeOK, Sub, Handler, Message
<1>2. published' \in Message /\ NextNumber \in Nat
  BY <1>1 DEF Message, Publish, Numbered, NextNumber
<1>3. CASE redisUp
  <2>1. /\ handlers' = handlers
        /\ subs' = [i \in DOMAIN subs |-> IF i \in Reached
                       THEN [subs[i] EXCEPT !.queue = Append(@, NextNumber)] ELSE subs[i]]
    BY <1>3 DEF Publish
  <2>2. subs' \in [1..Len(subs) -> Sub]
    <3>1. ASSUME NEW s \in Sub PROVE [s EXCEPT !.queue = Append(@, NextNumber)] \in Sub
      <4>1. Append(s.queue, NextNumber) \in Seq(Nat)
        BY <1>2 DEF Sub
      <4> QED BY <4>1 DEF Sub
    <3>2. DOMAIN subs = 1..Len(subs) /\ \A i \in 1..Len(subs) : subs[i] \in Sub
      BY <1>1
    <3> QED BY <2>1, <3>1, <3>2
  <2>3. subs' \in Seq(Sub)
    BY <1>1, <2>2, SeqOf
  <2> QED BY <1>1, <1>2, <2>1, <2>3
<1>4. CASE ~redisUp
  <2>1. handlers' = handlers \cup {Ready(i, NextNumber) : i \in Reached} /\ subs' = subs
    BY <1>4 DEF Publish
  <2>2. Reached \in SUBSET (1..Len(subs)) /\ Len(subs) \in Nat
    BY <1>1 DEF Reached
  <2>3. {Ready(i, NextNumber) : i \in Reached} \subseteq Handler
        /\ IsFiniteSet({Ready(i, NextNumber) : i \in Reached})
    BY <1>2, <2>2, HandedOut
  <2> QED BY <1>1, <1>2, <2>1, <2>3, FS_Union
<1> QED BY <1>3, <1>4

\* The broker.
LEMMA BrokerKeepsTypes ==
  ASSUME HubInv, BrokerStep
  PROVE  HubInv'
<1> USE DEF HubInv, HubTypeOK
<1>1. handlers \subseteq Handler /\ subs \in Seq(Sub)
  BY DEF Sub
<1>2. now' = now /\ UNCHANGED <<registerQ, unregisterQ, open, settings, redisUp, published, key, bucket, silent>>
  BY DEF BrokerStep
<1> HIDE DEF HubInv, HubTypeOK
<1>3. ASSUME handlers' \subseteq Handler, IsFiniteSet(handlers'), member' \subseteq Proc, shut' \subseteq Proc,
             ledTo' \subseteq {"twoReaders", "overtaken", "reopened", "disorder"},
             heard' \in [Proc -> Nat], crashed' \in BOOLEAN, subs' \in Seq(Sub)
      PROVE  HubInv'
  BY <1>2, <1>3 DEF HubInv, HubTypeOK, Handler, Sub
<1>4. /\ member \subseteq Proc /\ shut \subseteq Proc /\ heard \in [Proc -> Nat] /\ crashed \in BOOLEAN
      /\ IsFiniteSet(handlers) /\ ledTo \subseteq {"twoReaders", "overtaken", "reopened", "disorder"}
  BY DEF HubInv, HubTypeOK
<1>5. ASSUME NEW i \in DOMAIN subs, Take(i) PROVE HubInv'
  <2> DEFINE h == Ready(i, Head(subs[i].queue))
             g == [h EXCEPT !.at = "sending", !.todo = member]
  <2>1. subs[i] \in Sub /\ i \in Nat /\ subs[i].queue # <<>>
    BY <1>1, <1>5 DEF Take
  <2>2. g \in Handler
    <3>1. Head(subs[i].queue) \in Nat
      BY <2>1 DEF Sub
    <3> QED BY <1>4, <2>1, <3>1 DEF Ready, Handler
  <2>5. [subs[i] EXCEPT !.queue = Tail(@)] \in Sub
    BY <2>1 DEF Sub
  <2>3. Becomes(h, g)
    BY <1>5 DEF Take
  <2>4. subs' \in Seq(Sub)
    BY <1>1, <1>5, <2>5 DEF Take
  <2> HIDE DEF g, h
  <2> QED BY <1>3, <1>4, <1>5, <2>2, <2>3, <2>4, BecomesKeepsTypes DEF Take
<1>6. ASSUME NEW h \in handlers, StartSending(h) PROVE HubInv'
  <2> DEFINE g == [h EXCEPT !.at = "sending", !.todo = member]
  <2>1. g \in Handler
    BY <1>1, <1>4 DEF Handler
  <2>2. Becomes(h, g) /\ UNCHANGED <<subs, heard, shut, member, crashed>>
    BY <1>6 DEF StartSending
  <2> HIDE DEF g
  <2> QED BY <1>1, <1>3, <1>4, <2>1, <2>2, BecomesKeepsTypes
<1>9. ASSUME NEW h \in handlers, CloseSend(h) PROVE HubInv'
  <2> DEFINE g == [h EXCEPT !.at = "shut"]
  <2>1. g \in Handler /\ h.socket \in Proc
    BY <1>1, <1>9 DEF CloseSend, Handler
  <2>2. /\ Becomes(h, g) /\ UNCHANGED <<subs, heard, member>>
        /\ crashed' \in BOOLEAN /\ shut' = shut \cup {h.socket}
    BY <1>9 DEF CloseSend
  <2> HIDE DEF g
  <2>3. shut' \subseteq Proc
    BY <1>4, <2>1, <2>2
  <2> QED BY <1>1, <1>3, <1>4, <2>1, <2>2, <2>3, BecomesKeepsTypes
<1>7. ASSUME NEW h \in handlers, Send(h) PROVE HubInv'
  <2>1. PICK c \in h.todo :
          LET rest == [h EXCEPT !.todo = @ \ {c}] IN
          \/ c \in shut /\ crashed' = TRUE /\ UNCHANGED <<handlers, heard, ledTo, faults>>
          \/ /\ heard' = [heard EXCEPT ![c] = h.message]
             /\ handlers' = (handlers \ {h}) \cup IF rest.todo = {} THEN {} ELSE {rest}
             /\ ledTo' = IF h.message > heard[c] THEN ledTo ELSE ledTo \cup {"disorder"}
             /\ UNCHANGED crashed
          \/ /\ Becomes(h, [rest EXCEPT !.at = "full", !.socket = c])
             /\ UNCHANGED <<heard, crashed>>
    BY <1>7 DEF Send
  <2> DEFINE rest == [h EXCEPT !.todo = @ \ {c}]
             full == [rest EXCEPT !.at = "full", !.socket = c]
  <2>2. h \in Handler /\ h.at = "sending" /\ UNCHANGED <<subs, shut, member>>
    BY <1>1, <1>7 DEF Send
  <2>3. c \in Proc /\ h.message \in Nat
    BY <2>2 DEF Handler
  <2>4. rest \in Handler /\ full \in Handler
    BY <2>2, <2>3 DEF Handler
  <2>5. IsFiniteSet(handlers \ {h}) /\ IsFiniteSet((handlers \ {h}) \cup {rest})
    <3>1. IsFiniteSet(handlers \ {h})
      BY <1>4, FS_Subset
    <3> QED BY <3>1, FS_AddElement
  <2> HIDE DEF rest, full
  <2>6. CASE crashed' = TRUE /\ UNCHANGED <<handlers, heard, ledTo>>
    BY <1>1, <1>3, <1>4, <2>2, <2>6
  <2>7. CASE /\ heard' = [heard EXCEPT ![c] = h.message]
             /\ handlers' = (handlers \ {h}) \cup IF rest.todo = {} THEN {} ELSE {rest}
             /\ ledTo' = IF h.message > heard[c] THEN ledTo ELSE ledTo \cup {"disorder"}
             /\ UNCHANGED crashed
    <3>1. heard' \in [Proc -> Nat] /\ crashed' \in BOOLEAN
          /\ ledTo' \subseteq {"twoReaders", "overtaken", "reopened", "disorder"}
      BY <1>4, <2>3, <2>7
    <3>2. handlers' \subseteq Handler /\ IsFiniteSet(handlers')
      BY <1>1, <2>4, <2>5, <2>7
    <3> QED BY <1>1, <1>3, <1>4, <2>2, <3>1, <3>2
  <2>8. CASE Becomes(h, full) /\ UNCHANGED <<heard, crashed>>
    BY <1>1, <1>3, <1>4, <2>2, <2>4, <2>8, BecomesKeepsTypes
  <2> QED BY <2>1, <2>6, <2>7, <2>8 DEF rest, full
<1>8. ASSUME NEW h \in handlers, DropClient(h) PROVE HubInv'
  <2> DEFINE S == (handlers \ {h}) \cup {[h EXCEPT !.at = "sending", !.socket = NoSocket]}
             left == {[g EXCEPT !.todo = @ \ {h.socket}] : g \in S}
             f == [g \in S |-> [g EXCEPT !.todo = @ \ {h.socket}]]
  <2>1. S \subseteq Handler
    BY <1>1 DEF Handler
  <2>2. left \subseteq Handler
    BY <2>1 DEF Handler
  <2>3. IsFiniteSet(S)
    <3>1. IsFiniteSet(handlers \ {h})
      BY <1>4, FS_Subset
    <3> QED BY <3>1, FS_AddElement
  <2>4. f \in Surjection(S, left)
    BY DEF Surjection
  <2>5. IsFiniteSet(left)
    BY <2>3, <2>4, FS_Surjection
  <2>6. /\ handlers' = {g \in left : g.at # "sending" \/ g.todo # {}}
        /\ member' = member \ {h.socket} /\ crashed' \in BOOLEAN /\ UNCHANGED <<subs, heard, shut, ledTo>>
    BY <1>8 DEF DropClient
  <2> HIDE DEF left
  <2>7. handlers' \subseteq Handler /\ IsFiniteSet(handlers')
    BY <2>2, <2>5, <2>6, FS_Subset
  <2> QED BY <1>1, <1>3, <1>4, <2>6, <2>7
<1> QED BY <1>5, <1>6, <1>7, <1>8, <1>9 DEF BrokerStep

Settings == [host : BOOLEAN, slow : Nat, gated : BOOLEAN, cached : BOOLEAN]

\* A user is told to be silent: the key that Redis is to hold, and the history.
Silences(k, u, t, f) ==
  /\ SetKey(k, u, t, f)
  /\ silent' = IF redisUp THEN [silent EXCEPT ![k][u] = Until(t)] ELSE silent

\* The slow mode of a user starts.
SlowsDown(u, n, f) ==
  key' = IF redisUp /\ f # "set" THEN [key EXCEPT !["slow"][u] = now + n, !["spoke"][u] = now] ELSE key

\* What HubBroadcast does for a message of u, to each part of the hub, when the
\* statement f fails: the branches of its use case taken together.
BroadcastOf(u, f) ==
  /\ IF f = "none" THEN faults' = faults ELSE faults' = faults + 1
  /\ UNCHANGED <<registerQ, unregisterQ, shut, heard, redisUp, member, open>>
  /\ \/ settings' = Room1(f)
     \/ \E n \in Nat, g \in BOOLEAN : settings' = [Room1(f) EXCEPT !.slow = n, !.gated = g]
  /\ \/ UNCHANGED <<subs, handlers, published>>
     \/ Publish("hub", "news")
     \/ Publish(u, "pin") /\ ~Holds("kick", u, f)
     \/ Publish(u, "message") /\ ~Holds("mute", u, f) /\ ~Holds("kick", u, f)
  /\ Untroubled \/ PrivateError(u)
  /\ \/ UNCHANGED <<key, silent>>
     \/ SlowsDown(u, Room1(f).slow, f) /\ UNCHANGED silent
     \/ \E t \in Chatter, n \in Nat : Silences("mute", t, n, f)
     \/ \E t \in Chatter : Silences("kick", t, KickLife, f)
  /\ \/ UNCHANGED bucket
     \/ /\ IsCounted(f) /\ ~Limited(u, f)
        /\ bucket' = [bucket EXCEPT ![u] = [tokens |-> Tokens(u) - 1, at |-> now]]

\* A message of a socket does that.
LEMMA BroadcastDoes ==
  ASSUME CallInv, TalkInv, NEW p \in Proc, job[p] \in ChatRequests, HubBroadcast(p)
  PROVE  /\ job[p].user \in Chatter
         /\ \E f \in Statement \cup {"none"} : BroadcastOf(job[p].user, f)
<1> DEFINE u == job[p].user
           m == Head(seen[p].says)
<1>1. job[p].kind = "chatWS" /\ fate[p] = "running" /\ Head(plan[p]) # "chatting"
  BY RequestKinds DEF HubBroadcast, At, TalkInv
<1>2. u \in Chatter
  BY <1>1, RequestKinds DEF ServeWS
<1>3. m \in Chat \cup Command
  BY <1>1, OneWordLess DEF TalkInv
<1>4. UNCHANGED <<registerQ, unregisterQ, shut, heard, redisUp, member, open>>
  BY DEF HubBroadcast
<1>5. PICK f \in Statement \cup {"none"} :
        \/ /\ m.is \in {"mute", "kick", "pin", "settings"} /\ ~Holds("kick", u, f)
           /\ ExecuteModeratorCommand(p, m, f)
        \/ /\ ~Holds("kick", u, f) /\ ~Holds("mute", u, f) /\ ~Limited(u, f)
           /\ HandleChat(p, m, u, f) /\ settings' = Room1(f)
        \/ Refused(p, f) /\ settings' = Room1(f) /\ UNCHANGED <<bucket, silent>>
  BY DEF HubBroadcast
<1>6. IF f = "none" THEN faults' = faults ELSE faults' = faults + 1
  BY <1>5 DEF Refused, Said, ExecuteModeratorCommand, Mute, Kick, Pin, ChatSettings, HandleChat,
              Deal, Go, Slip
<1>7. CASE Refused(p, f) /\ settings' = Room1(f) /\ UNCHANGED <<bucket, silent>>
  <2>1. UNCHANGED <<subs, handlers, published, key>> /\ PrivateError(u)
    BY <1>7 DEF Refused
  <2> QED BY <1>2, <1>4, <1>6, <1>7, <2>1 DEF BroadcastOf
<1>8. CASE /\ m.is \in {"mute", "kick", "pin", "settings"} /\ ~Holds("kick", u, f)
           /\ ExecuteModeratorCommand(p, m, f)
  <2>1. /\ m.is \in {"mute", "kick"} => m.target \in Chatter
        /\ m.is = "mute" => m.lasts \in Nat
        /\ m.is = "settings" => m.slow \in Nat /\ m.gated \in BOOLEAN
    BY <1>3, <1>8 DEF Chat, Command
  <2>2. UNCHANGED bucket /\ Untroubled
    BY <1>8 DEF ExecuteModeratorCommand
  <2>3. ASSUME NEW from, NEW is, Published(from, is, f)
        PROVE  UNCHANGED <<subs, handlers, published>> \/ Publish(from, is)
    BY <2>3 DEF Published
  <2>4. CASE m.is = "mute"
    <3>1. Silences("mute", m.target, m.lasts, f) /\ Published("hub", "news", f) /\ settings' = Room1(f)
      BY <1>8, <2>4 DEF ExecuteModeratorCommand, Mute, Silences
    <3> QED BY <1>2, <1>4, <1>6, <2>1, <2>2, <2>3, <2>4, <3>1 DEF BroadcastOf
  <2>5. CASE m.is = "kick"
    <3>1. Silences("kick", m.target, KickLife, f) /\ Published("hub", "news", f) /\ settings' = Room1(f)
      BY <1>8, <2>5 DEF ExecuteModeratorCommand, Kick, Silences
    <3> QED BY <1>2, <1>4, <1>6, <2>1, <2>2, <2>3, <2>5, <3>1 DEF BroadcastOf
  <2>6. CASE m.is = "pin"
    <3>1. UNCHANGED <<key, silent>> /\ Published(u, "pin", f) /\ settings' = Room1(f)
      BY <1>8, <2>6 DEF ExecuteModeratorCommand, Pin
    <3> QED BY <1>2, <1>4, <1>6, <1>8, <2>2, <2>3, <3>1 DEF BroadcastOf
  <2>7. CASE m.is = "settings"
    <3>1. /\ settings' = [Room1(f) EXCEPT !.slow = m.slow, !.gated = m.gated]
          /\ Published("hub", "news", f) /\ UNCHANGED <<key, silent>>
      BY <1>8, <2>7 DEF ExecuteModeratorCommand, ChatSettings
    <3> QED BY <1>2, <1>4, <1>6, <2>1, <2>2, <2>3, <2>7, <3>1 DEF BroadcastOf
  <2> QED BY <1>8, <2>4, <2>5, <2>6, <2>7
<1>9. CASE /\ ~Holds("kick", u, f) /\ ~Holds("mute", u, f) /\ ~Limited(u, f)
           /\ HandleChat(p, m, u, f) /\ settings' = Room1(f)
  <2>1. UNCHANGED silent
    BY <1>9 DEF HandleChat
  <2>2. \/ UNCHANGED bucket
        \/ /\ IsCounted(f) /\ ~Limited(u, f)
           /\ bucket' = [bucket EXCEPT ![u] = [tokens |-> Tokens(u) - 1, at |-> now]]
    <3>1. bucket' = IF IsCounted(f) THEN [bucket EXCEPT ![u] = [tokens |-> Tokens(u) - 1, at |-> now]] ELSE bucket
      BY <1>9 DEF HandleChat
    <3> QED BY <1>9, <3>1
  <2>3. /\ Published(u, "message", f) \/ UNCHANGED <<subs, handlers, published>>
        /\ Untroubled \/ PrivateError(u)
        /\ UNCHANGED key \/ SlowsDown(u, Room1(f).slow, f)
    BY <1>9 DEF HandleChat, Refused, SlowsDown
  <2>4. Publish(u, "message") \/ UNCHANGED <<subs, handlers, published>>
    BY <2>3 DEF Published
  <2> QED BY <1>2, <1>4, <1>6, <1>9, <2>1, <2>2, <2>3, <2>4 DEF BroadcastOf
<1> QED BY <1>5, <1>7, <1>8, <1>9

\* What is left of a bucket after a message.
LEMMA TokensLeft ==
  ASSUME HubInv, CallInv, NEW u \in Chatter, NEW f, IsCounted(f), ~Limited(u, f)
  PROVE  Tokens(u) \in 1..ChatRate
<1> DEFINE b == bucket[u]
           t == b.tokens + (now - b.at) * ChatRate
<1>1. b.tokens \in 0..ChatRate /\ b.at \in Nat /\ b.at <= now /\ now \in Nat /\ ChatRate \in Nat
  <2>1. bucket[u] \in [tokens : 0..ChatRate, at : Nat] /\ bucket[u].at <= now
    BY DEF HubInv, HubTypeOK
  <2>2. now \in Nat
    BY CallAssumption DEF CallInv, CallTypeOK
  <2>3. ChatRate \in Nat
    BY HubAssumption
  <2> QED BY <2>1, <2>2, <2>3
<1>2. (now - b.at) * ChatRate \in Nat
  <2>1. now - b.at \in Nat
    BY <1>1
  <2> QED BY <1>1, <2>1
<1>3. t \in Nat
  BY <1>1, <1>2
<1>4. Tokens(u) = IF t > ChatRate THEN ChatRate ELSE t
  BY DEF Tokens
<1>5. Tokens(u) >= 1
  BY <1>1, <1>3, <1>4 DEF Limited
<1> HIDE DEF t, b
<1> QED BY <1>1, <1>3, <1>4, <1>5

\* A step of the chat keeps the types.
LEMMA ChatKeepsTypes ==
  ASSUME CallInv, TalkInv, HubInv, ChatStep
  PROVE  HubInv'
<1>1. now' = now
  BY ChatMoves
<1>2. now \in Nat
  BY CallAssumption DEF CallInv, CallTypeOK
<1>3. /\ registerQ \in Seq(Proc) /\ unregisterQ \in Seq(Proc) /\ subs \in Seq(Sub) /\ redisUp \in BOOLEAN
      /\ handlers \subseteq Handler /\ IsFiniteSet(handlers) /\ published.n \in Nat
      /\ settings \in Settings /\ member \subseteq Proc /\ open \in BOOLEAN
  BY DEF HubInv, HubTypeOK, Sub, Settings
<1>4. \A f : Room1(f) \in Settings
  BY <1>3, HubAssumption DEF Room1, Settings, NoSettings
<1>12. ASSUME registerQ' \in Seq(Proc), unregisterQ' \in Seq(Proc), member' \subseteq Proc, shut' \subseteq Proc,
              open' \in BOOLEAN, settings' \in Settings, UNCHANGED <<heard, redisUp, key, bucket, silent>>,
              subs' \in Seq(Sub), handlers' \subseteq Handler, IsFiniteSet(handlers'),
              published' \in Message, crashed' \in BOOLEAN,
              ledTo' \subseteq {"twoReaders", "overtaken", "reopened", "disorder"}
       PROVE  HubInv'
  BY <1>1, <1>12 DEF HubInv, HubTypeOK, Sub, Message, Handler, Settings
<1>13. /\ published \in Message /\ crashed \in BOOLEAN /\ shut \subseteq Proc
       /\ ledTo \subseteq {"twoReaders", "overtaken", "reopened", "disorder"}
  BY DEF HubInv, HubTypeOK, Message
<1>5. ASSUME NEW p \in Proc, NewClient(p) \/ ReadPumpEnds(p) PROVE HubInv'
  <2>1. /\ registerQ' \in Seq(Proc) /\ unregisterQ' \in Seq(Proc)
        /\ UNCHANGED <<member, shut, open, settings, heard, redisUp, key, bucket, silent, subs, handlers, published, crashed, ledTo>>
    <3>1. /\ registerQ' \in {registerQ, Append(registerQ, p)} /\ unregisterQ' \in {unregisterQ, Append(unregisterQ, p)}
          /\ UNCHANGED <<member, shut, open, settings, heard, redisUp, key, bucket, silent, subs, handlers, published, crashed, ledTo>>
      BY <1>5 DEF NewClient, ReadPumpEnds
    <3>2. Append(registerQ, p) \in Seq(Proc) /\ Append(unregisterQ, p) \in Seq(Proc)
      BY <1>3
    <3> QED BY <1>3, <3>1, <3>2
  <2> QED BY <1>3, <1>12, <1>13, <2>1
<1>6. ASSUME NEW p \in Proc, DropKicked(p) \/ StopHub(p) PROVE HubInv'
  <2>1. /\ member' \subseteq Proc /\ settings' \in Settings /\ open' \in BOOLEAN
        /\ UNCHANGED <<registerQ, unregisterQ, shut, heard, redisUp, key, bucket, silent, subs, handlers, published, crashed, ledTo>>
    <3>1. NoSettings \in Settings
      BY DEF NoSettings, Settings
    <3> QED BY <1>3, <1>6, <3>1 DEF DropKicked, StopHub
  <2> QED BY <1>3, <1>12, <1>13, <2>1
<1>7. ASSUME NEW p \in Proc, RedisHealth(p) PROVE HubInv'
  <2>1. subs' \in Seq(Sub)
    <3>1. CASE subs' = subs
      BY <1>3, <3>1
    <3>2. CASE subs' = [i \in DOMAIN subs |-> [subs[i] EXCEPT !.queue = <<>>]]
      <4>1. DOMAIN subs = 1..Len(subs) /\ \A i \in 1..Len(subs) : subs[i] \in Sub
        BY <1>3
      <4>2. \A s \in Sub : [s EXCEPT !.queue = <<>>] \in Sub
        <5>1. <<>> \in Seq(Nat)
          OBVIOUS
        <5> QED BY <5>1 DEF Sub
      <4>3. subs' \in [1..Len(subs) -> Sub]
        BY <3>2, <4>1, <4>2
      <4>4. Len(subs) \in Nat
        BY <1>3
      <4> QED BY <4>3, <4>4, SeqOf
    <3> QED BY <1>7, <3>1, <3>2 DEF RedisHealth
  <2> QED BY <1>1, <1>7, <2>1 DEF RedisHealth, HubInv, HubTypeOK, Sub
<1>8. ASSUME NEW p \in Proc, BroadcastToRoom(p) PROVE HubInv'
  <2>1. Publish("hub", "news")
    BY <1>8 DEF BroadcastToRoom
  <2>2. /\ published' \in Message
        /\ subs' \in Seq(Sub) /\ handlers' \subseteq Handler /\ IsFiniteSet(handlers')
    BY <2>1, PublishKeepsTypes
  <2> QED BY <1>1, <1>8, <2>2 DEF BroadcastToRoom, HubInv, HubTypeOK, Sub, Message, Handler
<1>9. ASSUME NEW p \in Proc, job[p] \in ChatRequests, HubBroadcast(p) PROVE HubInv'
  <2> DEFINE u == job[p].user
  <2>1. u \in Chatter /\ \E f \in Statement \cup {"none"} : BroadcastOf(u, f)
    BY <1>9, BroadcastDoes
  <2>0. PICK f \in Statement \cup {"none"} : BroadcastOf(u, f)
    BY <2>1
  <2>7. /\ \/ UNCHANGED <<subs, handlers, published>>
           \/ Publish("hub", "news") \/ Publish(u, "pin") \/ Publish(u, "message")
        /\ \/ UNCHANGED <<key, silent>>
           \/ SlowsDown(u, Room1(f).slow, f) /\ UNCHANGED silent
           \/ \E t \in Chatter, n \in Nat : Silences("mute", t, n, f)
           \/ \E t \in Chatter : Silences("kick", t, KickLife, f)
        /\ \/ UNCHANGED bucket
           \/ /\ IsCounted(f) /\ ~Limited(u, f)
              /\ bucket' = [bucket EXCEPT ![u] = [tokens |-> Tokens(u) - 1, at |-> now]]
    BY <2>0 DEF BroadcastOf
  <2>2. /\ published' \in Message
        /\ subs' \in Seq(Sub) /\ handlers' \subseteq Handler /\ IsFiniteSet(handlers')
    <3>1. CASE UNCHANGED <<subs, handlers, published>>
      BY <1>3, <3>1 DEF HubInv, HubTypeOK, Message
    <3> QED BY <2>1, <2>7, <3>1, PublishKeepsTypes
  <2>3. /\ key' \in [{"mute", "kick", "slow", "spoke"} -> [Chatter -> Nat]]
        /\ silent' \in [{"mute", "kick"} -> [Chatter -> Nat]]
    <3>1. /\ key \in [{"mute", "kick", "slow", "spoke"} -> [Chatter -> Nat]]
          /\ silent \in [{"mute", "kick"} -> [Chatter -> Nat]]
      BY DEF HubInv, HubTypeOK
    <3>2. \A n \in Nat : Until(n) \in Nat
      BY <1>2, CallAssumption DEF Until, Ever
    <3>3. ASSUME NEW k \in {"mute", "kick"}, NEW t \in Chatter, NEW n \in Nat, Silences(k, t, n, f)
          PROVE  /\ key' \in [{"mute", "kick", "slow", "spoke"} -> [Chatter -> Nat]]
                 /\ silent' \in [{"mute", "kick"} -> [Chatter -> Nat]]
      BY <3>1, <3>2, <3>3 DEF Silences, SetKey
    <3>4. Room1(f).slow \in Nat /\ KickLife \in Nat
      BY <1>4, HubAssumption DEF Settings
    <3>5. ASSUME NEW n \in Nat, SlowsDown(u, n, f)
          PROVE  key' \in [{"mute", "kick", "slow", "spoke"} -> [Chatter -> Nat]]
      <4>1. CASE key' = key
        BY <3>1, <4>1
      <4>2. CASE key' = [key EXCEPT !["slow"][u] = now + n, !["spoke"][u] = now]
        <5>1. now + n \in Nat /\ u \in Chatter
          BY <1>2, <2>1
        <5> QED BY <1>2, <3>1, <4>2, <5>1
      <4> QED BY <3>5, <4>1, <4>2 DEF SlowsDown
    <3> QED BY <2>1, <2>7, <3>1, <3>3, <3>4, <3>5
  <2>4. bucket' \in [Chatter -> [tokens : 0..ChatRate, at : Nat]] /\ \A t \in Chatter : bucket'[t].at <= now
    <3>1. bucket \in [Chatter -> [tokens : 0..ChatRate, at : Nat]] /\ \A t \in Chatter : bucket[t].at <= now
      BY DEF HubInv, HubTypeOK
    <3>2. ASSUME IsCounted(f), ~Limited(u, f),
                 bucket' = [bucket EXCEPT ![u] = [tokens |-> Tokens(u) - 1, at |-> now]]
          PROVE  bucket' \in [Chatter -> [tokens : 0..ChatRate, at : Nat]] /\ \A t \in Chatter : bucket'[t].at <= now
      <4>1. Tokens(u) \in 1..ChatRate /\ ChatRate \in Nat
        BY <2>1, <3>2, TokensLeft, HubAssumption
      <4>2. [tokens |-> Tokens(u) - 1, at |-> now] \in [tokens : 0..ChatRate, at : Nat]
        BY <1>2, <4>1
      <4>3. u \in Chatter
        BY <2>1
      <4> DEFINE b == [tokens |-> Tokens(u) - 1, at |-> now]
      <4>4. b \in [tokens : 0..ChatRate, at : Nat] /\ b.at = now /\ bucket' = [bucket EXCEPT ![u] = b]
        BY <3>2, <4>2
      <4> HIDE DEF u, b
      <4> QED BY <1>2, <3>1, <4>3, <4>4
    <3> QED BY <2>7, <3>1, <3>2
  <2>5. /\ crashed' \in BOOLEAN
        /\ ledTo' \subseteq {"twoReaders", "overtaken", "reopened", "disorder"}
    BY <2>0 DEF BroadcastOf, Untroubled, PrivateError, HubInv, HubTypeOK
  <2>6. settings' \in Settings
    <3>1. \A n \in Nat, g \in BOOLEAN : [Room1(f) EXCEPT !.slow = n, !.gated = g] \in Settings
      BY <1>4 DEF Settings
    <3> QED BY <1>4, <2>0, <3>1 DEF BroadcastOf
  <2>8. UNCHANGED <<registerQ, unregisterQ, shut, heard, redisUp, member, open>>
    BY <2>0 DEF BroadcastOf
  <2> QED BY <1>1, <2>2, <2>3, <2>4, <2>5, <2>6, <2>8 DEF HubInv, HubTypeOK, Sub, Message, Settings, Handler
<1>10. CASE HubUnregister
  <2>1. /\ unregisterQ # <<>> /\ unregisterQ' = Tail(unregisterQ)
        /\ UNCHANGED <<registerQ, heard, redisUp, key, bucket, silent, subs, handlers, published, ledTo>>
    BY <1>10 DEF HubUnregister, RunUnregister
  <2>2. /\ member' \subseteq Proc /\ shut' \subseteq Proc /\ settings' \in Settings
        /\ crashed' \in BOOLEAN /\ open' \in BOOLEAN
    <3>1. NoSettings \in Settings
      BY DEF NoSettings, Settings
    <3>2. Head(unregisterQ) \in Proc
      BY <1>3, <2>1
    <3>3. \/ /\ crashed' = (Head(unregisterQ) \in shut) /\ shut' = shut \cup {Head(unregisterQ)}
             /\ member' \subseteq member /\ settings' \in {NoSettings, settings}
             /\ open' \in {FALSE, open}
          \/ UNCHANGED <<crashed, shut, member, open, settings>>
      BY <1>10 DEF HubUnregister, RunUnregister
    <3>4. crashed' \in BOOLEAN
      <4>1. CASE Head(unregisterQ) \in member
        BY <1>10, <4>1 DEF HubUnregister, RunUnregister
      <4>2. CASE Head(unregisterQ) \notin member
        BY <1>10, <1>13, <4>2 DEF HubUnregister, RunUnregister
      <4> QED BY <4>1, <4>2
    <3>5. member' \subseteq Proc /\ shut' \subseteq Proc
      BY <1>3, <1>13, <3>2, <3>3
    <3>6. settings' \in Settings
      BY <1>3, <3>1, <3>3
    <3> QED BY <1>3, <3>3, <3>4, <3>5, <3>6
  <2>3. unregisterQ' \in Seq(Proc)
    BY <1>3, <2>1
  <2> QED BY <1>3, <1>12, <1>13, <2>1, <2>2, <2>3
<1>11. CASE HubRegister
  <2> DEFINE c == Head(registerQ)
             made == IF ~open THEN Subscribe ELSE subs
             I == {j \in DOMAIN made : ~made[j].redis}
  <2>1. /\ registerQ # <<>> /\ registerQ' = Tail(registerQ) /\ member' = member \cup {c}
        /\ published' = Numbered("hub", "news")
        /\ handlers' = handlers \cup IF redisUp THEN {} ELSE {Ready(i, NextNumber) : i \in I}
        /\ \E told \in {Len(subs), Len(made)} :
             subs' = [i \in DOMAIN made |-> IF redisUp /\ made[i].redis /\ i <= told
                       THEN [made[i] EXCEPT !.queue = Append(@, NextNumber)] ELSE made[i]]
        /\ open' = TRUE /\ UNCHANGED <<unregisterQ, shut, heard, settings, redisUp, key, bucket, crashed, silent>>
    BY <1>11 DEF HubRegister, RunRegister
  <2>2. ledTo' \subseteq {"twoReaders", "overtaken", "reopened", "disorder"}
    BY <1>11, <1>13 DEF HubRegister, RunRegister
  <2>3. made \in Seq(Sub) /\ DOMAIN made = 1..Len(made) /\ Len(made) \in Nat
    <3>1. [redis |-> redisUp, queue |-> <<>>] \in Sub
      BY <1>3 DEF Sub
    <3>2. Subscribe \in Seq(Sub)
      BY <1>3, <3>1 DEF Subscribe
    <3> QED BY <1>3, <3>2
  <2>4. registerQ' \in Seq(Proc) /\ member' \subseteq Proc
    BY <1>3, <2>1
  <2>5. NextNumber \in Nat /\ published' \in Message
    BY <1>3, <2>1 DEF NextNumber, Numbered, Message
  <2> HIDE DEF made
  <2>6. handlers' \subseteq Handler /\ IsFiniteSet(handlers')
    <3>1. I \in SUBSET (1..Len(made))
      BY <2>3
    <3>2. {Ready(i, NextNumber) : i \in I} \subseteq Handler /\ IsFiniteSet({Ready(i, NextNumber) : i \in I})
      BY <2>3, <2>5, <3>1, HandedOut
    <3> HIDE DEF I
    <3>3. IsFiniteSet(handlers \cup {Ready(i, NextNumber) : i \in I})
      BY <1>3, <3>2, FS_Union
    <3> QED BY <1>3, <2>1, <3>2, <3>3
  <2>7. subs' \in Seq(Sub)
    <3>1. ASSUME NEW s \in Sub PROVE [s EXCEPT !.queue = Append(@, NextNumber)] \in Sub
      <4>1. Append(s.queue, NextNumber) \in Seq(Nat)
        BY <2>5 DEF Sub
      <4> QED BY <4>1 DEF Sub
    <3>2. \A i \in 1..Len(made) : made[i] \in Sub
      BY <2>3
    <3>3. subs' \in [1..Len(made) -> Sub]
      BY <2>1, <2>3, <3>1, <3>2
    <3> QED BY <2>3, <3>3, SeqOf
  <2> QED BY <1>3, <1>12, <1>13, <2>1, <2>2, <2>4, <2>5, <2>6, <2>7
<1> QED BY <1>5, <1>6, <1>7, <1>8, <1>9, <1>10, <1>11, BrokerKeepsTypes DEF ChatStep

\* The types of the hub.
LEMMA HubHolds == Spec => []HubInv
<1>1. Init => HubInv
  <2> SUFFICES ASSUME Init PROVE HubInv
    OBVIOUS
  <2>1. HubTypeOK
    <3>1. /\ ChatRate \in Nat /\ 0 \in Nat /\ ChatRate \in 0..ChatRate
          /\ \A S : <<>> \in Seq(S)
      BY HubAssumption
    <3>2. HubInit
      BY DEF Init
    <3>3. /\ registerQ \in Seq(Proc) /\ unregisterQ \in Seq(Proc)
          /\ subs \in Seq([redis : BOOLEAN, queue : Seq(Nat)])
      BY <3>1, <3>2 DEF HubInit
    <3>4. /\ bucket \in [Chatter -> [tokens : 0..ChatRate, at : Nat]]
          /\ key \in [{"mute", "kick", "slow", "spoke"} -> [Chatter -> Nat]]
          /\ published \in Message
          /\ settings \in [host : BOOLEAN, slow : Nat, gated : BOOLEAN, cached : BOOLEAN]
      BY <3>1, <3>2 DEF HubInit, NoSettings, Message
    <3> QED BY <3>1, <3>2, <3>3, <3>4 DEF HubInit, HubTypeOK, Message
  <2>2. handlers = {} /\ (\A u \in Chatter : bucket[u].at = 0) /\ now = 0
    BY DEF Init, HubInit, CallInit
  <2>3. IsFiniteSet(handlers)
    BY <2>2, FS_EmptySet
  <2> QED BY <2>1, <2>2, <2>3 DEF HubInv
<1>2. CallInv /\ TalkInv /\ HubInv /\ [Next]_vars => HubInv'
  <2> SUFFICES ASSUME CallInv, TalkInv, HubInv, Aside PROVE HubInv'
    BY ChatOrAside, ChatKeepsTypes
  <2>1. now \in Nat
    BY CallAssumption DEF CallInv, CallTypeOK
  <2>2. UNCHANGED <<hubVars, job>> /\ now' \in Nat /\ now <= now'
    BY DEF Aside
  <2>3. HubTypeOK'
    BY <2>2 DEF hubVars, HubInv, HubTypeOK
  <2>4. \A u \in Chatter : bucket[u].at \in Nat
    BY DEF HubInv, HubTypeOK
  <2>5. \A u \in Chatter : bucket'[u].at <= now'
    BY <2>1, <2>2, <2>4 DEF hubVars, HubInv
  <2> QED BY <2>2, <2>3, <2>5 DEF hubVars, HubInv, Handler
<1> QED BY <1>1, <1>2, CallsHold, TalkHolds, PTL DEF Spec

-----------------------------------------------------------------------------
(***************************************************************************)
(* A handler sends to sockets that are in the maps, and each was           *)
(* registered once: their channels are open.  The process would panic only *)
(* if two handlers, or a handler and an error, read the maps at once.      *)
(***************************************************************************)
Sockets == {c \in Proc : job[c].kind = "chatWS" /\ fate[c] # "new"}
Entered == (member \cup shut \cup {h.socket : h \in handlers}) \ {NoSocket}

\* A socket comes by the queue once: what waits there has never been in the maps.
QueueInv ==
  /\ \A i \in DOMAIN registerQ : registerQ[i] \in Sockets \ Entered
  /\ \A i, j \in DOMAIN registerQ : registerQ[i] = registerQ[j] => i = j
  /\ Entered \subseteq Sockets

HandlerInv == \A h \in handlers : h.todo \subseteq member /\ (h.at = "ready" => h.todo = {})

\* Of one handler at a time, the socket it found full, if any, is in the maps, and
\* it is the only one there whose channel may be closed.
OneReader ==
  /\ ~crashed
  /\ \A h, g \in Sending : h = g
  /\ \A h \in handlers : /\ h.at \in {"full", "shut"} => h.socket \in member
                         /\ h.at = "full" => h.socket \notin shut
  /\ \A c \in member \cap shut : \E h \in handlers : h.at = "shut" /\ h.socket = c

ReaderInv == "twoReaders" \notin ledTo => OneReader

\* More handlers, which have not begun.
Grows == /\ handlers \subseteq handlers'
         /\ \A h \in handlers' \ handlers : h.at = "ready" /\ h.todo = {} /\ h.socket = NoSocket

\* What a user or the hub says: it is published or not, and an error perhaps.
Talks == /\ UNCHANGED <<registerQ, unregisterQ, member, shut, heard, redisUp>>
         /\ UNCHANGED <<subs, handlers, published>> \/ \E from \in Chatter \cup {"hub"}, is \in {"message", "pin", "news"} : Publish(from, is)
         /\ Untroubled \/ \E u \in Chatter : PrivateError(u)

\* What takes sockets out of the maps under the write lock.
Clears == /\ Locked /\ member' \subseteq member
          /\ UNCHANGED <<registerQ, unregisterQ, shut, heard, redisUp, subs, handlers, published, crashed, ledTo>>

\* A step of the chat, by what it does to the queues, the maps and the broker.
LEMMA ChatDoes ==
  ASSUME CallInv, TalkInv, ChatStep
  PROVE  \/ \E p \in Proc : NewClient(p) \/ ReadPumpEnds(p) \/ RedisHealth(p)
         \/ Talks \/ Clears \/ HubRegister \/ HubUnregister \/ BrokerStep
<1>1. ASSUME NEW p \in Proc, job[p] \in ChatRequests, HubBroadcast(p) PROVE Talks
  BY <1>1, BroadcastDoes DEF BroadcastOf, Talks
<1>2. ASSUME NEW p \in Proc, BroadcastToRoom(p) PROVE Talks
  BY <1>2 DEF BroadcastToRoom, Talks, Untroubled
<1>3. ASSUME NEW p \in Proc, DropKicked(p) \/ StopHub(p) PROVE Clears
  BY <1>3 DEF DropKicked, StopHub, Clears
<1> QED BY <1>1, <1>2, <1>3 DEF ChatStep

\* Who publishes adds such handlers.
LEMMA TalkGrows ==
  ASSUME Talks
  PROVE  Grows
BY DEF Talks, Publish, Grows, Ready

\* And so does who comes.
LEMMA RegisterGrows ==
  ASSUME HubRegister
  PROVE  /\ Grows /\ Locked /\ registerQ # <<>> /\ registerQ' = Tail(registerQ)
         /\ member' = member \cup {Head(registerQ)}
         /\ UNCHANGED <<unregisterQ, shut, heard, redisUp, crashed>>
         /\ ledTo \subseteq ledTo' /\ ("twoReaders" \in ledTo' => "twoReaders" \in ledTo)
BY DEF HubRegister, RunRegister, Grows, Ready

\* Who goes is in the maps, or nothing happens.
LEMMA UnregisterDoes ==
  ASSUME HubUnregister
  PROVE  /\ Locked /\ unregisterQ # <<>> /\ unregisterQ' = Tail(unregisterQ)
         /\ UNCHANGED <<registerQ, heard, redisUp, subs, handlers, published, ledTo>>
         /\ \/ /\ Head(unregisterQ) \in member
               /\ crashed' = (Head(unregisterQ) \in shut)
               /\ shut' = shut \cup {Head(unregisterQ)}
               /\ member' = member \ {Head(unregisterQ)}
            \/ Head(unregisterQ) \notin member /\ UNCHANGED <<crashed, shut, member>>
BY DEF HubUnregister, RunUnregister

\* Sockets stay sockets.
LEMMA SocketsStay ==
  ASSUME CallInv, TalkInv, [Next]_vars
  PROVE  Sockets \subseteq Sockets'
<1>1. CASE Rest
  BY <1>1 DEF Rest, Sockets
<1>2. ASSUME NEW p \in Proc, Moves(p) \/ Slips(p) PROVE Sockets \subseteq Sockets'
  BY <1>2, MoveIsOwn DEF RestOf, Sockets
<1> QED BY <1>1, <1>2, StepMoves

\* What a handler does next with a socket it has still to come by.
Sends(h, c) ==
  LET rest == [h EXCEPT !.todo = @ \ {c}] IN
  /\ h.at = "sending" /\ c \in h.todo /\ UNCHANGED <<subs, shut, member>>
  /\ \/ c \in shut /\ crashed' = TRUE /\ UNCHANGED <<handlers, heard, ledTo>>
     \/ /\ c \notin shut
        /\ heard' = [heard EXCEPT ![c] = h.message]
        /\ handlers' = (handlers \ {h}) \cup IF rest.todo = {} THEN {} ELSE {rest}
        /\ ledTo' = IF h.message > heard[c] THEN ledTo ELSE ledTo \cup {"disorder"}
        /\ UNCHANGED crashed
     \/ /\ c \notin shut
        /\ Becomes(h, [rest EXCEPT !.at = "full", !.socket = c])
        /\ UNCHANGED <<heard, crashed>>

\* A handler that begins, from a queue or on its own.
Begun(h, g) == /\ h \in handlers \/ h.socket = NoSocket
               /\ h.at = "ready" /\ g = [h EXCEPT !.at = "sending", !.todo = member]
               /\ Becomes(h, g) /\ UNCHANGED <<heard, shut, member, crashed>>

\* What the broker does, handler by handler.
LEMMA BrokerDoes ==
  ASSUME HubInv, BrokerStep
  PROVE  /\ UNCHANGED <<registerQ, unregisterQ, redisUp, published>>
         /\ \/ \E h \in Handler : \E g \in Handler : Begun(h, g)
            \/ \E h \in handlers : \/ \E c \in h.todo : Sends(h, c)
                                   \/ CloseSend(h) \/ DropClient(h)
<1>1. /\ UNCHANGED <<registerQ, unregisterQ, redisUp, published>>
      /\ handlers \subseteq Handler /\ subs \in Seq(Sub) /\ member \subseteq Proc
  BY DEF BrokerStep, HubInv, HubTypeOK, Sub
<1>2. ASSUME NEW h \in Handler PROVE [h EXCEPT !.at = "sending", !.todo = member] \in Handler
  BY <1>1 DEF Handler
<1>3. ASSUME NEW i \in DOMAIN subs, Take(i) PROVE \E h \in Handler : \E g \in Handler : Begun(h, g)
  <2> DEFINE h == Ready(i, Head(subs[i].queue))
  <2>1. subs[i] \in Sub /\ i \in Nat /\ subs[i].queue # <<>>
    BY <1>1, <1>3 DEF Take
  <2>2. Head(subs[i].queue) \in Nat
    BY <2>1 DEF Sub
  <2>3. h \in Handler /\ h.at = "ready" /\ h.socket = NoSocket
    BY <2>1, <2>2 DEF Ready, Handler
  <2>4. /\ Becomes(h, [h EXCEPT !.at = "sending", !.todo = member])
        /\ UNCHANGED <<heard, shut, member, crashed>>
    BY <1>3 DEF Take
  <2> HIDE DEF h
  <2> QED BY <1>2, <2>3, <2>4 DEF Begun
<1>4. ASSUME NEW h \in handlers, StartSending(h) PROVE \E g \in Handler : Begun(h, g)
  BY <1>1, <1>2, <1>4 DEF StartSending, Begun
<1>5. ASSUME NEW h \in handlers, Send(h) PROVE \E c \in h.todo : Sends(h, c)
  BY <1>5 DEF Send, Sends
<1> QED BY <1>1, <1>3, <1>4, <1>5 DEF BrokerStep

\* If not two handlers are at work after a step, they were not before it.
LEMMA OneAtWork ==
  ASSUME NEW h, NEW g, Becomes(h, g), IsFiniteSet(handlers'), "twoReaders" \notin ledTo'
  PROVE  "twoReaders" \notin ledTo /\ \A x, y \in Sending' : x = y
<1>1. IsFiniteSet(Sending')
  BY FS_Subset DEF Sending
<1>2. ~(Cardinality(Sending') > 1) /\ "twoReaders" \notin ledTo
  BY DEF Becomes, Sending
<1> SUFFICES ASSUME NEW x \in Sending', NEW y \in Sending', x # y PROVE FALSE
  BY <1>2
<1>3. IsFiniteSet({x}) /\ Cardinality({x}) = 1
  BY FS_Singleton
<1>4. IsFiniteSet({x} \cup {y}) /\ Cardinality({x} \cup {y}) = Cardinality({x}) + 1
  BY <1>3, FS_AddElement
<1>5. Cardinality({x} \cup {y}) <= Cardinality(Sending')
  <2>1. {x} \cup {y} \subseteq Sending'
    OBVIOUS
  <2> QED BY <1>1, <2>1, FS_Subset
<1>6. Cardinality(Sending') \in Nat
  BY <1>1, FS_CardinalityType
<1> QED BY <1>2, <1>3, <1>4, <1>5, <1>6

\* What is not yet in the maps, and comes into them only from the queue.
LEMMA QueueKeeps ==
  ASSUME QueueInv, Sockets \subseteq Sockets', registerQ' = registerQ, Entered' \subseteq Entered
  PROVE  QueueInv'
BY DEF QueueInv

\* A handler comes by the sockets that are in the maps.
LEMMA HandlersHold == Spec => []HandlerInv
<1>1. Init => HandlerInv
  BY DEF Init, HubInit, HandlerInv
<1>2. CallInv /\ TalkInv /\ HubInv /\ HandlerInv /\ [Next]_vars => HandlerInv'
  <2> SUFFICES ASSUME CallInv, TalkInv, HubInv, HandlerInv, [Next]_vars PROVE HandlerInv'
    OBVIOUS
  <2>1. CASE Aside
    BY <2>1 DEF Aside, hubVars, HandlerInv
  <2>2. ASSUME UNCHANGED <<handlers, member>> PROVE HandlerInv'
    BY <2>2 DEF HandlerInv
  <2>3. ASSUME Locked, UNCHANGED handlers PROVE HandlerInv'
    BY <2>3 DEF Locked, Sending, HandlerInv
  <2>4. ASSUME Grows, member \subseteq member' PROVE HandlerInv'
    BY <2>4 DEF Grows, HandlerInv
  <2>5. ASSUME NEW h, NEW g, Becomes(h, g), g.todo \subseteq member, member' = member,
               g.at # "ready"
        PROVE  HandlerInv'
    <3>1. handlers' \subseteq handlers \cup {g}
      BY <2>5 DEF Becomes
    <3> QED BY <2>5, <3>1 DEF HandlerInv
  <2>6. CASE BrokerStep
    <3>1. ASSUME NEW h \in Handler, NEW g \in Handler, Begun(h, g) PROVE HandlerInv'
      <4>1. g.todo = member /\ g.at = "sending"
        BY <3>1 DEF Begun, Handler
      <4> QED BY <2>5, <3>1, <4>1 DEF Begun
    <3>2. ASSUME NEW h \in handlers, NEW c \in h.todo, Sends(h, c) PROVE HandlerInv'
      <4> DEFINE rest == [h EXCEPT !.todo = @ \ {c}]
                 full == [rest EXCEPT !.at = "full", !.socket = c]
      <4>1. h \in Handler /\ h.todo \subseteq member /\ h.at = "sending" /\ UNCHANGED member
        BY <3>2 DEF HubInv, HandlerInv, Sends
      <4>2. /\ rest.todo \subseteq member /\ full.todo \subseteq member
            /\ rest.at = "sending" /\ full.at = "full"
        BY <4>1 DEF Handler
      <4>3. UNCHANGED handlers \/ handlers' \subseteq handlers \cup {rest} \/ Becomes(h, full)
        BY <3>2 DEF Sends
      <4> HIDE DEF rest, full
      <4>4. CASE handlers' \subseteq handlers \cup {rest}
        BY <4>1, <4>2, <4>4 DEF HandlerInv
      <4> QED BY <2>2, <2>5, <4>1, <4>2, <4>3, <4>4
    <3>3. ASSUME NEW h \in handlers, CloseSend(h) PROVE HandlerInv'
      <4> DEFINE g == [h EXCEPT !.at = "shut"]
      <4>1. h \in Handler /\ h.todo \subseteq member /\ UNCHANGED member /\ Becomes(h, g)
        BY <3>3 DEF HubInv, HandlerInv, CloseSend
      <4>2. g.todo \subseteq member /\ g.at = "shut"
        BY <4>1 DEF Handler
      <4> HIDE DEF g
      <4> QED BY <2>5, <4>1, <4>2
    <3>4. ASSUME NEW h \in handlers, DropClient(h) PROVE HandlerInv'
      <4> DEFINE S == (handlers \ {h}) \cup {[h EXCEPT !.at = "sending", !.socket = NoSocket]}
      <4>1. \A k \in S : k \in Handler /\ k.todo \subseteq member /\ (k.at = "ready" => k.todo = {})
        BY DEF HubInv, HandlerInv, Handler
      <4>2. \A k \in handlers' : \E g \in S : k = [g EXCEPT !.todo = @ \ {h.socket}]
        BY <3>4 DEF DropClient
      <4>3. \A k \in handlers' : \E g \in S : k.todo = g.todo \ {h.socket} /\ k.at = g.at
        BY <4>1, <4>2 DEF Handler
      <4>4. member' = member \ {h.socket}
        BY <3>4 DEF DropClient
      <4> HIDE DEF S
      <4> QED BY <4>1, <4>3, <4>4 DEF HandlerInv
    <3> QED BY <2>6, <3>1, <3>2, <3>3, <3>4, BrokerDoes
  <2>7. ASSUME NEW p \in Proc, NewClient(p) \/ ReadPumpEnds(p) \/ RedisHealth(p)
        PROVE  UNCHANGED <<handlers, member>>
    BY <2>7 DEF NewClient, ReadPumpEnds, RedisHealth
  <2>8. CASE ChatStep
    <3>1. CASE Talks
      BY <2>4, <3>1, TalkGrows DEF Talks
    <3>2. CASE Clears
      BY <2>3, <3>2 DEF Clears
    <3> QED BY <2>2, <2>3, <2>4, <2>6, <2>7, <2>8, <3>1, <3>2, ChatDoes, RegisterGrows, UnregisterDoes
  <2> QED BY <2>1, <2>8, ChatOrAside
<1> QED BY <1>1, <1>2, CallsHold, TalkHolds, HubHolds, PTL DEF Spec

\* A socket enters the maps once, from the queue.
LEMMA QueuesHold == Spec => []QueueInv
<1>1. Init => QueueInv
  BY DEF Init, HubInit, QueueInv, Entered
<1>2. CallInv /\ TalkInv /\ HubInv /\ HandlerInv /\ QueueInv /\ [Next]_vars => QueueInv'
  <2> SUFFICES ASSUME CallInv, TalkInv, HubInv, HandlerInv, QueueInv, [Next]_vars PROVE QueueInv'
    OBVIOUS
  <2>1. Sockets \subseteq Sockets'
    BY SocketsStay
  <2>2. ASSUME UNCHANGED <<registerQ, shut>>, member' \subseteq member, Grows \/ handlers' \subseteq handlers
        PROVE  QueueInv'
    <3>1. Entered' \subseteq Entered
      BY <2>2 DEF Entered, Grows
    <3> QED BY <2>1, <2>2, <3>1, QueueKeeps
  <2>3. registerQ \in Seq(Proc) /\ member \subseteq Proc /\ NoSocket \notin Proc /\ handlers \subseteq Handler
    BY HubAssumption DEF HubInv, HubTypeOK
  <2>4. CASE Aside
    BY <2>2, <2>4 DEF Aside, hubVars
  <2>5. CASE HubRegister
    <3> DEFINE c == Head(registerQ)
    <3>1. c = registerQ[1] /\ c \in Proc /\ Len(registerQ) >= 1
      BY <2>3, <2>5, RegisterGrows
    <3>2. c \in Sockets
      BY <2>3, <3>1 DEF QueueInv
    <3>3. Entered' \subseteq Entered \cup {c}
      BY <2>5, RegisterGrows DEF Entered, Grows
    <3>4. ASSUME NEW i \in DOMAIN registerQ'
          PROVE  i + 1 \in DOMAIN registerQ /\ i \in Nat /\ registerQ'[i] = registerQ[i + 1]
      BY <2>3, <2>5, <3>1, <3>4, RegisterGrows
    <3>5. ASSUME NEW i \in DOMAIN registerQ' PROVE registerQ'[i] \in Sockets' \ Entered'
      <4>1. i + 1 \in DOMAIN registerQ /\ 1 \in DOMAIN registerQ /\ i + 1 # 1 /\ registerQ'[i] = registerQ[i + 1]
        BY <2>3, <3>1, <3>4
      <4>2. registerQ[i + 1] # c
        BY <3>1, <4>1 DEF QueueInv
      <4> QED BY <2>1, <3>3, <4>1, <4>2 DEF QueueInv
    <3>6. ASSUME NEW i \in DOMAIN registerQ', NEW j \in DOMAIN registerQ', registerQ'[i] = registerQ'[j]
          PROVE  i = j
      <4>1. i + 1 = j + 1 /\ i \in Nat /\ j \in Nat
        BY <3>4, <3>6 DEF QueueInv
      <4> QED BY <4>1
    <3>7. Entered' \subseteq Sockets'
      BY <2>1, <3>2, <3>3 DEF QueueInv
    <3> QED BY <3>5, <3>6, <3>7 DEF QueueInv
  <2>6. ASSUME NEW p \in Proc, NewClient(p) PROVE QueueInv'
    <3>1. /\ fate[p] = "new" /\ job[p].kind = "chatWS" /\ registerQ' = Append(registerQ, p)
          /\ UNCHANGED <<member, shut, handlers>>
      BY <2>6 DEF NewClient, Asked
    <3>2. p \in Sockets'
      <4>1. Moves(p) \/ Slips(p)
        BY <2>6, ChatCallMoves
      <4> QED BY <3>1, <4>1, MoveIsOwn DEF RestOf, Sockets
    <3>3. p \notin Sockets /\ Entered' = Entered
      BY <3>1 DEF Sockets, Entered
    <3>4. ASSUME NEW i \in DOMAIN registerQ'
          PROVE  \/ i \in DOMAIN registerQ /\ registerQ'[i] = registerQ[i]
                 \/ i = Len(registerQ) + 1 /\ registerQ'[i] = p
      BY <2>3, <3>1, <3>4
    <3>5. \A i \in DOMAIN registerQ' : registerQ'[i] \in Sockets' \ Entered'
      BY <2>1, <3>2, <3>3, <3>4 DEF QueueInv
    <3>6. \A i, j \in DOMAIN registerQ' : registerQ'[i] = registerQ'[j] => i = j
      BY <3>3, <3>4 DEF QueueInv
    <3> QED BY <2>1, <3>3, <3>5, <3>6 DEF QueueInv
  <2>7. ASSUME NEW p \in Proc, ReadPumpEnds(p) \/ RedisHealth(p) PROVE QueueInv'
    <3>1. UNCHANGED <<registerQ, shut, member, handlers>>
      BY <2>7 DEF ReadPumpEnds, RedisHealth
    <3> QED BY <2>2, <3>1
  <2>8. CASE HubUnregister
    <3>1. Entered' \subseteq Entered /\ registerQ' = registerQ
      BY <2>8, UnregisterDoes DEF Entered
    <3> QED BY <2>1, <3>1, QueueKeeps
  <2>9. CASE BrokerStep
    <3>1. registerQ' = registerQ
      BY <2>9, BrokerDoes
    <3>2. ASSUME member' \subseteq member, shut' \subseteq shut \cup (Entered \cup {NoSocket}),
                 \A k \in handlers' : k.socket \in Entered \cup {NoSocket}
          PROVE  QueueInv'
      <4>1. Entered' \subseteq Entered
        <5>1. member' \subseteq Entered /\ shut' \subseteq Entered \cup {NoSocket}
          BY <2>3, <3>2 DEF Entered
        <5> QED BY <3>2, <5>1 DEF Entered
      <4> QED BY <2>1, <3>1, <4>1, QueueKeeps
    <3>3. \A k \in handlers : k.socket \in Entered \cup {NoSocket}
      BY DEF Entered
    <3>4. ASSUME NEW h \in Handler, NEW g \in Handler, Begun(h, g), handlers' \subseteq handlers \cup {g},
                 h.socket \in Entered \cup {NoSocket}
          PROVE  QueueInv'
      <4>1. g.socket = h.socket /\ UNCHANGED <<member, shut>>
        BY <3>4 DEF Begun, Handler
      <4> QED BY <3>2, <3>3, <3>4, <4>1
    <3>5. ASSUME NEW h \in handlers, NEW c \in h.todo, Sends(h, c) PROVE QueueInv'
      <4> DEFINE rest == [h EXCEPT !.todo = @ \ {c}]
                 full == [rest EXCEPT !.at = "full", !.socket = c]
      <4>1. h \in Handler /\ h.socket \in Entered \cup {NoSocket} /\ c \in member /\ UNCHANGED <<member, shut>>
        BY <3>3, <3>5 DEF HubInv, HandlerInv, Sends
      <4>2. rest.socket = h.socket /\ full.socket = c
        BY <4>1 DEF Handler
      <4>3. handlers' \subseteq handlers \cup {rest, full}
        BY <3>5 DEF Sends, Becomes
      <4> HIDE DEF rest, full
      <4>4. c \in Entered \cup {NoSocket}
        BY <4>1 DEF Entered
      <4> QED BY <3>2, <3>3, <4>1, <4>2, <4>3, <4>4
    <3>6. ASSUME NEW h \in handlers, CloseSend(h) PROVE QueueInv'
      <4> DEFINE g == [h EXCEPT !.at = "shut"]
      <4>1. /\ h \in Handler /\ h.socket \in Entered \cup {NoSocket} /\ UNCHANGED member
            /\ shut' = shut \cup {h.socket} /\ Becomes(h, g)
        BY <3>3, <3>6 DEF HubInv, CloseSend
      <4>2. g.socket = h.socket
        BY <4>1 DEF Handler
      <4>3. handlers' \subseteq handlers \cup {g}
        BY <4>1 DEF Becomes
      <4> HIDE DEF g
      <4> QED BY <3>2, <3>3, <4>1, <4>2, <4>3
    <3>7. ASSUME NEW h \in handlers, DropClient(h) PROVE QueueInv'
      <4> DEFINE S == (handlers \ {h}) \cup {[h EXCEPT !.at = "sending", !.socket = NoSocket]}
      <4>1. \A k \in S : k \in Handler /\ k.socket \in Entered \cup {NoSocket}
        BY <3>3 DEF HubInv, Handler
      <4>2. \A k \in handlers' : \E g \in S : k = [g EXCEPT !.todo = @ \ {h.socket}]
        BY <3>7 DEF DropClient
      <4>3. \A k \in handlers' : \E g \in S : k.socket = g.socket
        BY <4>1, <4>2 DEF Handler
      <4>4. member' \subseteq member /\ shut' = shut
        BY <3>7 DEF DropClient
      <4> HIDE DEF S
      <4> QED BY <3>2, <4>1, <4>3, <4>4
    <3>8. ASSUME NEW h \in Handler, NEW g \in Handler, Begun(h, g)
          PROVE  handlers' \subseteq handlers \cup {g} /\ h.socket \in Entered \cup {NoSocket}
      BY <3>3, <3>8 DEF Begun, Becomes
    <3> QED BY <2>9, <3>4, <3>5, <3>6, <3>7, <3>8, BrokerDoes
  <2>10. CASE ChatStep
    <3>1. CASE Talks
      BY <2>2, <3>1, TalkGrows DEF Talks
    <3>2. CASE Clears
      BY <2>2, <3>2 DEF Clears
    <3> QED BY <2>5, <2>6, <2>7, <2>8, <2>9, <2>10, <3>1, <3>2, ChatDoes
  <2> QED BY <2>4, <2>10, ChatOrAside
<1> QED BY <1>1, <1>2, CallsHold, TalkHolds, HubHolds, HandlersHold, PTL DEF Spec

\* While no two are at work, the channels in the maps are open but for one that
\* is on its way out, and nothing panics.
LEMMA ReadersHold == Spec => []ReaderInv
<1>1. Init => ReaderInv
  BY DEF Init, HubInit, ReaderInv, OneReader, Sending
<1>2. CallInv /\ TalkInv /\ HubInv /\ HubInv' /\ HandlerInv /\ QueueInv /\ ReaderInv /\ [Next]_vars => ReaderInv'
  <2> SUFFICES ASSUME CallInv, TalkInv, HubInv, HubInv', HandlerInv, QueueInv, ReaderInv, [Next]_vars,
                      "twoReaders" \notin ledTo'
               PROVE  OneReader'
    BY DEF ReaderInv
  <2>1. ASSUME UNCHANGED <<handlers, crashed, ledTo, member, shut>> PROVE OneReader'
    BY <2>1 DEF ReaderInv, OneReader, Sending
  <2>2. ASSUME "twoReaders" \notin ledTo, Locked PROVE member \cap shut = {} /\ ~crashed
    BY <2>2 DEF ReaderInv, OneReader, Locked, Sending
  <2>3. ASSUME Grows \/ handlers' = handlers, Locked, member' \cap shut' = {}, ~crashed' PROVE OneReader'
    BY <2>3 DEF OneReader, Locked, Sending, Grows
  <2>4. CASE Aside
    BY <2>1, <2>4 DEF Aside, hubVars
  <2>5. ASSUME NEW p \in Proc, NewClient(p) \/ ReadPumpEnds(p) \/ RedisHealth(p) PROVE OneReader'
    BY <2>1, <2>5 DEF NewClient, ReadPumpEnds, RedisHealth
  <2>6. CASE Talks
    <3>1. Grows /\ UNCHANGED <<member, shut>>
      BY <2>6, TalkGrows DEF Talks
    <3>2. CASE Untroubled
      BY <3>1, <3>2 DEF ReaderInv, OneReader, Sending, Grows, Untroubled
    <3>3. ASSUME NEW u \in Chatter, PrivateError(u) PROVE OneReader'
      BY <2>2, <2>3, <3>1, <3>3 DEF PrivateError
    <3> QED BY <2>6, <3>2, <3>3 DEF Talks
  <2>7. CASE Clears
    BY <2>2, <2>3, <2>7 DEF Clears
  <2>8. CASE HubRegister
    <3>1. Head(registerQ) \in Sockets \ Entered /\ NoSocket \notin Proc
      <4>1. registerQ # <<>> /\ registerQ \in Seq(Proc)
        BY <2>8, RegisterGrows DEF HubInv, HubTypeOK
      <4> QED BY <4>1, HubAssumption DEF QueueInv
    <3>2. Head(registerQ) \notin shut
      BY <3>1 DEF Entered, Sockets
    <3> QED BY <2>2, <2>3, <2>8, <3>2, RegisterGrows
  <2>9. CASE HubUnregister
    BY <2>2, <2>3, <2>9, UnregisterDoes
  <2>10. ASSUME NEW h, NEW g, Becomes(h, g)
         PROVE  /\ "twoReaders" \notin ledTo /\ (\A x, y \in Sending' : x = y)
                /\ handlers' \subseteq (handlers \ {h}) \cup {g}
                /\ handlers \ {h} \subseteq handlers'
                /\ (g.at # "sending" => g \in handlers')
    <3>1. "twoReaders" \notin ledTo /\ \A x, y \in Sending' : x = y
      BY <2>10, OneAtWork DEF HubInv
    <3> QED BY <2>10, <3>1 DEF Becomes
  <2>11. CASE BrokerStep
    <3>1. ASSUME NEW h \in Handler, NEW g \in Handler, Begun(h, g) PROVE OneReader'
      <4>1. /\ h.at = "ready" /\ g.at = "sending" /\ Becomes(h, g) /\ UNCHANGED <<shut, member, crashed>>
        BY <3>1 DEF Begun, Handler
      <4>2. /\ "twoReaders" \notin ledTo /\ (\A x, y \in Sending' : x = y)
            /\ handlers' \subseteq (handlers \ {h}) \cup {g} /\ handlers \ {h} \subseteq handlers'
        BY <2>10, <4>1
      <4> QED BY <4>1, <4>2 DEF ReaderInv, OneReader
    <3> DEFINE Alone(h) == /\ "twoReaders" \notin ledTo /\ ~crashed
                           /\ \A k \in handlers \ {h} : k.at = "ready"
                           /\ member \cap shut \subseteq IF h.at = "shut" THEN {h.socket} ELSE {}
                           /\ h.at \in {"full", "shut"} => h.socket \in member
                           /\ h.at = "full" => h.socket \notin shut
    <3>2. ASSUME NEW h \in handlers, h.at # "ready", "twoReaders" \notin ledTo PROVE Alone(h)
      BY <3>2 DEF ReaderInv, OneReader, Sending
    <3>3. ASSUME NEW h \in handlers, NEW c \in h.todo, Sends(h, c) PROVE OneReader'
      <4> DEFINE rest == [h EXCEPT !.todo = @ \ {c}]
                 full == [rest EXCEPT !.at = "full", !.socket = c]
      <4>1. h \in Handler /\ h.at = "sending" /\ c \in member /\ UNCHANGED <<member, shut>>
        BY <3>3 DEF HubInv, HandlerInv, Sends
      <4>2. rest.at = "sending" /\ full.at = "full" /\ full.socket = c
        BY <4>1 DEF Handler
      <4>3. \/ c \in shut /\ ledTo' = ledTo
            \/ handlers' \subseteq (handlers \ {h}) \cup {rest} /\ ledTo \subseteq ledTo' /\ crashed' = crashed
            \/ c \notin shut /\ Becomes(h, full) /\ crashed' = crashed
        BY <3>3 DEF Sends
      <4> HIDE DEF rest, full
      <4>4. Alone(h) /\ c \notin shut
        BY <2>10, <3>2, <4>1, <4>3
      <4>5. CASE handlers' \subseteq (handlers \ {h}) \cup {rest} /\ crashed' = crashed
        BY <4>1, <4>2, <4>4, <4>5 DEF OneReader, Sending
      <4>6. CASE Becomes(h, full) /\ crashed' = crashed
        BY <2>10, <4>1, <4>2, <4>4, <4>6 DEF OneReader
      <4> QED BY <4>3, <4>4, <4>5, <4>6
    <3>4. ASSUME NEW h \in handlers, CloseSend(h) PROVE OneReader'
      <4> DEFINE g == [h EXCEPT !.at = "shut"]
      <4>1. /\ h \in Handler /\ h.at = "full" /\ UNCHANGED member /\ Becomes(h, g)
            /\ shut' = shut \cup {h.socket} /\ crashed' = (h.socket \in shut)
        BY <3>4 DEF HubInv, CloseSend
      <4>2. g.socket = h.socket /\ g.at = "shut"
        BY <4>1 DEF Handler
      <4> HIDE DEF g
      <4>3. Alone(h)
        BY <2>10, <3>2, <4>1
      <4>4. /\ (\A x, y \in Sending' : x = y) /\ g \in handlers'
            /\ handlers' \subseteq (handlers \ {h}) \cup {g}
        BY <2>10, <4>1, <4>2
      <4>5. ~crashed' /\ member' \cap shut' = {h.socket}
        BY <4>1, <4>3
      <4>6. \A k \in handlers' : k.at = "ready" \/ k = g
        BY <4>3, <4>4
      <4> HIDE DEF Alone
      <4>7. h.socket \in member'
        BY <4>5
      <4> QED BY <4>2, <4>4, <4>5, <4>6, <4>7 DEF OneReader
    <3>5. ASSUME NEW h \in handlers, DropClient(h) PROVE OneReader'
      <4> DEFINE w == [h EXCEPT !.at = "sending", !.socket = NoSocket]
                 S == (handlers \ {h}) \cup {w}
      <4>1. /\ h \in Handler /\ h.at = "shut" /\ member' = member \ {h.socket} /\ UNCHANGED <<shut, ledTo>>
            /\ Sending = {h} => crashed' = FALSE
        BY <3>5 DEF HubInv, DropClient
      <4>2. Alone(h)
        BY <3>2, <4>1
      <4>3. Sending = {h}
        BY <4>1, <4>2 DEF Sending
      <4>4. w \in Handler /\ w.at = "sending" /\ \A k \in handlers \ {h} : k \in Handler /\ k.at = "ready"
        BY <4>1, <4>2 DEF Handler, HubInv
      <4>5. \A k \in handlers' : \E g \in S : k = [g EXCEPT !.todo = @ \ {h.socket}]
        BY <3>5 DEF DropClient
      <4> HIDE DEF w
      <4>6. \A k \in handlers' : k.at = "ready" \/ (k.at = "sending" /\ k = [w EXCEPT !.todo = @ \ {h.socket}])
        BY <4>4, <4>5 DEF Handler
      <4> QED BY <4>1, <4>2, <4>3, <4>6 DEF OneReader, Sending
    <3> QED BY <2>11, <3>1, <3>3, <3>4, <3>5, BrokerDoes
  <2>12. CASE ChatStep
    BY <2>5, <2>6, <2>7, <2>8, <2>9, <2>11, <2>12, ChatDoes
  <2> QED BY <2>4, <2>12, ChatOrAside
<1> QED BY <1>1, <1>2, CallsHold, TalkHolds, HubHolds, HandlersHold, QueuesHold, PTL DEF Spec

-----------------------------------------------------------------------------
(***************************************************************************)
(* While Redis answers and a room is opened once, it has one subscription, *)
(* whose messages wait in the order of their numbers behind the one that   *)
(* is handled, which is behind what each socket has heard.                 *)
(***************************************************************************)
Rises(q, n) == /\ \A k \in DOMAIN q : q[k] <= n
               /\ \A k, j \in DOMAIN q : k < j => q[k] < q[j]
Beyond(q, n) == \A k \in DOMAIN q : n < q[k]

Ordered(q) == /\ Rises(q, published.n)
              /\ \A c \in Proc : Beyond(q, heard[c])
              /\ \A h \in handlers : Beyond(q, h.message)

OneSub(ss) == Len(ss) <= 1 /\ \A i \in DOMAIN ss : ss[i].redis /\ Ordered(ss[i].queue)

AheadOf(h) == /\ h.sub = 1 /\ h.at # "ready" /\ h.message <= published.n
              /\ \A c \in Proc : heard[c] <= h.message /\ (c \in h.todo => heard[c] < h.message)

InOrder == /\ OneSub(subs)
           /\ \A h \in handlers : AheadOf(h)
           /\ \A h, g \in handlers : h = g
           /\ \A c \in Proc : heard[c] <= published.n
           /\ "disorder" \notin ledTo

OrderInv == Kind("redisDown") = {} => redisUp /\ ("reopened" \notin ledTo => InOrder)

\* A number that is added is beyond all others.
LEMMA AppendRises ==
  ASSUME NEW q \in Seq(Nat), NEW n \in Nat, Rises(q, n)
  PROVE  /\ Append(q, n + 1) \in Seq(Nat) /\ Rises(Append(q, n + 1), n + 1) /\ Rises(q, n + 1)
         /\ \A m \in Nat : m <= n /\ Beyond(q, m) => Beyond(Append(q, n + 1), m)
<1> DEFINE r == Append(q, n + 1)
<1>1. r \in Seq(Nat) /\ Len(r) = Len(q) + 1 /\ \A k \in 1..Len(q) : r[k] = q[k] /\ q[k] \in Nat
  OBVIOUS
<1>2. r[Len(q) + 1] = n + 1 /\ DOMAIN r = 1..(Len(q) + 1) /\ DOMAIN q = 1..Len(q) /\ Len(q) \in Nat
  OBVIOUS
<1> HIDE DEF r
<1>5. \A k \in DOMAIN r : (k \in DOMAIN q /\ r[k] = q[k] /\ k < Len(q) + 1) \/ (k = Len(q) + 1 /\ r[k] = n + 1)
  BY <1>1, <1>2
<1>6. \A k \in DOMAIN q : q[k] \in Nat /\ q[k] <= n /\ q[k] < n + 1
  BY <1>1, <1>2 DEF Rises
<1>7. \A k \in DOMAIN r : r[k] <= n + 1
  BY <1>5, <1>6
<1>8. ASSUME NEW k \in DOMAIN r, NEW j \in DOMAIN r, k < j PROVE r[k] < r[j]
  <2>1. CASE j \in DOMAIN q /\ r[j] = q[j] /\ j < Len(q) + 1
    <3>1. k \in DOMAIN q /\ r[k] = q[k]
      BY <1>2, <1>5, <1>8, <2>1
    <3> QED BY <1>8, <2>1, <3>1 DEF Rises
  <2>2. CASE j = Len(q) + 1 /\ r[j] = n + 1
    <3>1. k \in DOMAIN q /\ r[k] = q[k]
      BY <1>2, <1>5, <1>8, <2>2
    <3> QED BY <1>6, <2>2, <3>1
  <2> QED BY <1>5, <2>1, <2>2
<1>3. Rises(r, n + 1) /\ Rises(q, n + 1)
  BY <1>6, <1>7, <1>8 DEF Rises
<1>4. ASSUME NEW m \in Nat, m <= n, Beyond(q, m)
      PROVE  Beyond(r, m)
  <2>1. ASSUME NEW k \in DOMAIN r PROVE m < r[k]
    <3>1. CASE k \in DOMAIN q /\ r[k] = q[k]
      BY <1>4, <3>1 DEF Beyond
    <3>2. CASE r[k] = n + 1
      BY <1>4, <3>2
    <3> QED BY <1>5, <3>1, <3>2
  <2> QED BY <2>1 DEF Beyond
<1> QED BY <1>1, <1>3, <1>4 DEF r

\* The others are beyond the first.
LEMMA TailRises ==
  ASSUME NEW q \in Seq(Nat), q # <<>>, NEW n \in Nat, Rises(q, n)
  PROVE  /\ Tail(q) \in Seq(Nat) /\ Rises(Tail(q), n) /\ Beyond(Tail(q), Head(q))
         /\ Head(q) \in Nat /\ Head(q) <= n
         /\ \A m \in Nat : Beyond(q, m) => m < Head(q) /\ Beyond(Tail(q), m)
<1> DEFINE r == Tail(q)
<1>1. /\ r \in Seq(Nat) /\ DOMAIN r = 1..(Len(q) - 1) /\ DOMAIN q = 1..Len(q) /\ Len(q) \in Nat \ {0}
      /\ \A k \in 1..(Len(q) - 1) : r[k] = q[k + 1] /\ q[k + 1] \in Nat
      /\ Head(q) = q[1] /\ q[1] \in Nat
  OBVIOUS
<1> HIDE DEF r
<1>4. ASSUME NEW k \in DOMAIN r
      PROVE  /\ k \in Nat /\ k + 1 \in DOMAIN q /\ 1 \in DOMAIN q /\ 1 < k + 1 /\ r[k] = q[k + 1]
             /\ r[k] \in Nat
  <2>1. k \in 1..(Len(q) - 1) /\ Len(q) \in Nat \ {0}
    BY <1>1
  <2>2. k \in Nat /\ 1 < k + 1 /\ k + 1 \in 1..Len(q) /\ 1 \in 1..Len(q)
    BY <2>1
  <2>3. r[k] = q[k + 1] /\ q[k + 1] \in Nat
    BY <1>1, <2>1
  <2> QED BY <1>1, <2>2, <2>3
<1>5. 1 \in DOMAIN q
  BY <1>1
<1>6. Head(q) = q[1]
  BY <1>1
<1>7. ASSUME NEW k \in DOMAIN r, NEW j \in DOMAIN r, k < j PROVE r[k] < r[j]
  <2>1. k + 1 < j + 1
    BY <1>4, <1>7
  <2> QED BY <1>4, <2>1 DEF Rises
<1>8. \A k \in DOMAIN r : r[k] <= n /\ q[1] < r[k]
  BY <1>4 DEF Rises
<1>2. Rises(r, n) /\ Beyond(r, Head(q)) /\ Head(q) <= n
  BY <1>5, <1>6, <1>7, <1>8 DEF Rises, Beyond
<1>3. \A m \in Nat : Beyond(q, m) => m < Head(q) /\ Beyond(r, m)
  BY <1>4, <1>5, <1>6 DEF Beyond
<1> QED BY <1>1, <1>2, <1>3 DEF r

\* A message that is published comes last.
LEMMA DeliveredLast ==
  ASSUME HubInv, InOrder, NEW ss \in Seq(Sub), OneSub(ss),
         Len(subs') = Len(ss), subs' \in Seq(Sub), published'.n = published.n + 1, UNCHANGED <<handlers, heard>>,
         \A i \in DOMAIN ss : /\ subs'[i].redis = ss[i].redis
                              /\ subs'[i].queue \in {ss[i].queue, Append(ss[i].queue, published.n + 1)},
         "disorder" \notin ledTo'
  PROVE  InOrder'
<1>1. /\ published.n \in Nat /\ heard \in [Proc -> Nat] /\ \A h \in handlers : h.message \in Nat
      /\ published'.n = published.n + 1
  BY DEF HubInv, HubTypeOK
<1>2. \A c \in Proc : heard'[c] <= published'.n
  BY <1>1 DEF InOrder
<1>3. \A h \in handlers' : AheadOf(h)'
  BY <1>1 DEF InOrder, AheadOf
<1>4. ASSUME NEW i \in DOMAIN subs' PROVE (subs[i].redis /\ Ordered(subs[i].queue))'
  <2> DEFINE q == ss[i].queue
             n == published.n
  <2>1. /\ i \in DOMAIN ss /\ q \in Seq(Nat) /\ ss[i].redis /\ Ordered(q)
    <3>1. i \in DOMAIN ss
      BY <1>4
    <3>2. ss[i] \in Sub
      BY <3>1
    <3> QED BY <3>1, <3>2 DEF OneSub, Sub
  <2>2. Rises(q, n) /\ (\A c \in Proc : Beyond(q, heard[c])) /\ \A h \in handlers : Beyond(q, h.message)
    BY <2>1 DEF Ordered
  <2>3. (\A c \in Proc : heard[c] \in Nat /\ heard[c] <= n) /\ \A h \in handlers : h.message \in Nat /\ h.message <= n
    BY <1>1 DEF InOrder, AheadOf
  <2>4. subs'[i].redis /\ subs'[i].queue \in {q, Append(q, n + 1)}
    BY <2>1
  <2> HIDE DEF q
  <2>5. \A r \in {q, Append(q, n + 1)} :
          /\ Rises(r, n + 1) /\ (\A c \in Proc : Beyond(r, heard[c])) /\ \A h \in handlers : Beyond(r, h.message)
    <3> DEFINE r == Append(q, n + 1)
    <3>1. /\ Rises(r, n + 1) /\ Rises(q, n + 1)
          /\ \A m \in Nat : m <= n /\ Beyond(q, m) => Beyond(r, m)
      BY <1>1, <2>1, <2>2, AppendRises
    <3> HIDE DEF r
    <3>2. (\A c \in Proc : Beyond(r, heard[c])) /\ \A h \in handlers : Beyond(r, h.message)
      BY <2>2, <2>3, <3>1
    <3>3. q = q /\ Append(q, n + 1) = r
      BY DEF r
    <3> QED BY <2>2, <3>1, <3>2, <3>3
  <2> QED BY <1>1, <2>4, <2>5 DEF Ordered
<1>5. Len(subs') <= 1
  BY DEF OneSub
<1> QED BY <1>2, <1>3, <1>4, <1>5 DEF InOrder, OneSub

\* One handler at most that goes on with its message, which nobody is to hear again.
LEMMA OneGoesOn ==
  ASSUME InOrder, NEW h \in handlers, UNCHANGED <<subs, published, heard>>, "disorder" \notin ledTo',
         \A k, g \in handlers' : k = g,
         \A k \in handlers' : /\ k.sub = h.sub /\ k.at # "ready" /\ k.message = h.message
                              /\ k.todo \subseteq h.todo
  PROVE  InOrder'
<1>1. \A k \in handlers' : AheadOf(k)'
  BY DEF InOrder, AheadOf
<1>2. \A i \in DOMAIN subs' : (subs[i].redis /\ Ordered(subs[i].queue))'
  BY DEF InOrder, OneSub, Ordered
<1> QED BY <1>1, <1>2 DEF InOrder, OneSub

\* The hub hears in order.
LEMMA OrderHolds == Spec => []OrderInv
<1>1. Init => OrderInv
  <2> SUFFICES ASSUME Init PROVE OrderInv
    OBVIOUS
  <2>1. /\ subs = <<>> /\ handlers = {} /\ published.n = 0 /\ ledTo = {} /\ redisUp /\ heard = [p \in Proc |-> 0]
    BY DEF Init, HubInit
  <2>2. Len(subs) = 0 /\ DOMAIN subs = {}
    BY <2>1
  <2> QED BY <2>1, <2>2 DEF OrderInv, InOrder, OneSub
<1>2. CallInv /\ TalkInv /\ HubInv /\ HubInv' /\ HandlerInv /\ OrderInv /\ [Next]_vars => OrderInv'
  <2> SUFFICES ASSUME CallInv, TalkInv, HubInv, HubInv', HandlerInv, OrderInv, [Next]_vars,
                      Kind("redisDown")' = {}
               PROVE  redisUp' /\ ("reopened" \notin ledTo' => InOrder')
    BY DEF OrderInv
  <2>1. Kind("redisDown") = {}
    <3>1. job' = job
      BY StepMoves, MoveIsOwn DEF RestOf, Rest
    <3> QED BY <3>1 DEF Kind
  <2>2. redisUp /\ ("reopened" \notin ledTo => InOrder)
    BY <2>1 DEF OrderInv
  <2>3. /\ subs \in Seq(Sub) /\ subs' \in Seq(Sub) /\ published \in Message
        /\ heard \in [Proc -> Nat] /\ handlers \subseteq Handler /\ member \subseteq Proc
    BY DEF HubInv, HubTypeOK, Sub, Message
  <2>4. ASSUME UNCHANGED <<redisUp, subs, handlers, published, heard, ledTo>>
        PROVE  redisUp' /\ ("reopened" \notin ledTo' => InOrder')
    BY <2>2, <2>4 DEF InOrder, OneSub, Ordered, AheadOf
  <2>5. CASE Aside
    BY <2>4, <2>5 DEF Aside, hubVars
  <2>6. ASSUME NEW p \in Proc, NewClient(p) \/ ReadPumpEnds(p) \/ RedisHealth(p)
        PROVE  redisUp' /\ ("reopened" \notin ledTo' => InOrder')
    <3>1. ~Asked(p, "redisDown")
      BY <2>1 DEF Kind, Asked
    <3>2. UNCHANGED <<redisUp, subs, handlers, published, heard, ledTo>>
      BY <2>2, <2>6, <3>1 DEF NewClient, ReadPumpEnds, RedisHealth
    <3> QED BY <2>4, <3>2
  <2>7. CASE Clears \/ HubUnregister
    BY <2>4, <2>7, UnregisterDoes DEF Clears
  <2>8. CASE Talks
    <3> SUFFICES ASSUME "reopened" \notin ledTo' PROVE redisUp' /\ InOrder'
      BY <2>2, <2>8 DEF Talks
    <3>1. redisUp' /\ UNCHANGED heard
      BY <2>2, <2>8 DEF Talks
    <3>2. "reopened" \notin ledTo /\ ("disorder" \in ledTo' => "disorder" \in ledTo)
      BY <2>8 DEF Talks, Untroubled, PrivateError
    <3>3. InOrder /\ "disorder" \notin ledTo'
      BY <2>2, <3>2 DEF InOrder
    <3>4. CASE UNCHANGED <<subs, handlers, published>>
      BY <3>1, <3>3, <3>4 DEF InOrder, OneSub, Ordered, AheadOf
    <3>5. ASSUME NEW from, NEW is, Publish(from, is) PROVE InOrder'
      <4>1. /\ UNCHANGED handlers /\ published'.n = published.n + 1
            /\ subs' = [i \in DOMAIN subs |-> IF i \in Reached
                          THEN [subs[i] EXCEPT !.queue = Append(@, published.n + 1)] ELSE subs[i]]
        BY <2>2, <3>5 DEF Publish, Numbered, NextNumber
      <4>2. Len(subs') = Len(subs)
        BY <2>3, <4>1
      <4>3. \A s \in Sub : LET t == [s EXCEPT !.queue = Append(@, published.n + 1)] IN
              t.redis = s.redis /\ t.queue = Append(s.queue, published.n + 1)
        BY DEF Sub
      <4>4. \A i \in DOMAIN subs : /\ subs'[i].redis = subs[i].redis
                                   /\ subs'[i].queue \in {subs[i].queue, Append(subs[i].queue, published.n + 1)}
        BY <2>3, <4>1, <4>3
      <4>5. OneSub(subs)
        BY <3>3 DEF InOrder
      <4> QED BY <2>3, <3>1, <3>3, <4>1, <4>2, <4>4, <4>5, DeliveredLast
    <3> QED BY <2>8, <3>1, <3>4, <3>5 DEF Talks
  <2>9. CASE HubRegister
    <3> SUFFICES ASSUME "reopened" \notin ledTo' PROVE redisUp' /\ InOrder'
      BY <2>2, <2>9, RegisterGrows
    <3> DEFINE made == IF ~open THEN Subscribe ELSE subs
    <3>1. "reopened" \notin ledTo /\ (~open => subs = <<>>) /\ ("disorder" \in ledTo' => "disorder" \in ledTo)
      BY <2>9 DEF HubRegister, RunRegister
    <3>2. InOrder /\ "disorder" \notin ledTo' /\ redisUp' /\ UNCHANGED heard
      BY <2>2, <2>9, <3>1, RegisterGrows DEF InOrder
    <3>3. /\ published'.n = published.n + 1 /\ UNCHANGED handlers
          /\ \E told \in {Len(subs), Len(made)} :
                subs' = [i \in DOMAIN made |-> IF redisUp /\ made[i].redis /\ i <= told
                          THEN [made[i] EXCEPT !.queue = Append(@, published.n + 1)] ELSE made[i]]
      BY <2>2, <2>9 DEF HubRegister, RunRegister, Numbered, NextNumber
    <3>4. made \in Seq(Sub) /\ OneSub(made)
      <4>1. CASE open
        BY <2>3, <3>2, <4>1 DEF InOrder
      <4>2. CASE ~open
        <5> DEFINE r == [redis |-> TRUE, queue |-> <<>>]
        <5>1. made = Append(<<>>, r)
          <6>1. redisUp = TRUE
            BY <2>2 DEF HubInv, HubTypeOK
          <6> QED BY <3>1, <4>2, <6>1 DEF Subscribe
        <5>2. r \in Sub
          <6>1. <<>> \in Seq(Nat)
            OBVIOUS
          <6> QED BY <6>1 DEF Sub
        <5>3. Ordered(<<>>)
          BY DEF Ordered, Rises, Beyond
        <5>5. r.redis /\ r.queue = <<>>
          OBVIOUS
        <5> HIDE DEF made, r
        <5>4. made \in Seq(Sub) /\ Len(made) = 1 /\ DOMAIN made = {1} /\ made[1] = r
          <6>1. <<>> \in Seq(Sub) /\ Len(<<>>) = 0
            OBVIOUS
          <6> QED BY <5>1, <5>2, <6>1
        <5> QED BY <5>3, <5>4, <5>5 DEF OneSub
      <4> QED BY <4>1, <4>2
    <3> HIDE DEF made
    <3>5. \A s \in Sub : LET t == [s EXCEPT !.queue = Append(@, published.n + 1)] IN
            t.redis = s.redis /\ t.queue = Append(s.queue, published.n + 1)
      BY DEF Sub
    <3>6. \A i \in DOMAIN made : /\ subs'[i].redis = made[i].redis
                                 /\ subs'[i].queue \in {made[i].queue, Append(made[i].queue, published.n + 1)}
      BY <3>3, <3>4, <3>5
    <3>7. Len(subs') = Len(made)
      BY <2>3, <3>3, <3>4
    <3> QED BY <2>3, <3>2, <3>3, <3>4, <3>6, <3>7, DeliveredLast
  <2>10. CASE BrokerStep
    <3> SUFFICES ASSUME "reopened" \notin ledTo' PROVE redisUp' /\ InOrder'
      BY <2>2, <2>10, BrokerDoes
    <3>1. UNCHANGED <<redisUp, published>>
      BY <2>10, BrokerDoes
    <3>2. ASSUME NEW h, NEW g, Becomes(h, g)
          PROVE  /\ handlers' \subseteq (handlers \ {h}) \cup {g}
                 /\ ledTo' \in {ledTo, ledTo \cup {"twoReaders"}}
      BY <3>2 DEF Becomes
    <3>3. ASSUME ledTo' \in {ledTo, ledTo \cup {"twoReaders"}, ledTo \cup {"disorder"}} PROVE InOrder
      BY <2>2, <3>3
    <3>4. ASSUME NEW i \in DOMAIN subs, Take(i) PROVE InOrder'
      <4> DEFINE q == subs[i].queue
                 h == Ready(i, Head(q))
                 g == [h EXCEPT !.at = "sending", !.todo = member]
      <4>1. /\ q # <<>> /\ ~(\E k \in handlers : k.sub = i) /\ Becomes(h, g)
            /\ subs' = [subs EXCEPT ![i].queue = Tail(@)] /\ UNCHANGED heard
        BY <3>4 DEF Take
      <4>2. ledTo' \in {ledTo, ledTo \cup {"twoReaders"}} /\ handlers' \subseteq handlers \cup {g}
        BY <3>2, <4>1
      <4>3. InOrder /\ "disorder" \notin ledTo'
        BY <3>3, <4>2 DEF InOrder
      <4>4. i = 1 /\ DOMAIN subs = {1} /\ Len(subs) = 1
        <5>1. Len(subs) <= 1
          BY <4>3 DEF InOrder, OneSub
        <5>2. Len(subs) \in Nat /\ DOMAIN subs = 1..Len(subs)
          BY <2>3
        <5> QED BY <5>1, <5>2
      <4>5. handlers = {}
        BY <4>1, <4>3, <4>4 DEF InOrder, AheadOf
      <4>6. subs[i] \in Sub /\ subs[i].redis /\ Ordered(q) /\ q \in Seq(Nat)
        <5>1. subs[i] \in Sub
          BY <2>3
        <5> QED BY <4>3, <5>1 DEF InOrder, OneSub, Sub
      <4>7. /\ Rises(Tail(q), published.n) /\ Beyond(Tail(q), Head(q))
            /\ Head(q) \in Nat /\ Head(q) <= published.n
            /\ \A m \in Nat : Beyond(q, m) => m < Head(q) /\ Beyond(Tail(q), m)
        BY <2>3, <4>1, <4>6, TailRises DEF Ordered, Message
      <4>8. \A c \in Proc : heard[c] \in Nat /\ heard[c] < Head(q) /\ Beyond(Tail(q), heard[c])
        BY <2>3, <4>6, <4>7 DEF Ordered
      <4>9. g.sub = 1 /\ g.at = "sending" /\ g.message = Head(q) /\ g.todo \subseteq Proc
        BY <2>3, <4>4 DEF Ready
      <4>10. DOMAIN subs' = {1} /\ Len(subs') = 1 /\ subs'[1].redis /\ subs'[1].queue = Tail(q)
        <5>1. subs' = [subs EXCEPT ![1] = [subs[1] EXCEPT !.queue = Tail(q)]]
          BY <4>1, <4>4
        <5>2. LET s == [subs[1] EXCEPT !.queue = Tail(q)] IN s.redis = subs[1].redis /\ s.queue = Tail(q)
          BY <4>4, <4>6 DEF Sub
        <5>3. Len(subs') = 1
          BY <2>3, <4>4, <5>1
        <5> QED BY <2>3, <4>4, <4>6, <5>1, <5>2, <5>3
      <4> HIDE DEF g, h, q
      <4>11. \A k \in handlers' : AheadOf(k)' /\ k = g
        BY <3>1, <4>1, <4>2, <4>5, <4>7, <4>8, <4>9 DEF AheadOf
      <4>12. (Ordered(subs[1].queue))'
        BY <3>1, <4>1, <4>7, <4>8, <4>9, <4>10, <4>11 DEF Ordered
      <4>13. (OneSub(subs))'
        <5>1. \A j \in DOMAIN subs' : (subs[j].redis /\ Ordered(subs[j].queue))'
          <6>1. ASSUME NEW j \in DOMAIN subs' PROVE j = 1
            BY <4>10, <6>1
          <6>2. (subs[1].redis /\ Ordered(subs[1].queue))'
            BY <4>10, <4>12
          <6> QED BY <6>1, <6>2
        <5> QED BY <4>10, <5>1 DEF OneSub
      <4> QED BY <3>1, <4>1, <4>3, <4>11, <4>13 DEF InOrder
    <3>5. ASSUME NEW h \in handlers, StartSending(h) PROVE InOrder'
      <4>1. InOrder /\ h.at = "ready"
        BY <3>2, <3>3, <3>5 DEF StartSending
      <4> QED BY <4>1 DEF InOrder, AheadOf
    <3>6. ASSUME NEW h \in handlers, NEW g, Becomes(h, g), UNCHANGED <<subs, heard>>,
                 g.sub = h.sub, g.at # "ready", g.message = h.message, g.todo \subseteq h.todo
          PROVE  InOrder'
      <4>1. InOrder /\ "disorder" \notin ledTo' /\ handlers' \subseteq (handlers \ {h}) \cup {g}
        BY <3>2, <3>3, <3>6 DEF InOrder
      <4>2. handlers' \subseteq {g}
        BY <4>1 DEF InOrder
      <4> QED BY <3>1, <3>6, <4>1, <4>2, OneGoesOn
    <3>7. ASSUME NEW h \in handlers, Send(h) PROVE InOrder'
      <4>1. PICK c \in h.todo : Sends(h, c)
        BY <3>7 DEF Send, Sends
      <4> DEFINE rest == [h EXCEPT !.todo = @ \ {c}]
                 full == [rest EXCEPT !.at = "full", !.socket = c]
      <4>2. h \in Handler /\ h.at = "sending" /\ c \in Proc /\ UNCHANGED subs
        BY <2>3, <4>1 DEF Sends, Handler
      <4>3. /\ rest.sub = h.sub /\ rest.at = "sending" /\ rest.message = h.message /\ rest.todo = h.todo \ {c}
            /\ full.sub = h.sub /\ full.at = "full" /\ full.message = h.message /\ full.todo = h.todo \ {c}
        BY <4>2 DEF Handler
      <4>4. \/ UNCHANGED <<handlers, heard, ledTo>>
            \/ /\ heard' = [heard EXCEPT ![c] = h.message]
               /\ handlers' \subseteq (handlers \ {h}) \cup {rest}
               /\ ledTo' = IF h.message > heard[c] THEN ledTo ELSE ledTo \cup {"disorder"}
            \/ Becomes(h, full) /\ UNCHANGED heard
        BY <4>1 DEF Sends
      <4> HIDE DEF rest, full
      <4>5. CASE UNCHANGED <<handlers, heard, ledTo>>
        BY <2>4, <3>1, <4>2, <4>5
      <4>6. CASE Becomes(h, full) /\ UNCHANGED heard
        BY <3>6, <4>2, <4>3, <4>6
      <4>7. CASE /\ heard' = [heard EXCEPT ![c] = h.message]
                 /\ handlers' \subseteq (handlers \ {h}) \cup {rest}
                 /\ ledTo' = IF h.message > heard[c] THEN ledTo ELSE ledTo \cup {"disorder"}
        <5>1. InOrder
          BY <3>3, <4>7
        <5>2. /\ h.message \in Nat /\ heard[c] < h.message /\ h.message <= published.n
              /\ \A d \in Proc : heard[d] <= h.message
          BY <4>1, <4>2, <5>1 DEF InOrder, AheadOf, Handler
        <5>3. ledTo' = ledTo /\ handlers' \subseteq {rest}
          BY <2>3, <4>2, <4>7, <5>1, <5>2 DEF InOrder
        <5>4. \A d \in Proc : heard'[d] = (IF d = c THEN h.message ELSE heard[d])
          BY <2>3, <4>2, <4>7
        <5>5. \A d \in Proc : heard'[d] <= h.message /\ heard'[d] <= published.n
          BY <5>1, <5>2, <5>4 DEF InOrder
        <5>6. \A k \in handlers' : AheadOf(k)' /\ k = rest
          <6>1. h.sub = 1
            BY <5>1 DEF InOrder, AheadOf
          <6>2. \A d \in Proc : d \in rest.todo => heard'[d] < h.message
            BY <4>3, <5>1, <5>4 DEF InOrder, AheadOf
          <6> QED BY <3>1, <4>3, <5>2, <5>3, <5>5, <6>1, <6>2 DEF AheadOf
        <5>7. \A i \in DOMAIN subs' : (subs[i].redis /\ Ordered(subs[i].queue))'
          <6>1. ASSUME NEW i \in DOMAIN subs PROVE subs[i].redis /\ Ordered(subs[i].queue)
            BY <5>1 DEF InOrder, OneSub
          <6>2. ASSUME NEW i \in DOMAIN subs, NEW d \in Proc PROVE Beyond(subs[i].queue, heard'[d])
            BY <5>4, <6>1 DEF Ordered
          <6> QED BY <3>1, <4>2, <4>3, <5>6, <6>1, <6>2 DEF Ordered
        <5>8. (OneSub(subs))'
          BY <4>2, <5>1, <5>7 DEF InOrder, OneSub
        <5> QED BY <3>1, <5>1, <5>3, <5>5, <5>6, <5>8 DEF InOrder
      <4> QED BY <4>4, <4>5, <4>6, <4>7
    <3>8. ASSUME NEW h \in handlers, CloseSend(h) PROVE InOrder'
      <4> DEFINE g == [h EXCEPT !.at = "shut"]
      <4>1. h \in Handler /\ Becomes(h, g) /\ UNCHANGED <<subs, heard>>
        BY <2>3, <3>8 DEF CloseSend
      <4>2. g.sub = h.sub /\ g.at = "shut" /\ g.message = h.message /\ g.todo = h.todo
        BY <4>1 DEF Handler
      <4> HIDE DEF g
      <4> QED BY <3>6, <4>1, <4>2
    <3>9. ASSUME NEW h \in handlers, DropClient(h) PROVE InOrder'
      <4> DEFINE w == [h EXCEPT !.at = "sending", !.socket = NoSocket]
                 v == [w EXCEPT !.todo = @ \ {h.socket}]
      <4>1. h \in Handler /\ UNCHANGED <<subs, heard, ledTo>>
        BY <2>3, <3>9 DEF DropClient
      <4>2. InOrder
        BY <3>3, <4>1
      <4>3. handlers \ {h} = {}
        BY <4>2 DEF InOrder
      <4>4. \A k \in handlers' : \E g \in (handlers \ {h}) \cup {w} : k = [g EXCEPT !.todo = @ \ {h.socket}]
        BY <3>9 DEF DropClient
      <4>5. \A k \in handlers' : k = v
        BY <4>3, <4>4
      <4>6. v.sub = h.sub /\ v.at = "sending" /\ v.message = h.message /\ v.todo \subseteq h.todo
        BY <4>1 DEF Handler
      <4> HIDE DEF v
      <4>7. "disorder" \notin ledTo'
        BY <4>1, <4>2 DEF InOrder
      <4> QED BY <3>1, <4>1, <4>2, <4>5, <4>6, <4>7, OneGoesOn
    <3> QED BY <2>2, <2>10, <3>1, <3>4, <3>5, <3>7, <3>8, <3>9 DEF BrokerStep
  <2>11. CASE ChatStep
    BY <2>6, <2>7, <2>8, <2>9, <2>10, <2>11, ChatDoes
  <2> QED BY <2>5, <2>11, ChatOrAside
<1> QED BY <1>1, <1>2, CallsHold, TalkHolds, HubHolds, HandlersHold, PTL DEF Spec

-----------------------------------------------------------------------------
(***************************************************************************)
(* The hub is told of each socket that goes: it is in the maps only until  *)
(* its leave is taken from the queue, unless it comes after it.            *)
(***************************************************************************)
Leaving == {unregisterQ[i] : i \in DOMAIN unregisterQ}
GoneInv == "overtaken" \notin ledTo => \A c \in member : fate[c] = "running" \/ c \in Leaving

\* A socket that says a word, or drops those it kicked, is not at its end.
LEMMA TalkGoesOn ==
  ASSUME CallInv, TalkInv, NEW p \in Proc, job[p] \in ChatRequests, HubBroadcast(p) \/ DropKicked(p)
  PROVE  fate'[p] = "running"
<1>1. fate[p] = "running" /\ Head(plan[p]) # "chatting" /\ job[p].kind = "chatWS"
  <2>1. job[p].kind \in ChatKinds
    BY RequestKinds
  <2> QED BY <2>1 DEF HubBroadcast, DropKicked, At, TalkInv
<1>2. Tail(plan[p]) # <<>> /\ Tail(plan[p]) \in Seq(Words)
  BY <1>1, OneWordLess DEF TalkInv
<1>3. <<"dropKicked">> \o Tail(plan[p]) # <<>>
  BY <1>2
<1>4. \E s, v, f : Deal(p, s, v, f) /\ s # <<>>
  <2>1. CASE HubBroadcast(p)
    BY <1>2, <1>3, <2>1 DEF HubBroadcast, Refused, Said, ExecuteModeratorCommand, Mute, Kick, Pin,
                            ChatSettings, HandleChat
  <2>2. CASE DropKicked(p)
    BY <1>2, <2>2 DEF DropKicked, Said
  <2> QED BY <2>1, <2>2
<1> QED BY <1>4 DEF Deal, Go, Slip, Follow, CallInv, CallTypeOK

\* What is left of a queue without its first.
LEMMA TailLeaves ==
  ASSUME NEW S, NEW q \in Seq(S), q # <<>>
  PROVE  {q[i] : i \in DOMAIN q} \subseteq {Head(q)} \cup {Tail(q)[i] : i \in DOMAIN Tail(q)}
<1> SUFFICES ASSUME NEW i \in DOMAIN q, i # 1
             PROVE  \E j \in DOMAIN Tail(q) : Tail(q)[j] = q[i]
  OBVIOUS
<1>1. i - 1 \in DOMAIN Tail(q) /\ Tail(q)[i - 1] = q[i]
  OBVIOUS
<1> QED BY <1>1

\* Who is in the maps is there, or is on the way out.
LEMMA GoneHold == Spec => []GoneInv
<1>1. Init => GoneInv
  BY DEF Init, HubInit, GoneInv
<1>2. CallInv /\ TalkInv /\ HubInv /\ QueueInv /\ GoneInv /\ [Next]_vars => GoneInv'
  <2> SUFFICES ASSUME CallInv, TalkInv, HubInv, QueueInv, GoneInv, [Next]_vars PROVE GoneInv'
    OBVIOUS
  <2>1. /\ member \subseteq Proc /\ member \subseteq Sockets
        /\ registerQ \in Seq(Proc) /\ unregisterQ \in Seq(Proc)
    BY HubAssumption DEF HubInv, HubTypeOK, QueueInv, Entered
  <2>2. ASSUME member' \subseteq member, UNCHANGED unregisterQ, "overtaken" \in ledTo => "overtaken" \in ledTo',
               \A c \in Sockets : fate[c] = "running" => fate'[c] = "running"
        PROVE  GoneInv'
    BY <2>1, <2>2 DEF GoneInv, Leaving
  <2>3. CASE Aside
    <3>1. \A c \in Sockets : fate'[c] = fate[c]
      BY <2>3 DEF Aside, Sockets, ChatKinds
    <3> QED BY <2>2, <2>3, <3>1 DEF Aside, hubVars
  <2>4. ASSUME NEW p \in Proc,
               \/ NewClient(p) \/ ReadPumpEnds(p) \/ HubBroadcast(p) \/ DropKicked(p)
               \/ BroadcastToRoom(p) \/ StopHub(p) \/ RedisHealth(p)
        PROVE  RestOf(p) /\ \A c \in Proc \ {p} : fate'[c] = fate[c]
    BY <2>4, ChatCallMoves, MoveIsOwn DEF RestOf
  <2>5. ASSUME NEW p \in Proc, NewClient(p) \/ BroadcastToRoom(p) \/ StopHub(p) \/ RedisHealth(p) PROVE GoneInv'
    <3>1. /\ fate[p] = "new" /\ UNCHANGED <<unregisterQ, ledTo>>
          /\ member' \subseteq member
      BY <2>5 DEF NewClient, BroadcastToRoom, StopHub, RedisHealth, Asked
    <3>2. p \notin Sockets
      BY <3>1 DEF Sockets
    <3> QED BY <2>2, <2>4, <2>5, <3>1, <3>2 DEF Sockets
  <2>6. ASSUME NEW p \in Proc, job[p] \in ChatRequests, HubBroadcast(p) \/ DropKicked(p) PROVE GoneInv'
    <3>1. fate'[p] = "running"
      BY <2>6, TalkGoesOn
    <3>2. UNCHANGED unregisterQ /\ member' \subseteq member
      <4>1. CASE HubBroadcast(p)
        BY <2>6, <4>1, BroadcastDoes DEF BroadcastOf
      <4>2. CASE DropKicked(p)
        BY <4>2 DEF DropKicked
      <4> QED BY <2>6, <4>1, <4>2
    <3>3. "overtaken" \in ledTo => "overtaken" \in ledTo'
      <4>1. CASE HubBroadcast(p)
        BY <2>6, <4>1, BroadcastDoes DEF BroadcastOf, Untroubled, PrivateError
      <4>2. CASE DropKicked(p)
        BY <4>2 DEF DropKicked
      <4> QED BY <2>6, <4>1, <4>2
    <3> QED BY <2>2, <2>4, <2>6, <3>1, <3>2, <3>3 DEF Sockets
  <2>7. ASSUME NEW p \in Proc, ReadPumpEnds(p) PROVE GoneInv'
    <3>1. unregisterQ' = Append(unregisterQ, p) /\ UNCHANGED <<member, ledTo>>
      BY <2>7 DEF ReadPumpEnds
    <3>2. Leaving' = Leaving \cup {p}
      <4>1. /\ DOMAIN unregisterQ' = DOMAIN unregisterQ \cup {Len(unregisterQ) + 1}
            /\ \A i \in DOMAIN unregisterQ : unregisterQ'[i] = unregisterQ[i]
            /\ unregisterQ'[Len(unregisterQ) + 1] = p
        BY <2>1, <3>1
      <4> QED BY <4>1 DEF Leaving
    <3> QED BY <2>1, <2>4, <2>7, <3>1, <3>2 DEF GoneInv
  <2>8. CASE HubRegister
    <3>1. /\ UNCHANGED <<fate, unregisterQ>> /\ member' = member \cup {Head(registerQ)}
          /\ "overtaken" \notin ledTo' =>
               /\ "overtaken" \notin ledTo
               /\ fate[Head(registerQ)] = "running" \/ \E i \in DOMAIN unregisterQ : unregisterQ[i] = Head(registerQ)
      BY <2>8 DEF HubRegister, RunRegister, callVars
    <3> QED BY <3>1 DEF GoneInv, Leaving
  <2>9. CASE HubUnregister
    <3>1. /\ UNCHANGED <<fate, ledTo>> /\ unregisterQ # <<>> /\ unregisterQ' = Tail(unregisterQ)
          /\ member' = member \ {Head(unregisterQ)}
      <4>1. UNCHANGED fate
        BY <2>9 DEF HubUnregister, RunUnregister, callVars
      <4> QED BY <2>9, <4>1, UnregisterDoes
    <3>2. Leaving \subseteq {Head(unregisterQ)} \cup Leaving'
      BY <2>1, <3>1, TailLeaves DEF Leaving
    <3> QED BY <3>1, <3>2 DEF GoneInv
  <2>10. CASE BrokerStep
    <3>1. UNCHANGED <<fate, unregisterQ>>
      BY <2>10 DEF BrokerStep
    <3>2. member' \subseteq member /\ ledTo \subseteq ledTo'
      BY <2>10 DEF BrokerStep, Take, StartSending, Send, CloseSend, DropClient, Becomes
    <3> QED BY <2>2, <3>1, <3>2
  <2>11. CASE ChatStep
    BY <2>5, <2>6, <2>7, <2>8, <2>9, <2>10, <2>11 DEF ChatStep
  <2> QED BY <2>3, <2>11, ChatOrAside
<1> QED BY <1>1, <1>2, CallsHold, TalkHolds, HubHolds, QueuesHold, PTL DEF Spec

\* The hub does not panic without two readers of its maps, is heard in order and
\* once, and forgets those who are gone, but for the cases the property names.
THEOREM HubIsSound == Spec => []HubSound
<1>1. ReaderInv /\ OrderInv /\ GoneInv => HubSound
  BY DEF HubSound, PanicNeedsTwoReaders, HeardOnceInOrder, GoneAreForgotten,
         ReaderInv, OneReader, OrderInv, InOrder, GoneInv, Leaving
<1> QED BY <1>1, ReadersHold, OrderHolds, GoneHold, PTL

-----------------------------------------------------------------------------
(***************************************************************************)
(* A user is silent while one of two keys is in Redis.                     *)
(***************************************************************************)
\* As long as no statement has failed, the keys are those of the last commands.
SilenceInv == faults = 0 => \A k \in {"mute", "kick"} : silent[k] = key[k]

\* A statement of the hub that fails is counted.
LEMMA NoneFails ==
  ASSUME NEW u, NEW f, BroadcastOf(u, f), faults \in Nat, faults' = 0
  PROVE  f = "none"
<1>1. IF f = "none" THEN faults' = faults ELSE faults' = faults + 1
  BY Zenon DEF BroadcastOf
<1> QED BY <1>1

\* A message of a user is one that no key held back, but for what he pins.
LEMMA WhoPublishes ==
  ASSUME CallInv, TalkInv, HubInv, ChatStep, faults' = 0,
         NEW u \in Chatter, published' # published, published'.from = u
  PROVE  ~Holds("kick", u, "none") /\ (published'.is = "pin" \/ ~Holds("mute", u, "none"))
<1>1. ~Publish("hub", "news") /\ published' # Numbered("hub", "news")
  BY HubAssumption DEF Publish, Numbered
<1>5. faults \in Nat
  BY CallAssumption DEF CallInv, CallTypeOK
<1>2. ASSUME NEW p \in Proc, job[p] \in ChatRequests, HubBroadcast(p)
      PROVE  ~Holds("kick", u, "none") /\ (published'.is = "pin" \/ ~Holds("mute", u, "none"))
  <2>1. PICK w \in Chatter, f \in Statement \cup {"none"} : BroadcastOf(w, f)
    BY <1>2, BroadcastDoes
  <2>2. f = "none"
    BY <1>5, <2>1, NoneFails
  <2>3. \/ Publish(w, "pin") /\ ~Holds("kick", w, "none")
        \/ Publish(w, "message") /\ ~Holds("mute", w, "none") /\ ~Holds("kick", w, "none")
    BY <1>1, <2>1, <2>2 DEF BroadcastOf
  <2>4. CASE Publish(w, "pin") /\ ~Holds("kick", w, "none")
    <3>1. w = u /\ published'.is = "pin"
      BY <2>4 DEF Publish, Numbered
    <3> QED BY <2>4, <3>1
  <2>5. CASE Publish(w, "message") /\ ~Holds("mute", w, "none") /\ ~Holds("kick", w, "none")
    <3>1. w = u
      BY <2>5 DEF Publish, Numbered
    <3> QED BY <2>5, <3>1
  <2> QED BY <2>3, <2>4, <2>5
<1>3. ASSUME NEW p \in Proc, \/ NewClient(p) \/ ReadPumpEnds(p) \/ DropKicked(p)
                             \/ BroadcastToRoom(p) \/ StopHub(p) \/ RedisHealth(p)
      PROVE  FALSE
  BY <1>1, <1>3 DEF NewClient, ReadPumpEnds, DropKicked, BroadcastToRoom, StopHub, RedisHealth
<1>4. ~(HubRegister \/ HubUnregister \/ BrokerStep)
  BY <1>1 DEF HubRegister, RunRegister, HubUnregister, RunUnregister, BrokerStep
<1> QED BY <1>2, <1>3, <1>4 DEF ChatStep

\* Keys and what users were told agree.
LEMMA SilencesHold == Spec => []SilenceInv
<1>1. Init => SilenceInv
  BY DEF Init, HubInit, SilenceInv
<1>2. CallInv /\ TalkInv /\ HubInv /\ SilenceInv /\ [Next]_vars => SilenceInv'
  <2> SUFFICES ASSUME CallInv, TalkInv, HubInv, SilenceInv, [Next]_vars, faults' = 0
               PROVE  \A k \in {"mute", "kick"} : silent'[k] = key'[k]
    BY DEF SilenceInv
  <2>1. /\ key \in [{"mute", "kick", "slow", "spoke"} -> [Chatter -> Nat]]
        /\ silent \in [{"mute", "kick"} -> [Chatter -> Nat]]
    BY DEF HubInv, HubTypeOK
  <2>2. faults = 0
    <3>1. faults \in Nat
      BY CallAssumption DEF CallInv, CallTypeOK
    <3> QED BY <3>1, FaultsGrow
  <2>3. \A k \in {"mute", "kick"} : silent[k] = key[k]
    BY <2>2 DEF SilenceInv
  <2>4. CASE UNCHANGED <<key, silent>>
    BY <2>3, <2>4
  <2>5. CASE Aside
    BY <2>4, <2>5 DEF Aside, hubVars
  <2>6. CASE ChatStep
    <3>1. ASSUME NEW p \in Proc, job[p] \in ChatRequests, HubBroadcast(p)
          PROVE  \A k \in {"mute", "kick"} : silent'[k] = key'[k]
      <4>1. PICK u \in Chatter, f \in Statement \cup {"none"} : BroadcastOf(u, f)
        BY <3>1, BroadcastDoes
      <4>2. f = "none"
        BY <2>2, <4>1, NoneFails
      <4>3. \/ UNCHANGED <<key, silent>>
            \/ SlowsDown(u, Room1(f).slow, f) /\ UNCHANGED silent
            \/ \E n : \E k \in {"mute", "kick"}, t \in Chatter : Silences(k, t, n, f)
        BY <4>1 DEF BroadcastOf
      <4>4. ASSUME NEW n, SlowsDown(u, n, f), UNCHANGED silent
            PROVE  \A k \in {"mute", "kick"} : silent'[k] = key'[k]
        <5>1. \A k \in {"mute", "kick"} : key'[k] = key[k]
          BY <2>1, <4>4 DEF SlowsDown
        <5> QED BY <2>3, <4>4, <5>1
      <4>5. ASSUME NEW k \in {"mute", "kick"}, NEW t \in Chatter, NEW n, Silences(k, t, n, f)
            PROVE  \A l \in {"mute", "kick"} : silent'[l] = key'[l]
        <5>1. CASE ~redisUp
          BY <2>4, <4>5, <5>1 DEF Silences, SetKey
        <5>2. CASE redisUp
          <6>1. /\ key' = [key EXCEPT ![k][t] = Until(n)]
                /\ silent' = [silent EXCEPT ![k][t] = Until(n)]
            BY <4>2, <4>5, <5>2 DEF Silences, SetKey
          <6> QED BY <2>1, <2>3, <6>1
        <5> QED BY <5>1, <5>2
      <4> QED BY <2>4, <4>3, <4>4, <4>5
    <3>3. ASSUME NEW p \in Proc, \/ NewClient(p) \/ ReadPumpEnds(p) \/ DropKicked(p)
                                 \/ BroadcastToRoom(p) \/ StopHub(p) \/ RedisHealth(p)
          PROVE  UNCHANGED <<key, silent>>
      BY <3>3 DEF NewClient, ReadPumpEnds, DropKicked, BroadcastToRoom, StopHub, RedisHealth
    <3>4. HubRegister \/ HubUnregister \/ BrokerStep => UNCHANGED <<key, silent>>
      BY DEF HubRegister, RunRegister, HubUnregister, RunUnregister, BrokerStep
    <3> QED BY <2>4, <2>6, <3>1, <3>3, <3>4 DEF ChatStep
  <2> QED BY <2>5, <2>6, ChatOrAside
<1> QED BY <1>1, <1>2, CallsHold, TalkHolds, HubHolds, PTL DEF Spec

\* Who is kicked publishes nothing, and who is muted nothing but what he pins, for as
\* long as the last command said, while Redis answers and no statement has failed: the
\* hub asks for the keys before each message, and they are those of the last commands.
THEOREM SilenceIsKept == Spec => SilenceKept
<1>1. CallInv /\ TalkInv /\ HubInv /\ SilenceInv /\ [Next]_vars
      => [\A u \in Chatter :
            /\ redisUp /\ faults' = 0 /\ published' # published /\ published'.from = u
            => /\ now >= silent["kick"][u]
               /\ published'.is = "pin" \/ now >= silent["mute"][u]]_hubVars
  <2> SUFFICES ASSUME CallInv, TalkInv, HubInv, SilenceInv, [Next]_vars,
                      NEW u \in Chatter, redisUp, faults' = 0, published' # published, published'.from = u
               PROVE  /\ now >= silent["kick"][u]
                      /\ published'.is = "pin" \/ now >= silent["mute"][u]
    OBVIOUS
  <2>1. ChatStep
    BY ChatOrAside DEF Aside, hubVars
  <2>2. ~Holds("kick", u, "none") /\ (published'.is = "pin" \/ ~Holds("mute", u, "none"))
    BY <2>1, WhoPublishes
  <2>3. faults = 0
    <3>1. faults \in Nat
      BY CallAssumption DEF CallInv, CallTypeOK
    <3> QED BY <3>1, FaultsGrow
  <2>4. /\ key["mute"][u] \in Nat /\ key["kick"][u] \in Nat /\ now \in Nat
        /\ silent["mute"][u] = key["mute"][u] /\ silent["kick"][u] = key["kick"][u]
    BY <2>3, CallAssumption DEF HubInv, HubTypeOK, CallInv, CallTypeOK, SilenceInv
  <2> QED BY <2>2, <2>4 DEF Holds
<1> QED BY <1>1, CallsHold, TalkHolds, HubHolds, SilencesHold, PTL DEF Spec, SilenceKept

-----------------------------------------------------------------------------
(***************************************************************************)
(* Streams: what a call has still to do, and what it holds for that, by    *)
(* its kind.                                                               *)
(***************************************************************************)
StreamKinds == {"createStream", "startStream", "switchMode", "endStream", "hostWS",
                "viewerWS", "signalWS", "syncCounts"}
ViewerKinds == {"viewerWS", "signalWS"}
Held(v, s) == v.stream = s /\ v.row \in Row

StartFits(p, s, v) ==
  \/ s = <<"updateStream", "resetCount", "autoLink">> /\ Held(v, Of(p)) /\ v.row.status = "live"
  \/ s \in {<<"resetCount", "autoLink">>, <<"autoLink">>}
  \/ s \in {<<"linkOccurrence", "linkSchedule">>, <<"linkSchedule">>} /\ v.schedule \in Schedule /\ v.date \in Date

EndFits(p, s, v) == \/ s = <<"updateStream", "clearCount">> /\ Held(v, Of(p)) /\ v.row.status = "ended"
                    \/ s = <<"clearCount">>

HostFits(p, s, v) ==
  \/ s \in {<<"hostOn", "hostPeer", "serving">>, <<"hostPeer", "serving">>, <<"serving">>,
            <<"removePeer", "hostOff", "grace">>, <<"hostOff", "grace">>, <<"grace">>, <<"endGone">>,
            <<"clearCount", "removeRoom">>, <<"removeRoom">>}
  \/ s = <<"updateStream", "clearCount", "removeRoom">> /\ Held(v, Of(p)) /\ v.row.status = "ended"

\* Before the stream is joined; then; and once the session is looked for.
Unjoined == {<<"viewerPeer", "join", "serving">>, <<"join", "serving">>, <<"join", "viewerPeer", "serving">>}
Joining == {<<"openSession", "incrCount", "serving">>, <<"openSession", "incrCount", "viewerPeer", "serving">>}
Joined == {<<"incrCount", "serving">>, <<"incrCount", "viewerPeer", "serving">>, <<"viewerPeer", "serving">>,
           <<"serving">>, <<"removePeer", "leave">>, <<"leave">>}
ViewerFits(s, v) == \/ s \in Unjoined \cup Joining \cup Joined \cup {<<"decrCount">>}
                    \/ s = <<"closeSession", "decrCount">> /\ v.of \in Proc

\* A counter and then its row, and so on to the last row.
SyncFits(s, v) ==
  /\ s \in Seq({"syncCount", "syncRow"}) /\ s # <<>>
  /\ s[Len(s)] = "syncRow" /\ \A i \in 1..(Len(s) - 1) : s[i] # s[i + 1]
  /\ DOMAIN v.rows \subseteq Stream /\ \A t \in DOMAIN v.rows : v.rows[t] \in Row
  /\ Head(s) = "syncRow" => v.stream \in DOMAIN v.rows

StreamFits(p, s, v) ==
  /\ job[p].kind = "createStream" => s = <<"insertStream">>
  /\ job[p].kind = "startStream" => StartFits(p, s, v)
  /\ job[p].kind = "switchMode" => s = <<"updateStream">> /\ Held(v, Of(p))
  /\ job[p].kind = "endStream" => EndFits(p, s, v)
  /\ job[p].kind = "hostWS" => HostFits(p, s, v)
  /\ job[p].kind \in ViewerKinds => ViewerFits(s, v)
  /\ job[p].kind = "syncCounts" => SyncFits(s, v)

Watching(s, w) == {u \in Viewer : room[s][w].viewers[u] # NoPeer}

StreamInv == /\ StreamTypeOK /\ IsFiniteSet(ListLive)
             /\ \A s \in Stream, w \in Way : IsFiniteSet(Watching(s, w))
             /\ \A p \in Kinds(StreamKinds) : fate[p] = "running" => StreamFits(p, plan[p], seen[p])

\* Short sequences, taken apart.
LEMMA TailOf1 == \A a : Head(<<a>>) = a /\ Tail(<<a>>) = <<>> /\ <<a>> # <<>>
OBVIOUS

\* Short sequences, taken apart.
LEMMA TailOf2 == \A a, b : Head(<<a, b>>) = a /\ Tail(<<a, b>>) = <<b>> /\ <<a, b>> # <<>>
OBVIOUS

\* Short sequences, taken apart.
LEMMA TailOf3 == \A a, b, c : Head(<<a, b, c>>) = a /\ Tail(<<a, b, c>>) = <<b, c>> /\ <<a, b, c>> # <<>>
OBVIOUS

\* Short sequences, taken apart.
LEMMA TailOf4 == \A a, b, c, d : Head(<<a, b, c, d>>) = a /\ Tail(<<a, b, c, d>>) = <<b, c, d>> /\ <<a, b, c, d>> # <<>>
OBVIOUS

\* The statements of StartStream.
LEMMA StartNext ==
  ASSUME NEW p, NEW s, NEW v, StartFits(p, s, v)
  PROVE  \/ Head(s) = "updateStream" /\ Tail(s) = <<"resetCount", "autoLink">> /\ Held(v, Of(p)) /\ v.row.status = "live"
         \/ Head(s) = "resetCount" /\ Tail(s) = <<"autoLink">>
         \/ Head(s) = "autoLink" /\ Tail(s) = <<>>
         \/ /\ Head(s) = "linkOccurrence" /\ Tail(s) = <<"linkSchedule">>
            /\ v.schedule \in Schedule /\ v.date \in Date
         \/ Head(s) = "linkSchedule" /\ Tail(s) = <<>> /\ v.schedule \in Schedule /\ v.date \in Date
<1>1. CASE s = <<"updateStream", "resetCount", "autoLink">> /\ Held(v, Of(p)) /\ v.row.status = "live"
  BY <1>1, TailOf3, Zenon
<1>2. CASE s = <<"resetCount", "autoLink">>
  BY <1>2, TailOf2, Zenon
<1>3. CASE s = <<"autoLink">>
  BY <1>3, TailOf1, Zenon
<1>4. CASE s = <<"linkOccurrence", "linkSchedule">> /\ v.schedule \in Schedule /\ v.date \in Date
  BY <1>4, TailOf2, Zenon
<1>5. CASE s = <<"linkSchedule">> /\ v.schedule \in Schedule /\ v.date \in Date
  BY <1>5, TailOf1, Zenon
<1> QED BY <1>1, <1>2, <1>3, <1>4, <1>5 DEF StartFits

\* The statements of EndStream.
LEMMA EndNext ==
  ASSUME NEW p, NEW s, NEW v, EndFits(p, s, v)
  PROVE  \/ Head(s) = "updateStream" /\ Tail(s) = <<"clearCount">> /\ Held(v, Of(p)) /\ v.row.status = "ended"
         \/ Head(s) = "clearCount" /\ Tail(s) = <<>>
<1>1. CASE s = <<"updateStream", "clearCount">> /\ Held(v, Of(p)) /\ v.row.status = "ended"
  BY <1>1, TailOf2, Zenon
<1>2. CASE s = <<"clearCount">>
  BY <1>2, TailOf1, Zenon
<1> QED BY <1>1, <1>2 DEF EndFits

\* The statements of the socket of a host.
LEMMA HostNext ==
  ASSUME NEW p, NEW s, NEW v, HostFits(p, s, v)
  PROVE  \/ Head(s) = "hostOn" /\ Tail(s) = <<"hostPeer", "serving">>
         \/ Head(s) = "hostPeer" /\ Tail(s) = <<"serving">>
         \/ Head(s) = "serving" /\ Tail(s) = <<>>
         \/ Head(s) = "removePeer" /\ Tail(s) = <<"hostOff", "grace">>
         \/ Head(s) = "hostOff" /\ Tail(s) = <<"grace">>
         \/ Head(s) = "grace" /\ Tail(s) = <<>>
         \/ Head(s) = "endGone" /\ Tail(s) = <<>>
         \/ Head(s) = "clearCount" /\ Tail(s) = <<"removeRoom">>
         \/ Head(s) = "removeRoom" /\ Tail(s) = <<>>
         \/ /\ Head(s) = "updateStream" /\ Tail(s) = <<"clearCount", "removeRoom">>
            /\ Held(v, Of(p)) /\ v.row.status = "ended"
<1>1. CASE s = <<"hostOn", "hostPeer", "serving">>
  BY <1>1, TailOf3, Zenon
<1>2. CASE s = <<"hostPeer", "serving">>
  BY <1>2, TailOf2, Zenon
<1>3. CASE s = <<"serving">>
  BY <1>3, TailOf1, Zenon
<1>4. CASE s = <<"removePeer", "hostOff", "grace">>
  BY <1>4, TailOf3, Zenon
<1>5. CASE s = <<"hostOff", "grace">>
  BY <1>5, TailOf2, Zenon
<1>6. CASE s = <<"grace">>
  BY <1>6, TailOf1, Zenon
<1>7. CASE s = <<"endGone">>
  BY <1>7, TailOf1, Zenon
<1>8. CASE s = <<"clearCount", "removeRoom">>
  BY <1>8, TailOf2, Zenon
<1>9. CASE s = <<"removeRoom">>
  BY <1>9, TailOf1, Zenon
<1>10. CASE s = <<"updateStream", "clearCount", "removeRoom">> /\ Held(v, Of(p)) /\ v.row.status = "ended"
  BY <1>10, TailOf3, Zenon
<1> QED BY <1>1, <1>2, <1>3, <1>4, <1>5, <1>6, <1>7, <1>8, <1>9, <1>10 DEF HostFits

\* The statements of the socket of a viewer.
LEMMA ViewerNext ==
  ASSUME NEW s, NEW v, ViewerFits(s, v)
  PROVE  \/ /\ s \in Unjoined
            /\ \/ Head(s) = "viewerPeer" /\ Tail(s) = <<"join", "serving">>
               \/ Head(s) = "join" /\ Tail(s) \in {<<"serving">>, <<"viewerPeer", "serving">>}
         \/ /\ s \in Joining /\ Head(s) = "openSession"
            /\ Tail(s) \in {<<"incrCount", "serving">>, <<"incrCount", "viewerPeer", "serving">>}
         \/ /\ s \in Joined
            /\ \/ Head(s) = "incrCount" /\ Tail(s) \in {<<"serving">>, <<"viewerPeer", "serving">>}
               \/ Head(s) = "viewerPeer" /\ Tail(s) = <<"serving">>
               \/ Head(s) = "serving" /\ Tail(s) = <<>>
               \/ Head(s) = "removePeer" /\ Tail(s) = <<"leave">>
               \/ Head(s) = "leave" /\ Tail(s) = <<>>
         \/ s = <<"closeSession", "decrCount">> /\ Head(s) = "closeSession" /\ Tail(s) = <<"decrCount">> /\ v.of \in Proc
         \/ s = <<"decrCount">> /\ Head(s) = "decrCount" /\ Tail(s) = <<>>
<1>1. CASE s = <<"viewerPeer", "join", "serving">>
  <2>1. Head(s) = "viewerPeer" /\ Tail(s) = <<"join", "serving">>
    BY <1>1, TailOf3, Zenon
  <2>2. s \in Unjoined
    BY <1>1, Zenon DEF Unjoined
  <2> QED BY <2>1, <2>2, Zenon
<1>2. CASE s = <<"join", "serving">>
  <2>1. Head(s) = "join" /\ Tail(s) = <<"serving">>
    BY <1>2, TailOf2, Zenon
  <2>2. s \in Unjoined
    BY <1>2, Zenon DEF Unjoined
  <2> QED BY <2>1, <2>2, Zenon
<1>3. CASE s = <<"join", "viewerPeer", "serving">>
  <2>1. Head(s) = "join" /\ Tail(s) = <<"viewerPeer", "serving">>
    BY <1>3, TailOf3, Zenon
  <2>2. s \in Unjoined
    BY <1>3, Zenon DEF Unjoined
  <2> QED BY <2>1, <2>2, Zenon
<1>4. CASE s = <<"openSession", "incrCount", "serving">>
  <2>1. Head(s) = "openSession" /\ Tail(s) = <<"incrCount", "serving">>
    BY <1>4, TailOf3, Zenon
  <2>2. s \in Joining
    BY <1>4, Zenon DEF Joining
  <2> QED BY <2>1, <2>2, Zenon
<1>5. CASE s = <<"openSession", "incrCount", "viewerPeer", "serving">>
  <2>1. Head(s) = "openSession" /\ Tail(s) = <<"incrCount", "viewerPeer", "serving">>
    BY <1>5, TailOf4, Zenon
  <2>2. s \in Joining
    BY <1>5, Zenon DEF Joining
  <2> QED BY <2>1, <2>2, Zenon
<1>6. CASE s = <<"incrCount", "serving">>
  <2>1. Head(s) = "incrCount" /\ Tail(s) = <<"serving">>
    BY <1>6, TailOf2, Zenon
  <2>2. s \in Joined
    BY <1>6, Zenon DEF Joined
  <2> QED BY <2>1, <2>2, Zenon
<1>7. CASE s = <<"incrCount", "viewerPeer", "serving">>
  <2>1. Head(s) = "incrCount" /\ Tail(s) = <<"viewerPeer", "serving">>
    BY <1>7, TailOf3, Zenon
  <2>2. s \in Joined
    BY <1>7, Zenon DEF Joined
  <2> QED BY <2>1, <2>2, Zenon
<1>8. CASE s = <<"viewerPeer", "serving">>
  <2>1. Head(s) = "viewerPeer" /\ Tail(s) = <<"serving">>
    BY <1>8, TailOf2, Zenon
  <2>2. s \in Joined
    BY <1>8, Zenon DEF Joined
  <2> QED BY <2>1, <2>2, Zenon
<1>9. CASE s = <<"serving">>
  <2>1. Head(s) = "serving" /\ Tail(s) = <<>>
    BY <1>9, TailOf1, Zenon
  <2>2. s \in Joined
    BY <1>9, Zenon DEF Joined
  <2> QED BY <2>1, <2>2, Zenon
<1>10. CASE s = <<"removePeer", "leave">>
  <2>1. Head(s) = "removePeer" /\ Tail(s) = <<"leave">>
    BY <1>10, TailOf2, Zenon
  <2>2. s \in Joined
    BY <1>10, Zenon DEF Joined
  <2> QED BY <2>1, <2>2, Zenon
<1>11. CASE s = <<"leave">>
  <2>1. Head(s) = "leave" /\ Tail(s) = <<>>
    BY <1>11, TailOf1, Zenon
  <2>2. s \in Joined
    BY <1>11, Zenon DEF Joined
  <2> QED BY <2>1, <2>2, Zenon
<1>12. CASE s = <<"closeSession", "decrCount">> /\ v.of \in Proc
  BY <1>12, TailOf2, Zenon
<1>13. CASE s = <<"decrCount">>
  BY <1>13, TailOf1, Zenon
<1> QED BY <1>1, <1>2, <1>3, <1>4, <1>5, <1>6, <1>7, <1>8, <1>9, <1>10, <1>11, <1>12, <1>13 DEF ViewerFits, Unjoined, Joining, Joined

\* The statements of the sync of the counters.
LEMMA SyncNext ==
  ASSUME NEW s, NEW v, SyncFits(s, v)
  PROVE  \/ /\ Head(s) = "syncCount" /\ Tail(s) # <<>>
            /\ \A w : w.rows = v.rows /\ w.stream \in DOMAIN v.rows => SyncFits(Tail(s), w)
         \/ /\ Head(s) = "syncRow" /\ v.stream \in DOMAIN v.rows
            /\ \A w : DOMAIN w.rows \subseteq DOMAIN v.rows /\ (\A t \in DOMAIN w.rows : w.rows[t] = v.rows[t])
                      => Tail(s) = <<>> \/ SyncFits(Tail(s), w)
<1>1. s \in Seq({"syncCount", "syncRow"}) /\ s # <<>>
  BY DEF SyncFits
<1>2. /\ Len(s) \in Nat \ {0} /\ Head(s) = s[1] /\ s[1] \in {"syncCount", "syncRow"}
      /\ Tail(s) \in Seq({"syncCount", "syncRow"}) /\ Len(Tail(s)) = Len(s) - 1
      /\ \A i \in 1..(Len(s) - 1) : Tail(s)[i] = s[i + 1]
  BY <1>1
<1> DEFINE r == Tail(s)
<1> HIDE DEF r
<1>3. r \in Seq({"syncCount", "syncRow"}) /\ Len(r) = Len(s) - 1 /\ \A i \in 1..(Len(s) - 1) : r[i] = s[i + 1]
  BY <1>2 DEF r
<1>4. \A i \in 1..(Len(r) - 1) : r[i] # r[i + 1]
  <2>1. \A i \in 1..(Len(s) - 1) : s[i] # s[i + 1]
    BY DEF SyncFits
  <2>2. ASSUME NEW i \in 1..(Len(r) - 1) PROVE i \in 1..(Len(s) - 1) /\ i + 1 \in 1..(Len(s) - 1)
    BY <1>2, <1>3
  <2> QED BY <1>3, <2>1, <2>2
<1>5. ASSUME r # <<>>
      PROVE  /\ r[Len(r)] = "syncRow" /\ Head(r) = r[1] /\ r[1] # s[1]
             /\ r[1] \in {"syncCount", "syncRow"}
  <2>1. Len(r) \in Nat \ {0} /\ Head(r) = r[1]
    BY <1>3, <1>5
  <2>2. r[Len(r)] = s[Len(s)] /\ r[1] = s[1 + 1] /\ 1 \in 1..(Len(s) - 1)
    <3>1. Len(r) \in 1..(Len(s) - 1) /\ Len(r) + 1 = Len(s) /\ 1 \in 1..(Len(s) - 1)
      BY <1>2, <1>3, <2>1
    <3> QED BY <1>3, <3>1
  <2>3. r[1] \in {"syncCount", "syncRow"}
    BY <1>3, <2>1
  <2>4. s[Len(s)] = "syncRow" /\ s[1] # s[1 + 1]
    BY <2>2 DEF SyncFits
  <2> QED BY <2>1, <2>2, <2>3, <2>4
<1>6. CASE s[1] = "syncCount"
  <2>1. r # <<>>
    <3>1. s[Len(s)] = "syncRow"
      BY DEF SyncFits
    <3>2. Len(s) # 1
      BY <1>6, <3>1
    <3> QED BY <1>2, <1>3, <3>2
  <2>2. ASSUME NEW w, w.rows = v.rows, w.stream \in DOMAIN v.rows PROVE SyncFits(r, w)
    BY <1>3, <1>4, <1>5, <2>1, <2>2 DEF SyncFits
  <2> QED BY <1>2, <1>6, <2>1, <2>2 DEF r
<1>7. CASE s[1] = "syncRow"
  <2>1. v.stream \in DOMAIN v.rows
    BY <1>2, <1>7 DEF SyncFits
  <2>2. ASSUME NEW w, DOMAIN w.rows \subseteq DOMAIN v.rows, \A t \in DOMAIN w.rows : w.rows[t] = v.rows[t],
               r # <<>>
        PROVE  SyncFits(r, w)
    <3>1. Head(r) = "syncCount"
      BY <1>5, <1>7, <2>2
    <3> QED BY <1>3, <1>4, <1>5, <2>2, <3>1 DEF SyncFits
  <2> QED BY <1>2, <1>7, <2>1, <2>2 DEF r
<1> QED BY <1>2, <1>6, <1>7

Fit(p) == fate[p] = "running" => StreamFits(p, plan[p], seen[p])

\* A call that goes on to what fits it.
LEMMA FollowFits ==
  ASSUME CallInv, NEW p \in Proc, NEW s, NEW v, Follow(p, s, v), s = <<>> \/ StreamFits(p, s, v)
  PROVE  Fit(p)'
<1>1. /\ plan'[p] = s /\ job' = job /\ seen'[p] = (IF s = <<>> THEN Nothing ELSE v)
      /\ fate'[p] = (IF s = <<>> THEN "done" ELSE "running")
  BY DEF Follow, CallInv, CallTypeOK
<1>2. CASE s = <<>>
  BY <1>1, <1>2 DEF Fit
<1>3. CASE s # <<>> /\ StreamFits(p, s, v)
  <2>1. plan'[p] = s /\ seen'[p] = v /\ job' = job
    BY <1>1, <1>3
  <2> QED BY <1>3, <2>1
          DEF Fit, StreamFits, StartFits, EndFits, HostFits, ViewerFits, SyncFits, Held, Of
<1> QED BY <1>2, <1>3

\* A call that breaks off has nothing more to do.
LEMMA BreakFits ==
  ASSUME CallInv, NEW p \in Proc, Break(p)
  PROVE  Fit(p)'
BY DEF Break, Fit, CallInv, CallTypeOK

\* What a stream request names.
LEMMA StreamJob ==
  ASSUME CallInv, NEW p \in Proc, job[p].kind \in StreamKinds
  PROVE  /\ job[p] \in StreamRequests
         /\ job[p].kind # "syncCounts" => Of(p) \in Stream
         /\ job[p].kind \in {"createStream", "switchMode", "hostWS"} => job[p].user \in Host
         /\ job[p].kind \in {"createStream", "switchMode"} => job[p].mode \in Mode
         /\ job[p].kind \in ViewerKinds => job[p].user \in Viewer /\ job[p].way \in Way
<1>1. job[p] \in StreamRequests
  <2>1. job[p] \notin BattleRequests /\ job[p] \notin ScheduleRequests /\ job[p] \notin WaitRoomRequests
    BY RequestKinds DEF StreamKinds
  <2>2. job[p] \notin ChatRequests
    <3>1. job[p].kind \notin ChatKinds
      BY DEF ChatKinds, StreamKinds
    <3> QED BY <3>1, RequestKinds
  <2>3. job[p] # [kind |-> "none"]
    BY DEF StreamKinds
  <2> QED BY <2>1, <2>2, <2>3, JobOf
<1> QED BY <1>1 DEF StreamRequests, CreateStreamRequest, StartStreamRequest, EndStreamRequest,
       SwitchRoomModeRequest, ServeHostWS, ServeViewerWS, SignalWS, Of, ViewerKinds

\* Which call a statement is of, what it then has to do and what it holds.
StatementFits(p, h, t) ==
  LET k == job[p].kind v == seen[p] IN
  /\ h \in {"insertStream", "updateStream", "resetCount", "autoLink", "linkOccurrence", "linkSchedule",
             "clearCount", "hostOn", "hostPeer", "serving", "removePeer", "hostOff", "grace", "endGone",
             "removeRoom", "viewerPeer", "join", "openSession", "incrCount", "leave", "closeSession",
             "decrCount", "syncCount", "syncRow"}
  /\ h = "insertStream" => k = "createStream" /\ t = <<>>
  /\ h = "updateStream" => /\ Held(v, Of(p))
                           /\ \/ k = "startStream" /\ t = <<"resetCount", "autoLink">> /\ v.row.status = "live"
                              \/ k = "switchMode" /\ t = <<>>
                              \/ k = "endStream" /\ t = <<"clearCount">> /\ v.row.status = "ended"
                              \/ k = "hostWS" /\ t = <<"clearCount", "removeRoom">> /\ v.row.status = "ended"
  /\ h = "resetCount" => k = "startStream" /\ t = <<"autoLink">>
  /\ h = "autoLink" => k = "startStream" /\ t = <<>>
  /\ h = "linkOccurrence" => k = "startStream" /\ t = <<"linkSchedule">> /\ v.schedule \in Schedule /\ v.date \in Date
  /\ h = "linkSchedule" => k = "startStream" /\ t = <<>> /\ v.schedule \in Schedule /\ v.date \in Date
  /\ h = "clearCount" => \/ k = "endStream" /\ t = <<>>
                         \/ k = "hostWS" /\ t = <<"removeRoom">>
  /\ h = "hostOn" => k = "hostWS" /\ t = <<"hostPeer", "serving">>
  /\ h = "hostPeer" => k = "hostWS" /\ t = <<"serving">>
  /\ h = "serving" => k \in ViewerKinds \cup {"hostWS"}
  /\ h = "removePeer" => \/ k = "hostWS" /\ t = <<"hostOff", "grace">>
                         \/ k \in ViewerKinds /\ t = <<"leave">>
  /\ h = "hostOff" => k = "hostWS" /\ t = <<"grace">>
  /\ h = "grace" => k = "hostWS"
  /\ h = "endGone" => k = "hostWS"
  /\ h = "removeRoom" => k = "hostWS" /\ t = <<>>
  /\ h = "viewerPeer" => /\ k \in ViewerKinds
                         /\ \/ plan[p] \in Unjoined /\ t = <<"join", "serving">>
                            \/ plan[p] \in Joined /\ t = <<"serving">>
  /\ h = "join" => k \in ViewerKinds /\ plan[p] \in Unjoined /\ t \in {<<"serving">>, <<"viewerPeer", "serving">>}
  /\ h = "openSession" => /\ k \in ViewerKinds /\ plan[p] \in Joining
                          /\ t \in {<<"incrCount", "serving">>, <<"incrCount", "viewerPeer", "serving">>}
  /\ h = "incrCount" => /\ k \in ViewerKinds /\ plan[p] \in Joined
                        /\ t \in {<<"serving">>, <<"viewerPeer", "serving">>}
  /\ h = "leave" => k \in ViewerKinds /\ plan[p] \in Joined
  /\ h = "closeSession" => /\ k \in ViewerKinds /\ plan[p] = <<"closeSession", "decrCount">>
                           /\ t = <<"decrCount">> /\ v.of \in Proc
  /\ h = "decrCount" => k \in ViewerKinds /\ plan[p] = <<"decrCount">> /\ t = <<>>
  /\ h = "syncCount" => k = "syncCounts"
  /\ h = "syncRow" => k = "syncCounts" /\ v.stream \in DOMAIN v.rows

\* Each statement is one of these.
LEMMA StreamAt ==
  ASSUME CallInv, StreamInv, NEW p \in Proc, job[p].kind \in StreamKinds, fate[p] = "running"
  PROVE  StreamFits(p, plan[p], seen[p]) /\ StatementFits(p, Head(plan[p]), Tail(plan[p]))
<1> DEFINE k == job[p].kind  h == Head(plan[p])  t == Tail(plan[p])  v == seen[p]
<1>1. StreamFits(p, plan[p], v)
  BY DEF StreamInv, Kinds
<1>9. SUFFICES StatementFits(p, h, t)
  BY <1>1
<1>2. CASE k = "createStream"
  <2>1. plan[p] = <<"insertStream">>
    BY <1>1, <1>2 DEF StreamFits
  <2>2. h = "insertStream" /\ t = <<>>
    BY <2>1, TailOf1, Zenon
  <2> HIDE DEF h, t
  <2> QED BY <1>2, <2>1, <2>2 DEF ViewerKinds, StatementFits
<1>3. CASE k = "switchMode"
  <2>1. plan[p] = <<"updateStream">> /\ Held(v, Of(p))
    BY <1>1, <1>3 DEF StreamFits
  <2>2. h = "updateStream" /\ t = <<>>
    BY <2>1, TailOf1, Zenon
  <2> HIDE DEF h, t
  <2> QED BY <1>3, <2>1, <2>2 DEF ViewerKinds, StatementFits
<1>4. CASE k = "startStream"
  <2>1. StartFits(p, plan[p], v)
    BY <1>1, <1>4 DEF StreamFits
  <2>2. \/ h = "updateStream" /\ t = <<"resetCount", "autoLink">> /\ Held(v, Of(p)) /\ v.row.status = "live"
        \/ h = "resetCount" /\ t = <<"autoLink">>
        \/ h = "autoLink" /\ t = <<>>
        \/ /\ h = "linkOccurrence" /\ t = <<"linkSchedule">>
           /\ v.schedule \in Schedule /\ v.date \in Date
        \/ h = "linkSchedule" /\ t = <<>> /\ v.schedule \in Schedule /\ v.date \in Date
    BY <2>1, StartNext, Zenon
  <2> HIDE DEF h, t
  <2> QED BY <1>4, <2>1, <2>2 DEF ViewerKinds, StatementFits
<1>5. CASE k = "endStream"
  <2>1. EndFits(p, plan[p], v)
    BY <1>1, <1>5 DEF StreamFits
  <2>2. \/ h = "updateStream" /\ t = <<"clearCount">> /\ Held(v, Of(p)) /\ v.row.status = "ended"
        \/ h = "clearCount" /\ t = <<>>
    BY <2>1, EndNext, Zenon
  <2> HIDE DEF h, t
  <2> QED BY <1>5, <2>1, <2>2 DEF ViewerKinds, StatementFits
<1>6. CASE k = "hostWS"
  <2>1. HostFits(p, plan[p], v)
    BY <1>1, <1>6 DEF StreamFits
  <2>2. \/ h = "hostOn" /\ t = <<"hostPeer", "serving">>
        \/ h = "hostPeer" /\ t = <<"serving">>
        \/ h = "serving" /\ t = <<>>
        \/ h = "removePeer" /\ t = <<"hostOff", "grace">>
        \/ h = "hostOff" /\ t = <<"grace">>
        \/ h = "grace" /\ t = <<>>
        \/ h = "endGone" /\ t = <<>>
        \/ h = "clearCount" /\ t = <<"removeRoom">>
        \/ h = "removeRoom" /\ t = <<>>
        \/ /\ h = "updateStream" /\ t = <<"clearCount", "removeRoom">>
           /\ Held(v, Of(p)) /\ v.row.status = "ended"
    BY <2>1, HostNext, Zenon
  <2> HIDE DEF h, t
  <2> QED BY <1>6, <2>1, <2>2 DEF ViewerKinds, StatementFits
<1>7. CASE k \in ViewerKinds
  <2>1. ViewerFits(plan[p], v)
    BY <1>1, <1>7 DEF StreamFits
  <2>2. \/ /\ plan[p] \in Unjoined
           /\ \/ h = "viewerPeer" /\ t = <<"join", "serving">>
              \/ h = "join" /\ t \in {<<"serving">>, <<"viewerPeer", "serving">>}
        \/ /\ plan[p] \in Joining /\ h = "openSession"
           /\ t \in {<<"incrCount", "serving">>, <<"incrCount", "viewerPeer", "serving">>}
        \/ /\ plan[p] \in Joined
           /\ \/ h = "incrCount" /\ t \in {<<"serving">>, <<"viewerPeer", "serving">>}
              \/ h = "viewerPeer" /\ t = <<"serving">>
              \/ h = "serving" /\ t = <<>>
              \/ h = "removePeer" /\ t = <<"leave">>
              \/ h = "leave" /\ t = <<>>
        \/ plan[p] = <<"closeSession", "decrCount">> /\ h = "closeSession" /\ t = <<"decrCount">> /\ v.of \in Proc
        \/ plan[p] = <<"decrCount">> /\ h = "decrCount" /\ t = <<>>
    BY <2>1, ViewerNext, Zenon
  <2> HIDE DEF h, t
  <2> QED BY <1>7, <2>1, <2>2 DEF ViewerKinds, StatementFits
<1>8. CASE k = "syncCounts"
  <2>1. SyncFits(plan[p], v)
    BY <1>1, <1>8 DEF StreamFits
  <2>2. h = "syncCount" \/ (h = "syncRow" /\ v.stream \in DOMAIN v.rows)
    BY <2>1, SyncNext
  <2> HIDE DEF h, t
  <2> QED BY <1>8, <2>1, <2>2 DEF ViewerKinds, StatementFits
<1> QED BY <1>2, <1>3, <1>4, <1>5, <1>6, <1>7, <1>8 DEF StreamKinds, ViewerKinds

\* The row of a stream as it ends.
LEMMA EndedRow ==
  ASSUME StreamTypeOK, NEW s \in Stream
  PROVE  AsEnded(s) \in Row /\ AsEnded(s).status = "ended"
<1>1. row[s] \in Row /\ count[s]["room"] \in Int
  BY DEF StreamTypeOK, Way
<1> DEFINE n == Larger(row[s].peak, count[s]["room"])
<1>2. n \in Int
  BY <1>1 DEF Larger, Row
<1>3. AsEnded(s) = [row[s] EXCEPT !.status = "ended", !.peak = n]
  BY DEF AsEnded, GetByID
<1> HIDE DEF n
<1>4. /\ [row[s] EXCEPT !.status = "ended", !.peak = n] \in Row
      /\ [row[s] EXCEPT !.status = "ended", !.peak = n].status = "ended"
  BY <1>1, <1>2 DEF Row
<1> QED BY <1>3, <1>4

\* The statements of one round of the sync of the counters.
LEMMA SyncBegins ==
  ASSUME NEW n \in Nat, NEW v, DOMAIN v.rows \subseteq Stream, \A t \in DOMAIN v.rows : v.rows[t] \in Row
  PROVE  LET s == [i \in 1..2 * n |-> IF i % 2 = 1 THEN "syncCount" ELSE "syncRow"]
         IN  s = <<>> \/ SyncFits(s, v)
<1> DEFINE s == [i \in 1..2 * n |-> IF i % 2 = 1 THEN "syncCount" ELSE "syncRow"]
<1>1. CASE n = 0
  <2>1. s = [i \in 1..0 |-> IF i % 2 = 1 THEN "syncCount" ELSE "syncRow"]
    BY <1>1
  <2> QED BY <2>1
<1>2. CASE n # 0
  <2>1. s \in Seq({"syncCount", "syncRow"}) /\ Len(s) = 2 * n /\ s # <<>> /\ Head(s) = s[1]
    <3>1. s \in [1..2 * n -> {"syncCount", "syncRow"}] /\ 2 * n \in Nat /\ 2 * n # 0
      BY <1>2
    <3>2. s \in Seq({"syncCount", "syncRow"}) /\ Len(s) = 2 * n
      BY <3>1, SeqOf
    <3> HIDE DEF s
    <3> QED BY <3>1, <3>2
  <2>2. s[2 * n] = "syncRow" /\ s[1] = "syncCount"
    <3>1. 2 * n \in 1..2 * n /\ 1 \in 1..2 * n /\ (2 * n) % 2 = 0 /\ 1 % 2 = 1
      BY <1>2
    <3> QED BY <3>1
  <2>3. ASSUME NEW i \in 1..(2 * n - 1) PROVE s[i] # s[i + 1]
    <3>1. i \in 1..2 * n /\ i + 1 \in 1..2 * n /\ (i % 2 = 1 <=> (i + 1) % 2 = 0) /\ (i + 1) % 2 \in {0, 1}
      BY <2>3
    <3> QED BY <3>1
  <2> HIDE DEF s
  <2>4. SyncFits(s, v)
    BY <2>1, <2>2, <2>3 DEF SyncFits
  <2> QED BY <2>4 DEF s
<1> QED BY <1>1, <1>2

\* A call that begins reads the rows and writes nothing.
LEMMA StreamBegins ==
  ASSUME CallInv, StreamInv, NEW p \in Proc, job[p].kind \in StreamKinds,
         \/ CreateStream(p) \/ StartStream(p) \/ SwitchRoomMode(p) \/ EndStream(p)
         \/ OpenHostSocket(p) \/ OpenViewerSocket(p) \/ SyncCounts(p)
  PROVE  /\ Fit(p)' /\ UNCHANGED <<row, session, count, hostKey, room, link>>
         /\ wasTwo' \subseteq Stream
<1> USE DEF Asked, Begin, Refuse, Return
<1>1. StreamTypeOK /\ wasTwo \subseteq Stream /\ \A s \in Stream : row[s] \in Row
  BY DEF StreamInv, StreamTypeOK
<1>2. job[p].kind # "syncCounts" => Of(p) \in Stream
  BY StreamJob
<1>3. CASE CreateStream(p)
  <2>1. StreamFits(p, <<"insertStream">>, Nothing)
    BY <1>3 DEF CreateStream, StreamFits, ViewerKinds
  <2> QED BY <1>1, <1>3, <2>1, FollowFits DEF CreateStream, streamVars
<1>4. CASE StartStream(p)
  <2>1. StreamFits(p, <<"resetCount", "autoLink">>, Nothing)
    BY <1>4 DEF StartStream, StreamFits, StartFits, ViewerKinds
  <2> DEFINE v == [stream |-> Of(p), row |-> [GetByID(Of(p)) EXCEPT !.status = "live"]]
  <2>2. Held(v, Of(p)) /\ v.row.status = "live"
    <3>1. row[Of(p)] \in Row
      BY <1>1, <1>2, <1>4 DEF StartStream
    <3>2. [row[Of(p)] EXCEPT !.status = "live"] \in Row /\ [row[Of(p)] EXCEPT !.status = "live"].status = "live"
      BY <3>1 DEF Row
    <3> QED BY <3>2 DEF Held, GetByID
  <2> HIDE DEF v
  <2>3. StreamFits(p, <<"updateStream", "resetCount", "autoLink">>, v)
    BY <1>4, <2>2 DEF StartStream, StreamFits, StartFits, ViewerKinds
  <2>4. \/ Break(p) \/ Follow(p, <<"resetCount", "autoLink">>, Nothing)
        \/ Follow(p, <<"updateStream", "resetCount", "autoLink">>, v)
    BY <1>4 DEF StartStream, v
  <2> QED BY <1>1, <1>4, <2>1, <2>3, <2>4, FollowFits, BreakFits DEF StartStream, streamVars
<1>5. CASE SwitchRoomMode(p)
  <2> DEFINE v == [stream |-> Of(p), row |-> [GetByID(Of(p)) EXCEPT !.mode = job[p].mode]]
  <2>2. Held(v, Of(p))
    <3>1. row[Of(p)] \in Row /\ job[p].mode \in Mode
      BY <1>1, <1>2, <1>5, StreamJob DEF SwitchRoomMode
    <3>2. [row[Of(p)] EXCEPT !.mode = job[p].mode] \in Row
      BY <3>1 DEF Row
    <3> QED BY <3>2 DEF Held, GetByID
  <2> HIDE DEF v
  <2>3. StreamFits(p, <<"updateStream">>, v)
    BY <1>5, <2>2 DEF SwitchRoomMode, StreamFits, ViewerKinds
  <2>4. Break(p) \/ Follow(p, <<"updateStream">>, v)
    BY <1>5 DEF SwitchRoomMode, v
  <2> QED BY <1>1, <1>5, <2>3, <2>4, FollowFits, BreakFits DEF SwitchRoomMode, streamVars
<1>6. CASE EndStream(p)
  <2> DEFINE v == [stream |-> Of(p), row |-> AsEnded(Of(p))]
  <2>2. Held(v, Of(p)) /\ v.row.status = "ended"
    BY <1>1, <1>2, <1>6, EndedRow DEF EndStream, Held
  <2> HIDE DEF v
  <2>3. StreamFits(p, <<"updateStream", "clearCount">>, v)
    BY <1>6, <2>2 DEF EndStream, StreamFits, EndFits, ViewerKinds
  <2>4. Break(p) \/ Follow(p, <<"updateStream", "clearCount">>, v)
    BY <1>6 DEF EndStream, v
  <2> QED BY <1>1, <1>6, <2>3, <2>4, FollowFits, BreakFits DEF EndStream, streamVars
<1>7. CASE OpenHostSocket(p)
  <2>1. StreamFits(p, <<"hostOn", "hostPeer", "serving">>, Nothing)
    BY <1>7 DEF OpenHostSocket, StreamFits, HostFits, ViewerKinds
  <2>2. Of(p) \in Stream
    BY <1>2, <1>7 DEF OpenHostSocket
  <2> QED BY <1>1, <1>7, <2>1, <2>2, FollowFits, BreakFits DEF OpenHostSocket
<1>8. CASE OpenViewerSocket(p)
  <2>1. job[p].kind \in ViewerKinds
        => /\ StreamFits(p, <<"viewerPeer", "join", "serving">>, Nothing)
           /\ StreamFits(p, <<"join", "viewerPeer", "serving">>, Nothing)
    BY DEF StreamFits, ViewerFits, Unjoined, ViewerKinds
  <2>2. /\ job[p].kind \in ViewerKinds
        /\ \/ Follow(p, <<"viewerPeer", "join", "serving">>, Nothing)
           \/ Follow(p, <<"join", "viewerPeer", "serving">>, Nothing)
    BY <1>8 DEF OpenViewerSocket, ViewerKinds
  <2> QED BY <1>1, <1>8, <2>1, <2>2, FollowFits DEF OpenViewerSocket, streamVars
<1>9. CASE SyncCounts(p)
  <2> DEFINE n == Cardinality(ListLive)
             s == [i \in 1..2 * n |-> IF i % 2 = 1 THEN "syncCount" ELSE "syncRow"]
             v == [rows |-> [t \in ListLive |-> row[t]]]
  <2>1. n \in Nat
    BY FS_CardinalityType DEF StreamInv
  <2>2. DOMAIN v.rows \subseteq Stream /\ \A t \in DOMAIN v.rows : v.rows[t] \in Row
    BY <1>1 DEF ListLive
  <2>3. Follow(p, s, v)
    BY <1>9 DEF SyncCounts
  <2> HIDE DEF n, v
  <2>4. s = <<>> \/ SyncFits(s, v)
    BY <2>1, <2>2, SyncBegins
  <2> HIDE DEF s
  <2>5. s = <<>> \/ StreamFits(p, s, v)
    BY <1>9, <2>4 DEF SyncCounts, StreamFits, ViewerKinds
  <2> QED BY <1>1, <1>9, <2>3, <2>5, FollowFits DEF SyncCounts, streamVars
<1> QED BY <1>3, <1>4, <1>5, <1>6, <1>7, <1>8, <1>9

\* One row is written: the live ones are those there were, or one more.
LEMMA LiveStaysFinite ==
  ASSUME StreamInv, NEW s \in Stream, NEW r \in Row, row' = row \/ row' = [row EXCEPT ![s] = r]
  PROVE  row' \in [Stream -> Row] /\ IsFiniteSet(ListLive)'
<1>1. row \in [Stream -> Row] /\ IsFiniteSet(ListLive)
  BY DEF StreamInv, StreamTypeOK
<1>2. ListLive' \subseteq ListLive \cup {s}
  BY <1>1 DEF ListLive
<1>3. IsFiniteSet(ListLive \cup {s})
  BY <1>1, FS_AddElement
<1>4. IsFiniteSet(ListLive')
  BY <1>2, <1>3, FS_Subset
<1> QED BY <1>1, <1>4

\* The statements that write a row.
LEMMA RowIsWritten ==
  ASSUME CallInv, StreamInv, NEW p \in Proc, job[p].kind \in StreamKinds,
         Create(p) \/ UpdateStream(p) \/ SyncRow(p)
  PROVE  /\ Fit(p)' /\ UNCHANGED <<session, count, hostKey, room, link, wasTwo>>
         /\ row' \in [Stream -> Row] /\ IsFiniteSet(ListLive)'
<1> USE DEF At, Go, Hold, Continue, Stop, Others
<1>1. fate[p] = "running"
  BY DEF Create, UpdateStream, SyncRow
<1>2. StreamFits(p, plan[p], seen[p]) /\ StatementFits(p, Head(plan[p]), Tail(plan[p]))
  BY <1>1, StreamAt
<1>3. CASE Create(p)
  <2>1. Tail(plan[p]) = <<>> /\ job[p].kind = "createStream"
    BY <1>2, <1>3 DEF Create, StatementFits
  <2> DEFINE r == [status |-> "preparing", host |-> job[p].user, mode |-> job[p].mode, peak |-> 0]
  <2>2. Of(p) \in Stream /\ r \in Row
    BY <2>1, StreamJob DEF Row
  <2>3. row' = [row EXCEPT ![Of(p)] = r]
    BY <1>3 DEF Create, Update
  <2> HIDE DEF r
  <2>4. row' \in [Stream -> Row] /\ IsFiniteSet(ListLive)'
    BY <2>2, <2>3, LiveStaysFinite
  <2>5. Follow(p, <<>>, seen[p])
    BY <1>3, <2>1 DEF Create
  <2> QED BY <1>3, <2>4, <2>5, FollowFits DEF Create
<1>4. CASE UpdateStream(p)
  <2>1. Held(seen[p], Of(p)) /\ job[p].kind # "syncCounts"
    BY <1>2, <1>4 DEF UpdateStream, StatementFits, ViewerKinds
  <2>2. Of(p) \in Stream /\ seen[p].row \in Row /\ seen[p].stream = Of(p)
    BY <2>1, StreamJob DEF Held
  <2>3. row' = row \/ row' = [row EXCEPT ![Of(p)] = seen[p].row]
    BY <1>4, <2>2 DEF UpdateStream, Update
  <2>4. row' \in [Stream -> Row] /\ IsFiniteSet(ListLive)'
    BY <2>2, <2>3, LiveStaysFinite
  <2> DEFINE t == Tail(plan[p])
  <2>5. Follow(p, t, seen[p]) \/ Break(p)
    BY <1>4 DEF UpdateStream
  <2>6. \/ job[p].kind = "startStream" /\ t = <<"resetCount", "autoLink">>
        \/ job[p].kind = "switchMode" /\ t = <<>>
        \/ job[p].kind = "endStream" /\ t = <<"clearCount">>
        \/ job[p].kind = "hostWS" /\ t = <<"clearCount", "removeRoom">>
    BY <1>2, <1>4 DEF UpdateStream, StatementFits
  <2> HIDE DEF t
  <2>7. t = <<>> \/ StreamFits(p, t, seen[p])
    BY <2>6 DEF StreamFits, StartFits, EndFits, HostFits, ViewerKinds
  <2> QED BY <1>4, <2>4, <2>5, <2>7, FollowFits, BreakFits DEF UpdateStream
<1>5. CASE SyncRow(p)
  <2> DEFINE v == seen[p]
             w == [rows |-> [t \in DOMAIN v.rows \ {v.stream} |-> v.rows[t]]]
  <2>1. Head(plan[p]) = "syncRow" /\ job[p].kind = "syncCounts"
    BY <1>2, <1>5 DEF SyncRow, StatementFits
  <2>2. SyncFits(plan[p], v) /\ v.stream \in DOMAIN v.rows
    BY <1>2, <2>1 DEF StreamFits, StatementFits
  <2>3. v.stream \in Stream /\ v.rows[v.stream] \in Row
    BY <2>2 DEF SyncFits
  <2>4. row' = row \/ row' = [row EXCEPT ![v.stream] = v.rows[v.stream]]
    BY <1>5 DEF SyncRow
  <2>5. row' \in [Stream -> Row] /\ IsFiniteSet(ListLive)'
    BY <2>3, <2>4, LiveStaysFinite
  <2>6. Follow(p, Tail(plan[p]), w)
    BY <1>5 DEF SyncRow
  <2>7. DOMAIN w.rows \subseteq DOMAIN v.rows /\ \A t \in DOMAIN w.rows : w.rows[t] = v.rows[t]
    OBVIOUS
  <2> HIDE DEF v, w
  <2>8. Tail(plan[p]) = <<>> \/ SyncFits(Tail(plan[p]), w)
    BY <2>1, <2>2, <2>7, SyncNext
  <2>9. Tail(plan[p]) = <<>> \/ StreamFits(p, Tail(plan[p]), w)
    BY <2>1, <2>8 DEF StreamFits, ViewerKinds
  <2> QED BY <1>5, <2>5, <2>6, <2>9, FollowFits DEF SyncRow
<1> QED BY <1>3, <1>4, <1>5

\* The statements that write a counter.
LEMMA CountIsWritten ==
  ASSUME CallInv, StreamInv, NEW p \in Proc, job[p].kind \in StreamKinds,
         ResetCount(p) \/ ClearCount(p) \/ IncrCount(p) \/ DecrCount(p) \/ SyncCount(p)
  PROVE  /\ Fit(p)' /\ UNCHANGED <<row, session, hostKey, room, link, wasTwo>>
         /\ count' \in [Stream -> [Way -> Int]]
<1> USE DEF At, Go, Hold, Continue, Stop, Others
<1>1. fate[p] = "running"
  BY DEF ResetCount, ClearCount, IncrCount, DecrCount, SyncCount
<1>2. StreamFits(p, plan[p], seen[p]) /\ StatementFits(p, Head(plan[p]), Tail(plan[p]))
  BY <1>1, StreamAt
<1>3. count \in [Stream -> [Way -> Int]]
  BY DEF StreamInv, StreamTypeOK
<1>4. ASSUME NEW s \in Stream, NEW w \in Way, NEW n \in Int, SetCount(s, w, n)
      PROVE  count' \in [Stream -> [Way -> Int]]
  BY <1>3, <1>4 DEF SetCount
<1>5. "room" \in Way /\ "own" \in Way
  BY DEF Way
<1>6. CASE ResetCount(p)
  <2>1. job[p].kind = "startStream" /\ Tail(plan[p]) = <<"autoLink">>
    BY <1>2, <1>6 DEF ResetCount, StatementFits
  <2>2. Follow(p, <<"autoLink">>, seen[p]) /\ StreamFits(p, <<"autoLink">>, seen[p])
    BY <1>6, <2>1 DEF ResetCount, StreamFits, StartFits, ViewerKinds
  <2>3. Of(p) \in Stream
    BY <2>1, StreamJob
  <2> QED BY <1>4, <1>5, <1>6, <2>2, <2>3, FollowFits DEF ResetCount
<1>7. CASE ClearCount(p)
  <2>1. \/ job[p].kind = "endStream" /\ Tail(plan[p]) = <<>>
        \/ job[p].kind = "hostWS" /\ Tail(plan[p]) = <<"removeRoom">>
    BY <1>2, <1>7 DEF ClearCount, StatementFits
  <2>2. Follow(p, Tail(plan[p]), seen[p])
    BY <1>7 DEF ClearCount
  <2>3. Tail(plan[p]) = <<>> \/ StreamFits(p, Tail(plan[p]), seen[p])
    BY <2>1 DEF StreamFits, HostFits, ViewerKinds
  <2>4. Of(p) \in Stream
    BY <2>1, StreamJob
  <2>5. Fit(p)'
    BY <2>2, <2>3, FollowFits
  <2>6. count' \in [Stream -> [Way -> Int]]
    BY <1>4, <1>5, <1>7, <2>4 DEF ClearCount
  <2> QED BY <1>7, <2>5, <2>6 DEF ClearCount
<1>8. CASE IncrCount(p)
  <2> DEFINE w == job[p].way
  <2>1. job[p].kind \in ViewerKinds /\ Tail(plan[p]) \in {<<"serving">>, <<"viewerPeer", "serving">>}
    BY <1>2, <1>8 DEF IncrCount, StatementFits
  <2>2. Follow(p, Tail(plan[p]), seen[p])
    BY <1>8 DEF IncrCount
  <2>3. StreamFits(p, Tail(plan[p]), seen[p])
    BY <2>1 DEF StreamFits, ViewerFits, Joined, ViewerKinds
  <2>4. Of(p) \in Stream /\ w \in Way
    BY <2>1, StreamJob DEF ViewerKinds
  <2>5. count[Of(p)][w] + 1 \in Int /\ SetCount(Of(p), w, count[Of(p)][w] + 1)
    BY <1>3, <1>8, <2>4 DEF IncrCount
  <2> QED BY <1>4, <1>8, <2>2, <2>3, <2>4, <2>5, FollowFits DEF IncrCount
<1>9. CASE DecrCount(p)
  <2> DEFINE w == job[p].way
  <2>1. job[p].kind \in ViewerKinds /\ Tail(plan[p]) = <<>>
    BY <1>2, <1>9 DEF DecrCount, StatementFits
  <2>2. Follow(p, <<>>, seen[p])
    BY <1>9, <2>1 DEF DecrCount
  <2>4. Of(p) \in Stream /\ w \in Way
    BY <2>1, StreamJob DEF ViewerKinds
  <2>5. count[Of(p)][w] - 1 \in Int /\ SetCount(Of(p), w, count[Of(p)][w] - 1)
    BY <1>3, <1>9, <2>4 DEF DecrCount
  <2> QED BY <1>4, <1>9, <2>2, <2>4, <2>5, FollowFits DEF DecrCount
<1>10. CASE SyncCount(p)
  <2> DEFINE v == seen[p]
  <2>1. Head(plan[p]) = "syncCount" /\ job[p].kind = "syncCounts"
    BY <1>2, <1>10 DEF SyncCount, StatementFits
  <2>2. SyncFits(plan[p], v)
    BY <1>2, <2>1 DEF StreamFits
  <2>3. PICK s \in DOMAIN v.rows : SetCount(s, "own", GetViewerCount(s)) /\ Follow(p, Tail(plan[p]), [rows |-> v.rows, stream |-> s])
    BY <1>10 DEF SyncCount
  <2>4. s \in Stream
    BY <2>2 DEF SyncFits
  <2>5. GetViewerCount(s) \in Int
    <3>1. IsFiniteSet(Watching(s, "own"))
      BY <1>5, <2>4 DEF StreamInv
    <3>2. Cardinality(Watching(s, "own")) \in Nat
      BY <3>1, FS_CardinalityType
    <3> QED BY <3>2 DEF GetViewerCount, Watching
  <2> DEFINE w == [rows |-> v.rows, stream |-> s]
  <2>6. w.rows = v.rows /\ w.stream \in DOMAIN v.rows
    OBVIOUS
  <2>7. Follow(p, Tail(plan[p]), w)
    BY <2>3
  <2> HIDE DEF v, w
  <2>8. SyncFits(Tail(plan[p]), w)
    BY <2>1, <2>2, <2>6, SyncNext
  <2>9. StreamFits(p, Tail(plan[p]), w)
    BY <2>1, <2>8 DEF StreamFits, ViewerKinds
  <2> QED BY <1>4, <1>5, <1>10, <2>3, <2>4, <2>5, <2>7, <2>9, FollowFits DEF SyncCount
<1> QED BY <1>6, <1>7, <1>8, <1>9, <1>10

SignalRoom == [host : Proc \cup {NoPeer}, viewers : [Viewer -> Proc \cup {NoPeer}]]
Links == [Proc -> {"none", "new", "negotiated", "closed"}]

OneMore(s, w, r, u) == \A v \in Viewer : r.viewers[v] # NoPeer => v = u \/ room[s][w].viewers[v] # NoPeer

\* One room is changed: those that watch are those there were, or one more.
LEMMA RoomIsWritten ==
  ASSUME StreamInv, NEW s \in Stream, NEW w \in Way, NEW r \in SignalRoom, NEW u,
         room' = [room EXCEPT ![s][w] = r], OneMore(s, w, r, u)
  PROVE  /\ room' \in [Stream -> [Way -> SignalRoom]]
         /\ \A t \in Stream, x \in Way : IsFiniteSet(Watching(t, x)')
<1>1. room \in [Stream -> [Way -> SignalRoom]]
  BY DEF StreamInv, StreamTypeOK, SignalRoom
<1>2. room' \in [Stream -> [Way -> SignalRoom]]
  BY <1>1
<1>3. ASSUME NEW t \in Stream, NEW x \in Way PROVE IsFiniteSet(Watching(t, x)')
  <2>1. IsFiniteSet(Watching(t, x) \cup {u})
    BY FS_AddElement DEF StreamInv
  <2>2. Watching(t, x)' \subseteq Watching(t, x) \cup {u}
    <3>1. CASE t = s /\ x = w
      <4>1. room'[t][x] = r
        BY <1>1, <3>1
      <4> QED BY <3>1, <4>1 DEF Watching, OneMore
    <3>2. CASE t # s \/ x # w
      <4>1. room'[t][x] = room[t][x]
        BY <1>1, <3>2
      <4> QED BY <4>1 DEF Watching
    <3> QED BY <3>1, <3>2
  <2> QED BY <2>1, <2>2, FS_Subset
<1> QED BY <1>2, <1>3

\* The statements about peers.
LEMMA PeersMove ==
  ASSUME CallInv, StreamInv, NEW p \in Proc, job[p].kind \in StreamKinds,
         \/ HandleHostConnection(p) \/ RemovePeer(p) \/ RemoveRoom(p) \/ HandleViewerConnection(p)
  PROVE  /\ Fit(p)' /\ UNCHANGED <<row, session, count, hostKey, wasTwo>> /\ link' \in Links
         /\ room' \in [Stream -> [Way -> SignalRoom]]
         /\ \A t \in Stream, x \in Way : IsFiniteSet(Watching(t, x)')
<1> USE DEF At, Go, Hold, Continue
<1>1. fate[p] = "running"
  BY DEF HandleHostConnection, RemovePeer, RemoveRoom, HandleViewerConnection
<1>2. StreamFits(p, plan[p], seen[p]) /\ StatementFits(p, Head(plan[p]), Tail(plan[p]))
  BY <1>1, StreamAt
<1>3. link \in Links /\ room \in [Stream -> [Way -> SignalRoom]] /\ "own" \in Way
  BY DEF StreamInv, StreamTypeOK, SignalRoom, Links, Way
<1>4. \A S : Close(S) \in Links
  BY <1>3 DEF Close, Links
<1>5. \A r \in SignalRoom, q \in Proc \cup {NoPeer} :
        [r EXCEPT !.host = q] \in SignalRoom /\ [r EXCEPT !.host = q].viewers = r.viewers
  BY DEF SignalRoom
<1>6. ASSUME NEW r \in SignalRoom, NEW u \in Viewer, NEW q \in Proc \cup {NoPeer}
      PROVE  /\ [r EXCEPT !.viewers[u] = q] \in SignalRoom
             /\ \A v \in Viewer : v # u => [r EXCEPT !.viewers[u] = q].viewers[v] = r.viewers[v]
  BY DEF SignalRoom
<1>7. CASE HandleHostConnection(p)
  <2>1. job[p].kind = "hostWS" /\ Tail(plan[p]) = <<"serving">>
    BY <1>2, <1>7 DEF HandleHostConnection, StatementFits
  <2>2. Of(p) \in Stream
    BY <2>1, StreamJob
  <2>3. Follow(p, <<"serving">>, [since |-> now]) /\ StreamFits(p, <<"serving">>, [since |-> now])
    BY <1>7, <2>1 DEF HandleHostConnection, StreamFits, HostFits, ViewerKinds
  <2>4. link' \in Links
    BY <1>4, <1>7 DEF HandleHostConnection, Links
  <2> DEFINE r == [room[Of(p)]["own"] EXCEPT !.host = p]
  <2>5. r \in SignalRoom /\ r.viewers = room[Of(p)]["own"].viewers
    BY <1>3, <1>5, <2>2
  <2>6. room' = [room EXCEPT ![Of(p)]["own"] = r]
    BY <1>3, <1>7, <2>2 DEF HandleHostConnection
  <2> HIDE DEF r
  <2>8. OneMore(Of(p), "own", r, p)
    BY <2>5 DEF OneMore
  <2>7. /\ room' \in [Stream -> [Way -> SignalRoom]]
        /\ \A t \in Stream, x \in Way : IsFiniteSet(Watching(t, x)')
    BY <1>3, <2>2, <2>5, <2>6, <2>8, RoomIsWritten
  <2> QED BY <1>7, <2>3, <2>4, <2>7, FollowFits DEF HandleHostConnection
<1>8. CASE RemovePeer(p) /\ job[p].kind = "hostWS"
  <2>1. Tail(plan[p]) = <<"hostOff", "grace">>
    BY <1>2, <1>8 DEF RemovePeer, StatementFits, ViewerKinds
  <2>2. Of(p) \in Stream
    BY <1>8, StreamJob
  <2>3. Follow(p, <<"hostOff", "grace">>, seen[p]) /\ StreamFits(p, <<"hostOff", "grace">>, seen[p])
    BY <1>8, <2>1 DEF RemovePeer, StreamFits, HostFits, ViewerKinds
  <2>4. link' \in Links
    BY <1>4, <1>8 DEF RemovePeer
  <2> DEFINE r == [room[Of(p)]["own"] EXCEPT !.host = NoPeer]
  <2>5. r \in SignalRoom /\ r.viewers = room[Of(p)]["own"].viewers
    BY <1>3, <1>5, <2>2
  <2>6. room' = [room EXCEPT ![Of(p)]["own"] = r]
    BY <1>3, <1>8, <2>2 DEF RemovePeer
  <2> HIDE DEF r
  <2>8. OneMore(Of(p), "own", r, p)
    BY <2>5 DEF OneMore
  <2>7. /\ room' \in [Stream -> [Way -> SignalRoom]]
        /\ \A t \in Stream, x \in Way : IsFiniteSet(Watching(t, x)')
    BY <1>3, <2>2, <2>5, <2>6, <2>8, RoomIsWritten
  <2> QED BY <1>8, <2>3, <2>4, <2>7, FollowFits DEF RemovePeer
<1>9. CASE RemovePeer(p) /\ job[p].kind # "hostWS"
  <2> DEFINE w == job[p].way  u == job[p].user
  <2>1. job[p].kind \in ViewerKinds /\ Tail(plan[p]) = <<"leave">>
    BY <1>2, <1>9 DEF RemovePeer, StatementFits
  <2>2. Of(p) \in Stream /\ w \in Way /\ u \in Viewer
    BY <2>1, StreamJob DEF ViewerKinds
  <2>3. Follow(p, <<"leave">>, seen[p]) /\ StreamFits(p, <<"leave">>, seen[p])
    BY <1>9, <2>1 DEF RemovePeer, StreamFits, ViewerFits, Joined, ViewerKinds
  <2>4. link' \in Links
    BY <1>4, <1>9 DEF RemovePeer
  <2> DEFINE r == [room[Of(p)][w] EXCEPT !.viewers[u] = NoPeer]
  <2>9. room[Of(p)][w] \in SignalRoom /\ NoPeer \in Proc \cup {NoPeer}
    BY <1>3, <2>2
  <2>5. r \in SignalRoom /\ \A v \in Viewer : v # u => r.viewers[v] = room[Of(p)][w].viewers[v]
    BY <1>6, <2>2, <2>9
  <2>6. room' = [room EXCEPT ![Of(p)][w] = r]
    BY <1>3, <1>9, <2>2 DEF RemovePeer
  <2> HIDE DEF r
  <2>8. OneMore(Of(p), w, r, u)
    BY <2>5 DEF OneMore
  <2>7. /\ room' \in [Stream -> [Way -> SignalRoom]]
        /\ \A t \in Stream, x \in Way : IsFiniteSet(Watching(t, x)')
    BY <2>2, <2>5, <2>6, <2>8, RoomIsWritten
  <2> QED BY <1>9, <2>3, <2>4, <2>7, FollowFits DEF RemovePeer
<1>10. CASE HandleViewerConnection(p)
  <2> DEFINE w == job[p].way  u == job[p].user
  <2>1. job[p].kind \in ViewerKinds
        /\ (Tail(plan[p]) = <<"join", "serving">> \/ Tail(plan[p]) = <<"serving">>)
    BY <1>2, <1>10 DEF HandleViewerConnection, StatementFits
  <2>2. Of(p) \in Stream /\ w \in Way /\ u \in Viewer
    BY <2>1, StreamJob DEF ViewerKinds
  <2>3. Follow(p, Tail(plan[p]), [since |-> now]) /\ StreamFits(p, Tail(plan[p]), [since |-> now])
    BY <1>10, <2>1 DEF HandleViewerConnection, StreamFits, ViewerFits, Joined, Unjoined, ViewerKinds
  <2>4. link' \in Links
    BY <1>3, <1>10 DEF HandleViewerConnection, Links
  <2> DEFINE r == [room[Of(p)][w] EXCEPT !.viewers[u] = p]
  <2>5. r \in SignalRoom /\ \A v \in Viewer : v # u => r.viewers[v] = room[Of(p)][w].viewers[v]
    BY <1>3, <1>6, <2>2
  <2>6. room' = [room EXCEPT ![Of(p)][w] = r]
    BY <1>3, <1>10, <2>2 DEF HandleViewerConnection
  <2> HIDE DEF r
  <2>8. OneMore(Of(p), w, r, u)
    BY <2>5 DEF OneMore
  <2>7. /\ room' \in [Stream -> [Way -> SignalRoom]]
        /\ \A t \in Stream, x \in Way : IsFiniteSet(Watching(t, x)')
    BY <2>2, <2>5, <2>6, <2>8, RoomIsWritten
  <2> QED BY <1>10, <2>3, <2>4, <2>7, FollowFits DEF HandleViewerConnection
<1>11. CASE RemoveRoom(p)
  <2>1. job[p].kind = "hostWS" /\ Tail(plan[p]) = <<>>
    BY <1>2, <1>11 DEF RemoveRoom, StatementFits
  <2>2. Of(p) \in Stream
    BY <2>1, StreamJob
  <2>3. Follow(p, <<>>, seen[p])
    BY <1>11, <2>1 DEF RemoveRoom
  <2>4. link' \in Links
    BY <1>4, <1>11 DEF RemoveRoom
  <2>5. EmptyRoom \in SignalRoom /\ \A v \in Viewer : EmptyRoom.viewers[v] = NoPeer
    BY DEF EmptyRoom, SignalRoom
  <2>6. room' = [room EXCEPT ![Of(p)]["own"] = EmptyRoom]
    BY <1>11 DEF RemoveRoom
  <2>8. OneMore(Of(p), "own", EmptyRoom, p)
    BY <2>5 DEF OneMore
  <2>7. /\ room' \in [Stream -> [Way -> SignalRoom]]
        /\ \A t \in Stream, x \in Way : IsFiniteSet(Watching(t, x)')
    BY <1>3, <2>2, <2>5, <2>6, <2>8, RoomIsWritten
  <2> QED BY <1>11, <2>3, <2>4, <2>7, FollowFits DEF RemoveRoom
<1> QED BY <1>7, <1>8, <1>9, <1>10, <1>11

\* Sequences are the same if they are so at each place.
LEMMA SameSeq ==
  ASSUME NEW S, NEW s \in Seq(S), NEW t \in Seq(S), Len(s) = Len(t), \A i \in 1..Len(s) : s[i] = t[i]
  PROVE  s = t
OBVIOUS

\* Short sequences, put together.
LEMMA Joins1 == \A a, b : <<a>> \o <<b>> = <<a, b>>
<1> TAKE a, b
<1> DEFINE S == {a, b}  x == <<a>>  y == <<b>>  q == x \o y  z == <<a, b>>
<1>1. /\ x \in Seq(S) /\ Len(x) = 1 /\ y \in Seq(S) /\ Len(y) = 1
      /\ x[1] = a /\ y[1] = b
  OBVIOUS
<1>2. z \in Seq(S) /\ Len(z) = 2 /\ z[1] = a /\ z[2] = b
  OBVIOUS
<1> HIDE DEF S, x, y, z
<1>3. q \in Seq(S) /\ Len(q) = 2 /\ q[1] = a /\ q[2] = b
  <2>1. /\ x \o y \in Seq(S) /\ Len(x \o y) = Len(x) + Len(y)
        /\ \A i \in 1..(Len(x) + Len(y)) : (x \o y)[i] = IF i <= Len(x) THEN x[i] ELSE y[i - Len(x)]
    BY <1>1, ConcatProperties
  <2> QED BY <1>1, <2>1
<1> HIDE DEF q
<1>4. \A i \in 1..Len(q) : q[i] = z[i]
  BY <1>2, <1>3
<1>5. q = z
  BY <1>2, <1>3, <1>4, SameSeq
<1> QED BY <1>5 DEF q, x, y, z

\* Short sequences, put together.
LEMMA Joins2 == \A a, b, c : <<a>> \o <<b, c>> = <<a, b, c>>
<1> TAKE a, b, c
<1> DEFINE S == {a, b, c}  x == <<a>>  y == <<b, c>>  q == x \o y  z == <<a, b, c>>
<1>1. /\ x \in Seq(S) /\ Len(x) = 1 /\ y \in Seq(S) /\ Len(y) = 2
      /\ x[1] = a /\ y[1] = b /\ y[2] = c
  OBVIOUS
<1>2. z \in Seq(S) /\ Len(z) = 3 /\ z[1] = a /\ z[2] = b /\ z[3] = c
  OBVIOUS
<1> HIDE DEF S, x, y, z
<1>3. q \in Seq(S) /\ Len(q) = 3 /\ q[1] = a /\ q[2] = b /\ q[3] = c
  <2>1. /\ x \o y \in Seq(S) /\ Len(x \o y) = Len(x) + Len(y)
        /\ \A i \in 1..(Len(x) + Len(y)) : (x \o y)[i] = IF i <= Len(x) THEN x[i] ELSE y[i - Len(x)]
    BY <1>1, ConcatProperties
  <2> QED BY <1>1, <2>1
<1> HIDE DEF q
<1>4. \A i \in 1..Len(q) : q[i] = z[i]
  BY <1>2, <1>3
<1>5. q = z
  BY <1>2, <1>3, <1>4, SameSeq
<1> QED BY <1>5 DEF q, x, y, z

\* Short sequences, put together.
LEMMA Joins3 == \A a, b, c : <<a, b>> \o <<c>> = <<a, b, c>>
<1> TAKE a, b, c
<1> DEFINE S == {a, b, c}  x == <<a, b>>  y == <<c>>  q == x \o y  z == <<a, b, c>>
<1>1. /\ x \in Seq(S) /\ Len(x) = 2 /\ y \in Seq(S) /\ Len(y) = 1
      /\ x[1] = a /\ x[2] = b /\ y[1] = c
  OBVIOUS
<1>2. z \in Seq(S) /\ Len(z) = 3 /\ z[1] = a /\ z[2] = b /\ z[3] = c
  OBVIOUS
<1> HIDE DEF S, x, y, z
<1>3. q \in Seq(S) /\ Len(q) = 3 /\ q[1] = a /\ q[2] = b /\ q[3] = c
  <2>1. /\ x \o y \in Seq(S) /\ Len(x \o y) = Len(x) + Len(y)
        /\ \A i \in 1..(Len(x) + Len(y)) : (x \o y)[i] = IF i <= Len(x) THEN x[i] ELSE y[i - Len(x)]
    BY <1>1, ConcatProperties
  <2> QED BY <1>1, <2>1
<1> HIDE DEF q
<1>4. \A i \in 1..Len(q) : q[i] = z[i]
  BY <1>2, <1>3
<1>5. q = z
  BY <1>2, <1>3, <1>4, SameSeq
<1> QED BY <1>5 DEF q, x, y, z

\* Short sequences, put together.
LEMMA Joins4 == \A a, b, c, d : <<a, b>> \o <<c, d>> = <<a, b, c, d>>
<1> TAKE a, b, c, d
<1> DEFINE S == {a, b, c, d}  x == <<a, b>>  y == <<c, d>>  q == x \o y  z == <<a, b, c, d>>
<1>1. /\ x \in Seq(S) /\ Len(x) = 2 /\ y \in Seq(S) /\ Len(y) = 2
      /\ x[1] = a /\ x[2] = b /\ y[1] = c /\ y[2] = d
  OBVIOUS
<1>2. z \in Seq(S) /\ Len(z) = 4 /\ z[1] = a /\ z[2] = b /\ z[3] = c /\ z[4] = d
  OBVIOUS
<1> HIDE DEF S, x, y, z
<1>3. q \in Seq(S) /\ Len(q) = 4 /\ q[1] = a /\ q[2] = b /\ q[3] = c /\ q[4] = d
  <2>1. /\ x \o y \in Seq(S) /\ Len(x \o y) = Len(x) + Len(y)
        /\ \A i \in 1..(Len(x) + Len(y)) : (x \o y)[i] = IF i <= Len(x) THEN x[i] ELSE y[i - Len(x)]
    BY <1>1, ConcatProperties
  <2> QED BY <1>1, <2>1
<1> HIDE DEF q
<1>4. \A i \in 1..Len(q) : q[i] = z[i]
  BY <1>2, <1>3
<1>5. q = z
  BY <1>2, <1>3, <1>4, SameSeq
<1> QED BY <1>5 DEF q, x, y, z

\* The statements that write none of these.
LEMMA OthersMove ==
  ASSUME CallInv, StreamInv, NEW p \in Proc, job[p].kind \in StreamKinds,
         \/ HostOn(p) \/ HostOff(p) \/ Negotiate(p) \/ ExpirePeer(p) \/ CloseSocket(p) \/ RejoinTimer(p)
         \/ EndGone(p) \/ JoinStream(p) \/ OpenSession(p) \/ LeaveStream(p) \/ CloseSession(p)
  PROVE  /\ Fit(p)' /\ UNCHANGED <<row, count, room, wasTwo>> /\ link' \in Links
         /\ hostKey' \in [Stream -> BOOLEAN] /\ session' \in [Proc -> {"none", "open", "left"}]
<1> USE DEF At, Go, Hold, Continue, Stop
<1>1. fate[p] = "running"
  BY DEF HostOn, HostOff, Negotiate, ExpirePeer, CloseSocket, RejoinTimer, EndGone, JoinStream,
         OpenSession, LeaveStream, CloseSession
<1>2. StreamFits(p, plan[p], seen[p]) /\ StatementFits(p, Head(plan[p]), Tail(plan[p]))
  BY <1>1, StreamAt
<1>3. link \in Links /\ hostKey \in [Stream -> BOOLEAN] /\ session \in [Proc -> {"none", "open", "left"}]
  BY DEF StreamInv, StreamTypeOK, Links
<1>4. ASSUME HostOn(p) \/ HostOff(p)
      PROVE  /\ job[p].kind = "hostWS" /\ Of(p) \in Stream
             /\ Tail(plan[p]) = <<"hostPeer", "serving">> \/ Tail(plan[p]) = <<"grace">>
  <2>1. job[p].kind = "hostWS" /\ (Tail(plan[p]) = <<"hostPeer", "serving">> \/ Tail(plan[p]) = <<"grace">>)
    BY <1>2, <1>4 DEF HostOn, HostOff, StatementFits
  <2> QED BY <2>1, StreamJob
<1>5. CASE HostOn(p) \/ HostOff(p)
  <2>1. \A v : StreamFits(p, Tail(plan[p]), v)
    BY <1>4, <1>5 DEF StreamFits, HostFits, ViewerKinds
  <2>2. \E v : Follow(p, Tail(plan[p]), v)
    BY <1>5 DEF HostOn, HostOff
  <2>3. hostKey' \in [Stream -> BOOLEAN]
    BY <1>3, <1>5 DEF HostOn, HostOff
  <2> QED BY <1>3, <1>5, <2>1, <2>2, <2>3, FollowFits DEF HostOn, HostOff
<1>6. CASE Negotiate(p) \/ ExpirePeer(p)
  <2>1. Fit(p)'
    BY <1>2, <1>6 DEF Negotiate, ExpirePeer, callVars, Fit, StreamFits, StartFits, EndFits,
                      HostFits, ViewerFits, SyncFits, Held, Of
  <2>2. link' \in Links
    BY <1>3, <1>6 DEF Negotiate, ExpirePeer, Links, Close
  <2> QED BY <1>3, <1>6, <2>1, <2>2 DEF Negotiate, ExpirePeer
<1>7. CASE CloseSocket(p)
  <2>1. \/ job[p].kind = "hostWS" /\ Follow(p, <<"removePeer">> \o <<"hostOff", "grace">>, [since |-> now])
        \/ job[p].kind \in ViewerKinds /\ Follow(p, <<"removePeer">> \o <<"leave">>, [since |-> now])
    BY <1>2, <1>7 DEF CloseSocket, StatementFits, ViewerKinds
  <2>2. /\ <<"removePeer">> \o <<"hostOff", "grace">> = <<"removePeer", "hostOff", "grace">>
        /\ <<"removePeer">> \o <<"leave">> = <<"removePeer", "leave">>
    BY Joins1, Joins2, Zenon
  <2>3. \E s \in {<<"removePeer", "hostOff", "grace">>, <<"removePeer", "leave">>} :
          Follow(p, s, [since |-> now]) /\ StreamFits(p, s, [since |-> now])
    BY <2>1, <2>2 DEF StreamFits, HostFits, ViewerFits, Joined, ViewerKinds
  <2> QED BY <1>3, <1>7, <2>3, FollowFits DEF CloseSocket, streamVars
<1>8. CASE RejoinTimer(p)
  <2>1. job[p].kind = "hostWS"
    BY <1>2, <1>8 DEF RejoinTimer, StatementFits
  <2>2. Follow(p, <<>>, Nothing) \/ Follow(p, <<"endGone">>, Nothing)
    BY <1>8 DEF RejoinTimer
  <2>3. StreamFits(p, <<"endGone">>, Nothing)
    BY <2>1 DEF StreamFits, HostFits, ViewerKinds
  <2> QED BY <1>3, <1>8, <2>2, <2>3, FollowFits DEF RejoinTimer, streamVars
<1>9. CASE EndGone(p)
  <2>1. job[p].kind = "hostWS"
    BY <1>2, <1>9 DEF EndGone, StatementFits
  <2>2. Of(p) \in Stream
    BY <2>1, StreamJob
  <2> DEFINE v == [stream |-> Of(p), row |-> AsEnded(Of(p))]
  <2>3. Held(v, Of(p)) /\ v.row.status = "ended"
    BY <2>2, EndedRow DEF StreamInv, Held
  <2>4. Follow(p, <<"updateStream", "clearCount", "removeRoom">>, v) \/ Follow(p, <<"removeRoom">>, Nothing)
    BY <1>9 DEF EndGone
  <2> HIDE DEF v
  <2>5. StreamFits(p, <<"updateStream", "clearCount", "removeRoom">>, v) /\ StreamFits(p, <<"removeRoom">>, Nothing)
    BY <2>1, <2>3 DEF StreamFits, HostFits, ViewerKinds
  <2> QED BY <1>3, <1>9, <2>4, <2>5, FollowFits DEF EndGone, streamVars
<1>10. CASE JoinStream(p)
  <2>1. job[p].kind \in ViewerKinds /\ Tail(plan[p]) \in {<<"serving">>, <<"viewerPeer", "serving">>}
    BY <1>2, <1>10 DEF JoinStream, StatementFits
  <2>2. /\ <<"openSession", "incrCount">> \o <<"serving">> = <<"openSession", "incrCount", "serving">>
        /\ <<"openSession", "incrCount">> \o <<"viewerPeer", "serving">>
             = <<"openSession", "incrCount", "viewerPeer", "serving">>
    BY Joins3, Joins4, Zenon
  <2> DEFINE s == <<"openSession", "incrCount">> \o Tail(plan[p])
  <2>3. Break(p) \/ Follow(p, s, seen[p])
    BY <1>10 DEF JoinStream
  <2>4. s \in Joining
    BY <2>1, <2>2 DEF Joining
  <2> HIDE DEF s
  <2>5. StreamFits(p, s, seen[p])
    BY <2>1, <2>4 DEF StreamFits, ViewerFits, ViewerKinds
  <2> QED BY <1>3, <1>10, <2>3, <2>5, FollowFits, BreakFits DEF JoinStream, streamVars
<1>11. CASE OpenSession(p)
  <2>1. job[p].kind \in ViewerKinds
        /\ Tail(plan[p]) \in {<<"incrCount", "serving">>, <<"incrCount", "viewerPeer", "serving">>}
    BY <1>2, <1>11 DEF OpenSession, StatementFits
  <2>2. Follow(p, Tail(plan[p]), seen[p])
    BY <1>11 DEF OpenSession
  <2>3. StreamFits(p, Tail(plan[p]), seen[p])
    BY <2>1 DEF StreamFits, ViewerFits, Joined, ViewerKinds
  <2> QED BY <1>3, <1>11, <2>2, <2>3, FollowFits DEF OpenSession
<1>12. CASE LeaveStream(p)
  <2>1. job[p].kind \in ViewerKinds
    BY <1>2, <1>12 DEF LeaveStream, StatementFits
  <2>2. \A q \in Proc : StreamFits(p, <<"closeSession", "decrCount">>, [of |-> q])
    BY <2>1 DEF StreamFits, ViewerFits, ViewerKinds
  <2>3. Break(p) \/ \E q \in Proc : Follow(p, <<"closeSession", "decrCount">>, [of |-> q])
    BY <1>12 DEF LeaveStream, ActiveSession, Kinds
  <2> QED BY <1>3, <1>12, <2>2, <2>3, FollowFits, BreakFits DEF LeaveStream, streamVars
<1>13. CASE CloseSession(p)
  <2>1. job[p].kind \in ViewerKinds /\ Tail(plan[p]) = <<"decrCount">> /\ seen[p].of \in Proc
    BY <1>2, <1>13 DEF CloseSession, StatementFits
  <2>2. Follow(p, <<"decrCount">>, seen[p]) /\ StreamFits(p, <<"decrCount">>, seen[p])
    BY <1>13, <2>1 DEF CloseSession, StreamFits, ViewerFits, ViewerKinds
  <2>3. session' \in [Proc -> {"none", "open", "left"}]
    BY <1>3, <1>13, <2>1 DEF CloseSession
  <2> QED BY <1>3, <1>13, <2>2, <2>3, FollowFits DEF CloseSession
<1> QED BY <1>5, <1>6, <1>7, <1>8, <1>9, <1>10, <1>11, <1>12, <1>13

\* A statement that fails and is passed over leaves what fits.
LEMMA SkipFits ==
  ASSUME CallInv, StreamInv, NEW p \in Proc, job[p].kind \in StreamKinds, Fault(p, Ignored)
  PROVE  Fit(p)'
<1>1. fate[p] = "running"
  BY DEF Fault
<1>2. StreamFits(p, plan[p], seen[p]) /\ StatementFits(p, Head(plan[p]), Tail(plan[p]))
  BY <1>1, StreamAt
<1>3. ASSUME Head(plan[p]) \in Ignored
      PROVE  Tail(plan[p]) = <<>> \/ StreamFits(p, Tail(plan[p]), seen[p])
  <2> DEFINE h == Head(plan[p]) t == Tail(plan[p])
  <2>1. h \in {"resetCount", "clearCount", "hostOn", "hostOff", "incrCount", "decrCount", "autoLink"}
    BY <1>2, <1>3 DEF StatementFits, Ignored, IgnoredStream, IgnoredBattle, IgnoredSchedule
  <2>2. StatementFits(p, h, t)
    BY <1>2
  <2> HIDE DEF h, t
  <2>3. \/ t = <<>>
        \/ job[p].kind = "startStream" /\ t = <<"autoLink">>
        \/ job[p].kind = "hostWS" /\ t \in {<<"removeRoom">>, <<"hostPeer", "serving">>, <<"grace">>}
        \/ job[p].kind \in ViewerKinds /\ t \in {<<"serving">>, <<"viewerPeer", "serving">>}
    BY <2>1, <2>2 DEF StatementFits
  <2>4. t = <<>> \/ StreamFits(p, t, seen[p])
    BY <2>3 DEF StreamFits, StartFits, HostFits, ViewerFits, Joined, ViewerKinds
  <2> QED BY <2>4 DEF t
<1>4. Break(p) \/ (Head(plan[p]) \in Ignored /\ Follow(p, Tail(plan[p]), seen[p]))
  BY DEF Fault
<1> QED BY <1>3, <1>4, FollowFits, BreakFits

\* The statements of a stream's start about schedules.
LEMMA LinkFits ==
  ASSUME CallInv, StreamInv, NEW p \in Proc, job[p].kind \in StreamKinds, ScheduleStep(p)
  PROVE  Fit(p)' /\ (CheckAndAutoLinkStream(p) \/ LinkOccurrence(p) \/ LinkSchedule(p))
<1> USE DEF At, Go, Hold, Continue
<1>1. ASSUME fate[p] = "running"
      PROVE  StreamFits(p, plan[p], seen[p]) /\ StatementFits(p, Head(plan[p]), Tail(plan[p]))
  BY <1>1, StreamAt
<1>2. CheckAndAutoLinkStream(p) \/ LinkOccurrence(p) \/ LinkSchedule(p)
  <2>1. ~ (\/ CreateSchedule(p) \/ UpdateSchedule(p) \/ CancelSchedule(p) \/ CancelOccurrence(p)
           \/ RefillAllOccurrences(p) \/ Subscription(p) \/ CheckAndSendTieredReminders(p))
    BY DEF CreateSchedule, UpdateSchedule, CancelSchedule, CancelOccurrence, RefillAllOccurrences,
           Subscription, CheckAndSendTieredReminders, Asked, StreamKinds
  <2>2. ~ (\/ InsertSchedule(p) \/ GenerateOccurrences(p) \/ CreateOccurrence(p) \/ WriteSchedule(p)
           \/ Delete(p) \/ CancelFutureOccurrences(p) \/ CancelSingleOccurrence(p))
    BY <1>1 DEF InsertSchedule, GenerateOccurrences, CreateOccurrence, InsertOne, WriteSchedule, Delete,
           CancelFutureOccurrences, CancelSingleOccurrence, StatementFits
  <2>3. ~ (\/ RemindNext(p) \/ UpdateOccurrence(p) \/ CreateWaitRoom(p) \/ LogReminder(p)
           \/ MarkMissedOccurrences(p))
    BY <1>1 DEF RemindNext, UpdateOccurrence, CreateWaitRoom, LogReminder, MarkMissedOccurrences, StatementFits
  <2> QED BY <2>1, <2>2, <2>3 DEF ScheduleStep
<1>3. CASE CheckAndAutoLinkStream(p)
  <2>1. job[p].kind = "startStream" /\ Tail(plan[p]) = <<>>
    BY <1>1, <1>3 DEF CheckAndAutoLinkStream, StatementFits
  <2>2. ASSUME NEW o \in InWindow(row[Of(p)].host)
        PROVE  StreamFits(p, <<"linkOccurrence", "linkSchedule">>, [schedule |-> o[1], date |-> o[2]])
    <3>1. o[1] \in Schedule /\ o[2] \in Date
      BY DEF InWindow
    <3> QED BY <2>1, <3>1 DEF StreamFits, StartFits, ViewerKinds
  <2>3. \/ Follow(p, <<>>, seen[p])
        \/ \E o \in InWindow(row[Of(p)].host) :
             Follow(p, <<"linkOccurrence", "linkSchedule">>, [schedule |-> o[1], date |-> o[2]])
    BY <1>3, <2>1 DEF CheckAndAutoLinkStream
  <2> QED BY <1>2, <2>2, <2>3, FollowFits
<1>4. CASE LinkOccurrence(p) \/ LinkSchedule(p)
  <2>1. /\ job[p].kind = "startStream" /\ (Tail(plan[p]) = <<>> \/ Tail(plan[p]) = <<"linkSchedule">>)
        /\ seen[p].schedule \in Schedule /\ seen[p].date \in Date
    BY <1>1, <1>4 DEF LinkOccurrence, LinkSchedule, StatementFits
  <2>2. Follow(p, Tail(plan[p]), seen[p])
    BY <1>4 DEF LinkOccurrence, LinkSchedule
  <2>3. Tail(plan[p]) = <<>> \/ StreamFits(p, Tail(plan[p]), seen[p])
    BY <2>1 DEF StreamFits, StartFits, ViewerKinds
  <2> QED BY <1>2, <2>2, <2>3, FollowFits
<1> QED BY <1>2, <1>3, <1>4

\* A step of the streams keeps their types, and what its call has to do.
LEMMA StreamKeeps ==
  ASSUME CallInv, StreamInv, NEW p \in Proc, job[p].kind \in StreamKinds, StreamStep(p)
  PROVE  /\ Fit(p)' /\ StreamTypeOK' /\ IsFiniteSet(ListLive)'
         /\ \A s \in Stream, w \in Way : IsFiniteSet(Watching(s, w))'
<1>1. /\ StreamTypeOK /\ IsFiniteSet(ListLive)
      /\ \A s \in Stream, w \in Way : IsFiniteSet(Watching(s, w))
  BY DEF StreamInv
<1>2. row' = row => IsFiniteSet(ListLive)'
  BY <1>1 DEF ListLive
<1>3. room' = room => \A s \in Stream, w \in Way : IsFiniteSet(Watching(s, w))'
  BY <1>1 DEF Watching
<1>4. CASE \/ CreateStream(p) \/ StartStream(p) \/ SwitchRoomMode(p) \/ EndStream(p)
           \/ OpenHostSocket(p) \/ OpenViewerSocket(p) \/ SyncCounts(p)
  <2>1. /\ Fit(p)' /\ UNCHANGED <<row, session, count, hostKey, room, link>> /\ wasTwo' \subseteq Stream
    BY <1>4, StreamBegins
  <2> QED BY <1>1, <1>2, <1>3, <2>1 DEF StreamTypeOK
<1>5. CASE Create(p) \/ UpdateStream(p) \/ SyncRow(p)
  <2>1. /\ Fit(p)' /\ UNCHANGED <<session, count, hostKey, room, link, wasTwo>>
        /\ row' \in [Stream -> Row] /\ IsFiniteSet(ListLive)'
    BY <1>5, RowIsWritten
  <2> QED BY <1>1, <1>3, <2>1 DEF StreamTypeOK
<1>6. CASE ResetCount(p) \/ ClearCount(p) \/ IncrCount(p) \/ DecrCount(p) \/ SyncCount(p)
  <2>1. /\ Fit(p)' /\ UNCHANGED <<row, session, hostKey, room, link, wasTwo>>
        /\ count' \in [Stream -> [Way -> Int]]
    BY <1>6, CountIsWritten
  <2> QED BY <1>1, <1>2, <1>3, <2>1 DEF StreamTypeOK
<1>7. CASE HandleHostConnection(p) \/ RemovePeer(p) \/ RemoveRoom(p) \/ HandleViewerConnection(p)
  <2>1. /\ Fit(p)' /\ UNCHANGED <<row, session, count, hostKey, wasTwo>> /\ link' \in Links
        /\ room' \in [Stream -> [Way -> SignalRoom]]
        /\ \A s \in Stream, w \in Way : IsFiniteSet(Watching(s, w)')
    BY <1>7, PeersMove
  <2> QED BY <1>1, <1>2, <2>1 DEF StreamTypeOK, Links, SignalRoom
<1>8. CASE \/ HostOn(p) \/ HostOff(p) \/ Negotiate(p) \/ ExpirePeer(p) \/ CloseSocket(p) \/ RejoinTimer(p)
           \/ EndGone(p) \/ JoinStream(p) \/ OpenSession(p) \/ LeaveStream(p) \/ CloseSession(p)
  <2>1. /\ Fit(p)' /\ UNCHANGED <<row, count, room, wasTwo>> /\ link' \in Links
        /\ hostKey' \in [Stream -> BOOLEAN] /\ session' \in [Proc -> {"none", "open", "left"}]
    BY <1>8, OthersMove
  <2> QED BY <1>1, <1>2, <1>3, <2>1 DEF StreamTypeOK, Links
<1> QED BY <1>4, <1>5, <1>6, <1>7, <1>8 DEF StreamStep

\* Which steps there are, as the streams see them.
StreamCases ==
  \/ \E p \in Proc : job[p].kind \in StreamKinds /\ StreamStep(p) /\ faults' = faults
  \/ \E p \in Proc : /\ job[p].kind \in StreamKinds /\ UNCHANGED streamVars
                     /\ ScheduleStep(p) \/ (Fault(p, Ignored) /\ faults' # 0)
  \/ UNCHANGED streamVars /\ \E p \in Proc : job[p].kind \notin StreamKinds /\ RestOf(p)
  \/ UNCHANGED streamVars /\ Rest

\* A step of the streams is no fault.
LEMMA StreamNoFault ==
  ASSUME NEW p \in Proc, StreamStep(p)
  PROVE  faults' = faults
<1> USE DEF Hold, Continue, Return, Begin, Begins, Refuse, Go, Stop, callVars
<1>1. CASE \/ CreateStream(p) \/ Create(p) \/ StartStream(p) \/ SwitchRoomMode(p) \/ EndStream(p)
           \/ UpdateStream(p) \/ ResetCount(p) \/ ClearCount(p)
  BY <1>1 DEF CreateStream, Create, StartStream, SwitchRoomMode, EndStream, UpdateStream,
              ResetCount, ClearCount
<1>2. CASE \/ OpenHostSocket(p) \/ HostOn(p) \/ HandleHostConnection(p) \/ Negotiate(p)
           \/ ExpirePeer(p) \/ CloseSocket(p) \/ RemovePeer(p) \/ HostOff(p)
  BY <1>2 DEF OpenHostSocket, HostOn, HandleHostConnection, Negotiate, ExpirePeer, CloseSocket,
              RemovePeer, HostOff
<1>3. CASE \/ RejoinTimer(p) \/ EndGone(p) \/ RemoveRoom(p) \/ OpenViewerSocket(p)
           \/ HandleViewerConnection(p) \/ JoinStream(p) \/ OpenSession(p) \/ IncrCount(p)
  BY <1>3 DEF RejoinTimer, EndGone, RemoveRoom, OpenViewerSocket, HandleViewerConnection,
              JoinStream, OpenSession, IncrCount
<1>4. CASE \/ LeaveStream(p) \/ CloseSession(p) \/ DecrCount(p) \/ SyncCounts(p)
           \/ SyncCount(p) \/ SyncRow(p)
  BY <1>4 DEF LeaveStream, CloseSession, DecrCount, SyncCounts, SyncCount, SyncRow
<1> QED BY <1>1, <1>2, <1>3, <1>4 DEF StreamStep

\* Every step is one of these.
LEMMA StepsOfStreams ==
  ASSUME CallInv, [Next]_vars
  PROVE  StreamCases
<1>1. CASE Step
  <2>1. ASSUME NEW p \in Proc, job[p] \in StreamRequests, StreamStep(p) PROVE StreamCases
    <3>1. job[p].kind \in StreamKinds
      BY <2>1, RequestKinds DEF StreamKinds
    <3> QED BY <2>1, <3>1, StreamNoFault DEF StreamCases
  <2>2. ASSUME NEW p \in Proc, Moves(p) \/ Slips(p), job[p].kind \notin StreamKinds, UNCHANGED streamVars
        PROVE  StreamCases
    BY <2>2, MoveIsOwn DEF StreamCases
  <2>3. ASSUME NEW p \in Proc, job[p] \in BattleRequests, BattleStep(p) PROVE StreamCases
    <3>1. job[p].kind \notin StreamKinds
      BY <2>3, RequestKinds DEF StreamKinds
    <3> QED BY <2>2, <2>3, <3>1, BattleMoves DEF BattleStep
  <2>4. ASSUME NEW p \in Proc, ScheduleStep(p) PROVE StreamCases
    BY <2>2, <2>4, ScheduleMoves DEF ScheduleStep, StreamCases
  <2>5. ASSUME NEW p \in Proc, Fault(p, Ignored), UNCHANGED streamVars PROVE StreamCases
    <3>1. faults' # 0
      BY <2>5, CallAssumption DEF Fault, CallInv, CallTypeOK
    <3> QED BY <2>2, <2>5, <3>1 DEF StreamCases, Moves
  <2>6. ASSUME WaitRoomStep PROVE StreamCases
    <3>1. UNCHANGED streamVars /\ (Rest \/ \E p \in Kind("waitWS") : Moves(p) \/ Slips(p))
      BY <2>6, WaitRoomMoves DEF WaitRoomStep
    <3> QED BY <2>2, <3>1 DEF StreamCases, Kind, StreamKinds
  <2>7. ASSUME ChatStep, UNCHANGED streamVars PROVE StreamCases
    <3>1. CASE HubRegister \/ HubUnregister \/ BrokerStep
      <4>1. Rest
        BY <3>1 DEF HubRegister, HubUnregister, BrokerStep, RunRegister, RunUnregister, Rest, callVars
      <4> QED BY <2>7, <4>1 DEF StreamCases
    <3>2. CASE ~ (HubRegister \/ HubUnregister \/ BrokerStep)
      <4>1. PICK p \in Proc : job[p] \in ChatRequests /\ (Moves(p) \/ Slips(p))
        BY <2>7, <3>2, ChatCallMoves DEF ChatStep
      <4>2. job[p].kind \in ChatKinds
        BY <4>1, RequestKinds
      <4>3. job[p].kind \notin StreamKinds
        BY <4>2 DEF ChatKinds, StreamKinds
      <4> QED BY <2>2, <2>7, <4>1, <4>3
    <3> QED BY <3>1, <3>2
  <2> QED BY <1>1, <2>1, <2>3, <2>4, <2>5, <2>6, <2>7 DEF Step
<1>2. CASE Tick /\ UNCHANGED streamVars
  BY <1>2 DEF Tick, Rest, StreamCases
<1>3. CASE UNCHANGED vars
  BY <1>3 DEF vars, callVars, Rest, StreamCases
<1> QED BY <1>1, <1>2, <1>3 DEF Next


\* What the other steps leave alone.
LEMMA OtherFits ==
  ASSUME StreamInv, NEW p \in Proc, RestOf(p), NEW q \in Proc \ {p}, job[q].kind \in StreamKinds
  PROVE  Fit(q)'
<1>1. fate'[q] = fate[q] /\ plan'[q] = plan[q] /\ seen'[q] = seen[q] /\ job' = job
  BY DEF RestOf
<1>2. Fit(q)
  BY DEF StreamInv, Fit, Kinds
<1> QED BY <1>1, <1>2 DEF Fit, StreamFits, StartFits, EndFits, HostFits, ViewerFits, SyncFits, Held, Of

\* Each step keeps what the streams are and their calls hold.
LEMMA StreamsStep ==
  ASSUME CallInv, StreamInv, [Next]_vars
  PROVE  StreamInv'
<1>1. ASSUME UNCHANGED streamVars
      PROVE  /\ StreamTypeOK' /\ IsFiniteSet(ListLive)'
             /\ \A s \in Stream, w \in Way : IsFiniteSet(Watching(s, w))'
  BY <1>1 DEF StreamInv, StreamTypeOK, streamVars, ListLive, Watching
<1>2. ASSUME NEW p \in Proc, RestOf(p), job[p].kind \in StreamKinds => Fit(p)',
             StreamTypeOK', IsFiniteSet(ListLive)', \A s \in Stream, w \in Way : IsFiniteSet(Watching(s, w))'
      PROVE  StreamInv'
  <2>1. job' = job
    BY <1>2 DEF RestOf
  <2>2. ASSUME NEW q \in Proc, job[q].kind \in StreamKinds PROVE Fit(q)'
    BY <1>2, <2>2, OtherFits
  <2> QED BY <1>2, <2>1, <2>2 DEF StreamInv, Fit, Kinds
<1>3. ASSUME NEW p \in Proc, job[p].kind \in StreamKinds, StreamStep(p) PROVE StreamInv'
  <2>1. /\ Fit(p)' /\ StreamTypeOK' /\ IsFiniteSet(ListLive)'
        /\ \A s \in Stream, w \in Way : IsFiniteSet(Watching(s, w))'
    BY <1>3, StreamKeeps
  <2>2. CASE UNCHANGED callVars
    <3>1. \A q \in Kinds(StreamKinds) : Fit(q)
      BY DEF StreamInv, Fit
    <3>2. \A q \in Proc : Fit(q)' <=> Fit(q)
      BY <2>2 DEF callVars, Fit, StreamFits, StartFits, EndFits, HostFits, ViewerFits, SyncFits, Held, Of
    <3> QED BY <2>1, <2>2, <3>1, <3>2 DEF StreamInv, Fit, Kinds, callVars
  <2> QED BY <1>2, <1>3, <2>1, <2>2, StreamMoves, MoveIsOwn
<1>4. ASSUME NEW p \in Proc, job[p].kind \in StreamKinds, UNCHANGED streamVars,
             ScheduleStep(p) \/ Fault(p, Ignored)
      PROVE  StreamInv'
  <2>1. Fit(p)'
    BY <1>4, LinkFits, SkipFits
  <2>2. RestOf(p)
    BY <1>4, ScheduleMoves, MoveIsOwn DEF Moves
  <2> QED BY <1>1, <1>2, <1>4, <2>1, <2>2
<1>5. ASSUME UNCHANGED streamVars, NEW p \in Proc, job[p].kind \notin StreamKinds, RestOf(p) PROVE StreamInv'
  BY <1>1, <1>2, <1>5
<1>6. ASSUME UNCHANGED streamVars, Rest PROVE StreamInv'
  <2>1. \A q \in Kinds(StreamKinds) : Fit(q)
    BY DEF StreamInv, Fit
  <2>2. \A q \in Proc : Fit(q)' <=> Fit(q)
    BY <1>6 DEF Rest, Fit, StreamFits, StartFits, EndFits, HostFits, ViewerFits, SyncFits, Held, Of
  <2> QED BY <1>1, <1>6, <2>1, <2>2 DEF StreamInv, Fit, Kinds, Rest
<1> QED BY <1>3, <1>4, <1>5, <1>6, StepsOfStreams DEF StreamCases

\* The state of the streams is what it should be, and their calls hold what
\* the rest of their work needs.
LEMMA StreamsHold == Spec => []StreamInv
<1>1. Init => StreamInv
  <2> SUFFICES ASSUME Init PROVE StreamInv
    OBVIOUS
  <2>1. StreamTypeOK
    <3>1. (CHOOSE h \in Host : TRUE) \in Host
      BY StreamAssumption
    <3>2. \A s \in DOMAIN OldStreams : OldStreams[s].host \in Host /\ s \in Stream
      BY StreamAssumption
    <3>3. row \in [Stream -> Row]
      BY <3>1, <3>2 DEF Init, StreamInit, Row, Mode
    <3>4. room \in [Stream -> [Way -> SignalRoom]]
      BY DEF Init, StreamInit, EmptyRoom, SignalRoom
    <3> QED BY <3>3, <3>4 DEF Init, StreamInit, StreamTypeOK, SignalRoom
  <2>2. IsFiniteSet(ListLive)
    <3>1. ListLive \subseteq DOMAIN OldStreams
      BY DEF Init, StreamInit, ListLive
    <3> QED BY <3>1, FS_Subset, StreamAssumption
  <2>3. \A s \in Stream, w \in Way : IsFiniteSet(Watching(s, w))
    <3>1. \A s \in Stream, w \in Way : Watching(s, w) = {}
      BY DEF Init, StreamInit, Watching, EmptyRoom
    <3> QED BY <3>1, FS_EmptySet
  <2>4. \A p \in Proc : fate[p] # "running"
    BY DEF Init, CallInit
  <2> QED BY <2>1, <2>2, <2>3, <2>4 DEF StreamInv, Kinds
<1>2. CallInv /\ StreamInv /\ [Next]_vars => StreamInv'
  BY StreamsStep
<1> QED BY <1>1, <1>2, CallsHold, PTL DEF Spec

-----------------------------------------------------------------------------
(***************************************************************************)
(* Streams: the sockets of the host and the key that says one is there.    *)
(***************************************************************************)
Here(p) == fate[p] = "running" /\ Head(plan[p]) \in HostPresent
Keyed(p) == fate[p] = "running" /\ Head(plan[p]) \in {"hostPeer", "serving"}

HostOfKey(s) == /\ \A p, q \in Kind("hostWS") : Of(p) = s /\ Of(q) = s /\ Here(p) /\ Here(q) => p = q
                /\ \A p \in Kind("hostWS") : Of(p) = s /\ Keyed(p) => hostKey[s]
HostInv == faults = 0 => \A s \in Stream \ wasTwo : HostOfKey(s)

\* What a step of the streams does to the sockets of hosts and their keys.
HostEffect(p) ==
  \/ job[p].kind # "hostWS" /\ hostKey' = hostKey
  \/ ~Here(p)' /\ hostKey' = hostKey
  \/ job[p].kind = "hostWS" /\ ~Here(p)' /\ Here(p) /\ hostKey' = [hostKey EXCEPT ![Of(p)] = FALSE]
  \/ Here(p)' /\ Here(p) /\ hostKey' = [hostKey EXCEPT ![Of(p)] = TRUE]
  \/ Here(p)' /\ Here(p) /\ hostKey' = hostKey /\ (Keyed(p)' => Keyed(p))
  \/ /\ Here(p)' /\ ~Keyed(p)' /\ hostKey' = hostKey
     /\ (\E q \in Kind("hostWS") : Of(q) = Of(p) /\ Here(q)) => Of(p) \in wasTwo'

\* Sockets of hosts, and their keys, step by step.
LEMMA HostSteps ==
  ASSUME CallInv, StreamInv, NEW p \in Proc, job[p].kind \in StreamKinds, StreamStep(p)
  PROVE  wasTwo \subseteq wasTwo' /\ HostEffect(p)
<1> USE DEF At, Hold, Continue, Go
<1>1. fate[p] = "running" => StatementFits(p, Head(plan[p]), Tail(plan[p]))
  BY StreamAt
<1>2. \A s, v : Follow(p, s, v) => fate'[p] = (IF s = <<>> THEN "done" ELSE "running") /\ plan'[p] = s
  BY DEF Follow, CallInv, CallTypeOK
<1>3. Break(p) => fate'[p] = "failed"
  BY DEF Break, CallInv, CallTypeOK
<1>4. CASE \/ CreateStream(p) \/ Create(p) \/ StartStream(p) \/ SwitchRoomMode(p) \/ EndStream(p)
           \/ ResetCount(p) \/ OpenViewerSocket(p) \/ HandleViewerConnection(p)
  BY <1>1, <1>4 DEF CreateStream, Create, StartStream, SwitchRoomMode, EndStream, ResetCount, OpenViewerSocket,
       HandleViewerConnection, StatementFits, ViewerKinds, HostEffect, Others, streamVars, Asked
<1>5. CASE \/ JoinStream(p) \/ OpenSession(p) \/ IncrCount(p) \/ LeaveStream(p) \/ CloseSession(p)
           \/ DecrCount(p) \/ SyncCounts(p) \/ SyncCount(p) \/ SyncRow(p)
  BY <1>1, <1>5 DEF JoinStream, OpenSession, IncrCount, LeaveStream, CloseSession, DecrCount, SyncCounts,
       SyncCount, SyncRow, StatementFits, ViewerKinds, HostEffect, Others, streamVars, Asked
<1>6. CASE UpdateStream(p) \/ ClearCount(p) \/ RejoinTimer(p) \/ EndGone(p) \/ RemoveRoom(p)
  <2>1. hostKey' = hostKey /\ wasTwo' = wasTwo
    BY <1>6 DEF UpdateStream, ClearCount, RejoinTimer, EndGone, RemoveRoom, Others, streamVars
  <2>2. CASE job[p].kind = "hostWS"
    <3>1. \/ Break(p) \/ \E v : \/ Follow(p, <<"clearCount", "removeRoom">>, v) \/ Follow(p, <<"removeRoom">>, v)
                                \/ Follow(p, <<>>, v) \/ Follow(p, <<"endGone">>, v)
                                \/ Follow(p, <<"updateStream", "clearCount", "removeRoom">>, v)
      <4>1. CASE UpdateStream(p)
        <5>1. Tail(plan[p]) = <<"clearCount", "removeRoom">>
          BY <1>1, <2>2, <4>1 DEF UpdateStream, StatementFits
        <5> QED BY <4>1, <5>1 DEF UpdateStream, Stop
      <4>2. CASE ClearCount(p)
        <5>1. Tail(plan[p]) = <<"removeRoom">>
          BY <1>1, <2>2, <4>2 DEF ClearCount, StatementFits
        <5> QED BY <4>2, <5>1 DEF ClearCount
      <4>3. CASE RemoveRoom(p)
        <5>1. Tail(plan[p]) = <<>>
          BY <1>1, <2>2, <4>3 DEF RemoveRoom, StatementFits
        <5> QED BY <4>3, <5>1 DEF RemoveRoom
      <4>4. CASE RejoinTimer(p)
        BY <4>4 DEF RejoinTimer
      <4>5. CASE EndGone(p)
        BY <4>5 DEF EndGone
      <4> QED BY <1>6, <4>1, <4>2, <4>3, <4>4, <4>5
    <3>2. \A s \in {<<"clearCount", "removeRoom">>, <<"removeRoom">>, <<"endGone">>,
                     <<"updateStream", "clearCount", "removeRoom">>} : Head(s) \notin HostPresent
      BY TailOf1, TailOf2, TailOf3 DEF HostPresent
    <3>3. ~Here(p)'
      BY <1>2, <1>3, <3>1, <3>2 DEF Here
    <3> QED BY <2>1, <3>3 DEF HostEffect
  <2> QED BY <2>1, <2>2 DEF HostEffect
<1>7. CASE OpenHostSocket(p)
  <2>1. hostKey' = hostKey /\ wasTwo \subseteq wasTwo' /\ job[p].kind = "hostWS"
    BY <1>7 DEF OpenHostSocket, Asked
  <2>2. CASE Refuse(p)
    BY <1>3, <2>1, <2>2 DEF Refuse, Here, HostEffect
  <2>3. CASE /\ Begin(p, <<"hostOn", "hostPeer", "serving">>, Nothing)
             /\ wasTwo' = IF HostsOf(Of(p)) # {} THEN wasTwo \cup {Of(p)} ELSE wasTwo
    <3>1. fate'[p] = "running" /\ Head(plan'[p]) = "hostOn"
      BY <1>2, <2>3, TailOf3 DEF Begin
    <3>2. Here(p)' /\ ~Keyed(p)'
      BY <3>1 DEF Here, Keyed, HostPresent
    <3>3. (\E q \in Kind("hostWS") : Of(q) = Of(p) /\ Here(q)) => Of(p) \in wasTwo'
      BY <2>3 DEF HostsOf, Here
    <3> QED BY <2>1, <3>2, <3>3 DEF HostEffect
  <2> QED BY <1>7, <2>2, <2>3 DEF OpenHostSocket
<1>8. CASE HostOn(p) \/ HandleHostConnection(p) \/ HostOff(p)
  <2>1. /\ job[p].kind = "hostWS" /\ wasTwo' = wasTwo /\ fate[p] = "running"
        /\ \/ HostOn(p) /\ Tail(plan[p]) = <<"hostPeer", "serving">>
           \/ HandleHostConnection(p) /\ Tail(plan[p]) = <<"serving">>
           \/ HostOff(p) /\ Tail(plan[p]) = <<"grace">>
    BY <1>1, <1>8 DEF HostOn, HandleHostConnection, HostOff, StatementFits
  <2>2. CASE HostOn(p)
    <3>1. Tail(plan[p]) = <<"hostPeer", "serving">> /\ Head(plan[p]) = "hostOn"
      BY <2>1, <2>2 DEF HostOn, HandleHostConnection, HostOff
    <3>2. fate'[p] = "running" /\ Head(plan'[p]) = "hostPeer"
      BY <1>2, <2>2, <3>1, TailOf2 DEF HostOn
    <3> QED BY <2>1, <2>2, <3>1, <3>2 DEF HostOn, HostEffect, Here, HostPresent
  <2>3. CASE HandleHostConnection(p)
    <3>1. Tail(plan[p]) = <<"serving">> /\ Head(plan[p]) = "hostPeer"
      BY <2>1, <2>3 DEF HostOn, HandleHostConnection, HostOff
    <3>2. fate'[p] = "running" /\ Head(plan'[p]) = "serving"
      BY <1>2, <2>3, <3>1, TailOf1 DEF HandleHostConnection
    <3> QED BY <2>1, <2>3, <3>1, <3>2 DEF HandleHostConnection, HostEffect, Here, Keyed, HostPresent
  <2>4. CASE HostOff(p)
    <3>1. Tail(plan[p]) = <<"grace">> /\ Head(plan[p]) = "hostOff"
      BY <2>1, <2>4 DEF HostOn, HandleHostConnection, HostOff
    <3>2. fate'[p] = "running" /\ Head(plan'[p]) = "grace"
      BY <1>2, <2>4, <3>1, TailOf1 DEF HostOff
    <3> QED BY <2>1, <2>4, <3>1, <3>2 DEF HostOff, HostEffect, Here, HostPresent
  <2> QED BY <1>8, <2>2, <2>3, <2>4
<1>9. CASE Negotiate(p) \/ ExpirePeer(p)
  <2>1. UNCHANGED <<fate, plan, hostKey, wasTwo>> /\ fate[p] = "running" /\ Head(plan[p]) = "serving"
    BY <1>9 DEF Negotiate, ExpirePeer, callVars
  <2> QED BY <2>1 DEF HostEffect, Here, Keyed, HostPresent
<1>10. CASE CloseSocket(p)
  <2>1. UNCHANGED <<hostKey, wasTwo>> /\ fate[p] = "running" /\ Head(plan[p]) = "serving"
    BY <1>10 DEF CloseSocket, streamVars
  <2>2. <<"removePeer">> \o <<"hostOff", "grace">> = <<"removePeer", "hostOff", "grace">>
    BY Joins2
  <2>3. CASE job[p].kind = "hostWS"
    <3>1. Follow(p, <<"removePeer", "hostOff", "grace">>, [since |-> now])
      BY <1>10, <2>2, <2>3 DEF CloseSocket
    <3>2. fate'[p] = "running" /\ Head(plan'[p]) = "removePeer"
      BY <1>2, <3>1, TailOf3
    <3> QED BY <2>1, <3>2 DEF HostEffect, Here, Keyed, HostPresent
  <2> QED BY <2>1, <2>3 DEF HostEffect
<1>11. CASE RemovePeer(p)
  <2>1. UNCHANGED <<hostKey, wasTwo>> /\ fate[p] = "running" /\ Head(plan[p]) = "removePeer"
    BY <1>11 DEF RemovePeer
  <2>2. CASE job[p].kind = "hostWS"
    <3>1. Tail(plan[p]) = <<"hostOff", "grace">>
      BY <1>1, <2>1, <2>2 DEF StatementFits, ViewerKinds
    <3>2. fate'[p] = "running" /\ Head(plan'[p]) = "hostOff"
      BY <1>2, <1>11, <3>1, TailOf2 DEF RemovePeer
    <3> QED BY <2>1, <3>2 DEF HostEffect, Here, Keyed, HostPresent
  <2> QED BY <2>1, <2>2 DEF HostEffect
<1> QED BY <1>4, <1>5, <1>6, <1>7, <1>8, <1>9, <1>10, <1>11 DEF StreamStep

\* A stream that never had two sockets of its host at once has one at most,
\* and the key is on while that socket is served.
LEMMA HostsHold == Spec => []HostInv
<1>1. Init => HostInv
  BY DEF Init, CallInit, HostInv, HostOfKey, Kind, Here, Keyed
<1>2. CallInv /\ StreamInv /\ HostInv /\ [Next]_vars => HostInv'
  <2> SUFFICES ASSUME CallInv, StreamInv, HostInv, [Next]_vars, faults' = 0,
                      NEW s \in Stream, s \notin wasTwo'
               PROVE  HostOfKey(s)'
    BY DEF HostInv
  <2>1. faults = 0
    BY FaultsGrow
  <2>2. ASSUME wasTwo \subseteq wasTwo', job' = job,
               \A q \in Kind("hostWS") : Of(q) = s => (Here(q)' => Here(q)) /\ (Keyed(q)' => Keyed(q)),
               hostKey'[s] = hostKey[s]
        PROVE  HostOfKey(s)'
    <3>1. HostOfKey(s)
      BY <2>1, <2>2 DEF HostInv
    <3> QED BY <2>2, <3>1 DEF HostOfKey, Kind, Of
  <2>3. ASSUME UNCHANGED streamVars, NEW p \in Proc, job[p].kind # "hostWS", RestOf(p) PROVE HostOfKey(s)'
    BY <2>2, <2>3 DEF RestOf, Here, Keyed, Kind, streamVars
  <2>4. ASSUME NEW p \in Proc, job[p].kind \in StreamKinds, UNCHANGED streamVars, ScheduleStep(p)
        PROVE  HostOfKey(s)'
    <3>1. fate[p] = "running" /\ Head(plan[p]) \in {"autoLink", "linkOccurrence", "linkSchedule"}
      BY <2>4, LinkFits DEF CheckAndAutoLinkStream, LinkOccurrence, LinkSchedule, At
    <3>2. job[p].kind # "hostWS"
      BY <2>4, <3>1, StreamAt DEF StatementFits
    <3> QED BY <2>3, <2>4, <3>2, ScheduleMoves, MoveIsOwn
  <2>5. ASSUME UNCHANGED <<streamVars>>, Rest PROVE HostOfKey(s)'
    BY <2>2, <2>5 DEF Rest, Here, Keyed, Kind, streamVars
  <2>6. ASSUME NEW p \in Proc, job[p].kind \in StreamKinds, StreamStep(p) PROVE HostOfKey(s)'
    <3>1. wasTwo \subseteq wasTwo' /\ HostEffect(p)
      BY <2>6, HostSteps
    <3>2. RestOf(p) \/ UNCHANGED callVars
      BY <2>6, StreamMoves, MoveIsOwn
    <3>3. job' = job /\ \A q \in Proc \ {p} : (Here(q)' <=> Here(q)) /\ (Keyed(q)' <=> Keyed(q))
      BY <3>2 DEF RestOf, callVars, Here, Keyed
    <3>4. HostOfKey(s) /\ hostKey \in [Stream -> BOOLEAN]
      BY <2>1, <3>1 DEF HostInv, StreamInv, StreamTypeOK
    <3>5. Keyed(p)' => Here(p)'
      BY DEF Keyed, Here, HostPresent
    <3>6. \A q \in Proc : Keyed(q) => Here(q)
      BY DEF Keyed, Here, HostPresent
    <3>7. CASE job[p].kind # "hostWS" /\ hostKey' = hostKey
      BY <2>2, <3>1, <3>3, <3>7 DEF Kind
    <3>8. CASE ~Here(p)' /\ hostKey' = hostKey
      BY <2>2, <3>1, <3>3, <3>5, <3>8 DEF Kind
    <3>9. CASE job[p].kind = "hostWS" /\ ~Here(p)' /\ Here(p) /\ hostKey' = [hostKey EXCEPT ![Of(p)] = FALSE]
      <4>1. CASE Of(p) = s
        <5>1. \A q \in Kind("hostWS") : Of(q) = s => ~Here(q)'
          BY <3>3, <3>4, <3>9, <4>1 DEF HostOfKey, Kind
        <5>2. \A q \in Proc : Keyed(q)' => Here(q)'
          BY DEF Keyed, Here, HostPresent
        <5> QED BY <3>3, <5>1, <5>2 DEF HostOfKey, Kind, Of
      <4>2. CASE Of(p) # s
        BY <2>2, <3>1, <3>3, <3>4, <3>9, <4>2 DEF Kind
      <4> QED BY <3>9, <4>1, <4>2
    <3>10. CASE Here(p)' /\ Here(p) /\ hostKey' = [hostKey EXCEPT ![Of(p)] = TRUE]
      <4>1. (hostKey[s] => hostKey'[s]) /\ (Of(p) = s => hostKey'[s])
        BY <3>4, <3>10
      <4> QED BY <3>3, <3>4, <3>10, <4>1 DEF HostOfKey, Kind, Of
    <3>11. CASE Here(p)' /\ Here(p) /\ hostKey' = hostKey /\ (Keyed(p)' => Keyed(p))
      BY <2>2, <3>1, <3>3, <3>11 DEF Kind
    <3>12. CASE /\ Here(p)' /\ ~Keyed(p)' /\ hostKey' = hostKey
                /\ (\E q \in Kind("hostWS") : Of(q) = Of(p) /\ Here(q)) => Of(p) \in wasTwo'
      <4>1. CASE Of(p) = s
        <5>1. \A q \in Kind("hostWS") : Of(q) = s => ~Here(q)
          BY <3>12, <4>1
        <5>2. \A q \in Kind("hostWS") : Of(q) = s /\ q # p => ~Here(q)'
          BY <3>3, <5>1 DEF Kind
        <5>3. \A q \in Kind("hostWS") : Of(q) = s => ~Keyed(q)'
          BY <3>3, <3>6, <3>12, <5>1 DEF Kind
        <5> QED BY <3>3, <5>2, <5>3 DEF HostOfKey, Kind, Of
      <4>2. CASE Of(p) # s
        BY <2>2, <3>1, <3>3, <3>12, <4>2 DEF Kind
      <4> QED BY <4>1, <4>2
    <3> QED BY <3>1, <3>7, <3>8, <3>9, <3>10, <3>11, <3>12 DEF HostEffect
  <2>7. ASSUME NEW p \in Proc, UNCHANGED streamVars, Fault(p, Ignored), faults' # 0 PROVE HostOfKey(s)'
    BY <2>7
  <2>8. ASSUME UNCHANGED streamVars, NEW p \in Proc, job[p].kind \notin StreamKinds, RestOf(p)
        PROVE  HostOfKey(s)'
    BY <2>3, <2>8 DEF StreamKinds
  <2> QED BY <2>4, <2>5, <2>6, <2>7, <2>8, StepsOfStreams DEF StreamCases
<1> QED BY <1>1, <1>2, CallsHold, StreamsHold, PTL DEF Spec

\* The timer of a host finds the key that its stream's one socket has set.
THEOREM HostIsSpared == Spec => TimerSparesHost
<1>1. CallInv /\ StreamInv /\ HostInv /\ [Next]_vars
      => [\A p \in Kind("hostWS") :
            At(p, "grace") /\ At(p, "endGone")' /\ faults = 0 /\ Of(p) \notin wasTwo
              => \A q \in HostsOf(Of(p)) : Head(plan[q]) \in {"hostOn", "removePeer", "hostOff"}]_callVars
  <2> SUFFICES ASSUME CallInv, StreamInv, HostInv, [Next]_vars, NEW p \in Kind("hostWS"),
                      At(p, "grace"), At(p, "endGone")', faults = 0, Of(p) \notin wasTwo,
                      NEW q \in HostsOf(Of(p))
               PROVE  Head(plan[q]) \in {"hostOn", "removePeer", "hostOff"}
    OBVIOUS
  <2>1. /\ p \in Proc /\ job[p].kind = "hostWS" /\ Of(p) \in Stream
        /\ fate[p] = "running" /\ Head(plan[p]) = "grace" /\ Head(plan'[p]) = "endGone"
    BY StreamJob DEF Kind, At, StreamKinds
  <2>2. q \in Kind("hostWS") /\ Of(q) = Of(p) /\ fate[q] = "running" /\ Head(plan[q]) \in HostPresent
    BY DEF HostsOf
  <2>3. ~hostKey[Of(p)]
    <3>1. ASSUME NEW r \in Proc, RestOf(r) PROVE r = p
      BY <2>1, <3>1 DEF RestOf
    <3>2. \E r \in Proc : \/ StreamStep(r) /\ (RestOf(r) \/ UNCHANGED callVars)
                          \/ ScheduleStep(r) /\ RestOf(r) /\ job[r].kind \in StreamKinds
                          \/ Fault(r, Ignored) /\ RestOf(r)
                          \/ RestOf(r) /\ job[r].kind \notin StreamKinds
                          \/ Rest
      BY <2>1, StepsOfStreams, StreamMoves, ScheduleMoves, MoveIsOwn DEF StreamCases, Moves
    <3>3. ~Rest /\ ~UNCHANGED callVars
      BY <2>1 DEF Rest, callVars
    <3>4. CASE StreamStep(p)
      <4>1. RejoinTimer(p)
        BY <2>1, <3>4 DEF StreamStep, Asked, At,
             CreateStream, Create, StartStream, SwitchRoomMode, EndStream, UpdateStream, ResetCount, ClearCount,
             OpenHostSocket, HostOn, HandleHostConnection, Negotiate, ExpirePeer, CloseSocket, RemovePeer,
             HostOff, EndGone, RemoveRoom, OpenViewerSocket, HandleViewerConnection, JoinStream,
             OpenSession, IncrCount, LeaveStream, CloseSession, DecrCount, SyncCounts, SyncCount, SyncRow
      <4>2. hostKey[Of(p)] => fate'[p] = "done"
        BY <2>1, <4>1 DEF RejoinTimer, Go, Follow, CallInv, CallTypeOK
      <4> QED BY <4>2 DEF At
    <3>5. CASE ScheduleStep(p)
      <4>1. Head(plan[p]) \in {"autoLink", "linkOccurrence", "linkSchedule"}
        BY <2>1, <3>5, LinkFits DEF CheckAndAutoLinkStream, LinkOccurrence, LinkSchedule, At, StreamKinds
      <4> QED BY <2>1, <4>1
    <3>6. CASE Fault(p, Ignored)
      <4>1. Break(p)
        BY <2>1, <3>6 DEF Fault, Ignored, IgnoredStream, IgnoredBattle, IgnoredSchedule
      <4>2. fate'[p] = "failed"
        BY <2>1, <4>1 DEF Break, CallInv, CallTypeOK
      <4> QED BY <4>2 DEF At
    <3> QED BY <2>1, <3>1, <3>2, <3>3, <3>4, <3>5, <3>6 DEF StreamKinds
  <2>4. HostOfKey(Of(p))
    BY <2>1 DEF HostInv
  <2> QED BY <2>2, <2>3, <2>4 DEF HostOfKey, Keyed, HostPresent
<1> QED BY <1>1, CallsHold, StreamsHold, HostsHold, PTL DEF Spec, TimerSparesHost

-----------------------------------------------------------------------------
(***************************************************************************)
(* Streams: an end that lasts.                                             *)
(***************************************************************************)
Clear(p) == \A q \in StreamWriters : ~Overlap(p, q)
HasEnded(p) == Done(p) \/ (fate[p] = "running" /\ Head(plan[p]) = "clearCount")

\* What q has still to write does not take s back from its end.
Spares(q, s) ==
  /\ job[q].kind = "createStream" => Of(q) # s
  /\ job[q].kind = "startStream" /\ Head(plan[q]) = "updateStream" => Of(q) # s
  /\ job[q].kind = "switchMode" /\ Of(q) = s => seen[q].row.status = "ended"
  /\ job[q].kind = "syncCounts" => s \notin DOMAIN seen[q].rows

EndInv ==
  \A p \in Kind("endStream") : HasEnded(p) /\ Clear(p) =>
    /\ row[Of(p)].status = "ended"
    /\ \A q \in StreamWriters \ {p} : fate[q] = "running" => Spares(q, Of(p))

\* Calls that have overlapped have done so for ever.
LEMMA OverlapStays ==
  ASSUME CallInv, NEW p \in Proc, NEW q \in Proc, Overlap(p, q), Rest \/ \E r \in Proc : RestOf(r)
  PROVE  Overlap(p, q)'
<1>1. /\ p # q /\ fate[p] # "new" /\ fate[q] # "new" /\ p \notin past[q] /\ q \notin past[p]
  BY DEF Overlap, Before
<1>2. CASE Rest
  BY <1>1, <1>2 DEF Rest, Overlap, Before
<1>3. ASSUME NEW r \in Proc, RestOf(r) PROVE Overlap(p, q)'
  <2>1. \A x \in {p, q} : fate'[x] # "new" /\ past'[x] = past[x]
    BY <1>1, <1>3 DEF RestOf
  <2> QED BY <1>1, <2>1 DEF Overlap, Before
<1> QED BY <1>2, <1>3

\* While a call runs no other has ended before it that runs as well.
LEMMA RunningOverlap ==
  ASSUME CallInv, NEW p \in Proc, NEW q \in Proc, p # q, fate[p] = "running", fate[q] = "running"
  PROVE  Overlap(p, q)
BY DEF CallInv, Overlap, Before, Over

\* What a call that begins has read of a stream that has ended.
LEMMA BeginSpares ==
  ASSUME CallInv, StreamInv, NEW p \in StreamWriters, NEW s \in Stream, row[s].status = "ended",
         \/ CreateStream(p) \/ StartStream(p) \/ SwitchRoomMode(p) \/ EndStream(p)
         \/ OpenHostSocket(p) \/ OpenViewerSocket(p) \/ SyncCounts(p)
  PROVE  row' = row /\ (fate'[p] = "running" => Spares(p, s)')
<1> USE DEF Asked, Begin, Refuse, Return
<1>1. p \in Proc /\ job[p].kind \in StreamKinds
  BY DEF StreamWriters, Kinds, StreamKinds
<1>2. \A t, v : Follow(p, t, v) =>
        /\ fate'[p] = (IF t = <<>> THEN "done" ELSE "running") /\ plan'[p] = t /\ job' = job
        /\ fate'[p] = "running" => seen'[p] = v
  BY <1>1 DEF Follow, CallInv, CallTypeOK
<1>3. Break(p) => fate'[p] = "failed" /\ job' = job
  BY <1>1 DEF Break, CallInv, CallTypeOK
<1>4. row' = row
  BY <1>1, StreamBegins
<1>5. CASE CreateStream(p)
  BY <1>2, <1>4, <1>5 DEF CreateStream, Spares, Of
<1>6. CASE StartStream(p)
  <2>1. \/ Break(p)
        \/ Follow(p, <<"resetCount", "autoLink">>, Nothing)
        \/ Of(p) # s /\ \E v : Follow(p, <<"updateStream", "resetCount", "autoLink">>, v)
    BY <1>6 DEF StartStream, GetByID
  <2>2. job[p].kind = "startStream" /\ Head(<<"resetCount", "autoLink">>) = "resetCount"
    BY <1>6, TailOf2 DEF StartStream
  <2> QED BY <1>2, <1>3, <1>4, <2>1, <2>2 DEF Spares, Of
<1>7. CASE SwitchRoomMode(p)
  <2> DEFINE v == [stream |-> Of(p), row |-> [GetByID(Of(p)) EXCEPT !.mode = job[p].mode]]
  <2>1. Break(p) \/ Follow(p, <<"updateStream">>, v)
    BY <1>7 DEF SwitchRoomMode
  <2>2. Of(p) = s => v.row.status = "ended"
    <3>1. row[s] \in Row
      BY DEF StreamInv, StreamTypeOK
    <3>2. [row[s] EXCEPT !.mode = job[p].mode].status = row[s].status
      BY <3>1 DEF Row
    <3> QED BY <3>2 DEF GetByID
  <2> HIDE DEF v
  <2>3. job[p].kind = "switchMode"
    BY <1>7 DEF SwitchRoomMode
  <2> QED BY <1>2, <1>3, <1>4, <2>1, <2>2, <2>3 DEF Spares, Of
<1>8. CASE EndStream(p) \/ OpenHostSocket(p) \/ OpenViewerSocket(p)
  <2>1. job[p].kind \in {"endStream", "hostWS", "viewerWS", "signalWS"} /\ job' = job
    BY <1>2, <1>3, <1>8 DEF EndStream, OpenHostSocket, OpenViewerSocket
  <2> QED BY <1>4, <2>1 DEF Spares
<1>9. CASE SyncCounts(p)
  <2>1. PICK t : Follow(p, t, [rows |-> [x \in ListLive |-> row[x]]])
    BY <1>9 DEF SyncCounts
  <2>2. job[p].kind = "syncCounts" /\ s \notin ListLive
    BY <1>9 DEF SyncCounts, ListLive
  <2> QED BY <1>2, <1>4, <2>1, <2>2 DEF Spares
<1> QED BY <1>5, <1>6, <1>7, <1>8, <1>9

\* The next statement of a call that spares a stream spares it.
LEMMA StepSpares ==
  ASSUME CallInv, StreamInv, NEW p \in StreamWriters, NEW s \in Stream, row[s].status = "ended",
         fate[p] = "running", Spares(p, s), StreamStep(p)
  PROVE  row'[s].status = "ended" /\ (fate'[p] = "running" => Spares(p, s)')
<1> USE DEF At, Go, Hold, Continue
<1> DEFINE k == job[p].kind  h == Head(plan[p])
<1>1. p \in Proc /\ k \in {"createStream", "startStream", "endStream", "switchMode", "hostWS", "syncCounts"}
  BY DEF StreamWriters, Kinds
<1>2. StatementFits(p, h, Tail(plan[p]))
  BY <1>1, StreamAt DEF StreamKinds
<1>3. \A t, v : Follow(p, t, v) =>
        /\ fate'[p] = (IF t = <<>> THEN "done" ELSE "running") /\ plan'[p] = t /\ job' = job
        /\ fate'[p] = "running" => seen'[p] = v
  BY <1>1 DEF Follow, CallInv, CallTypeOK
<1>4. row \in [Stream -> Row]
  BY DEF StreamInv, StreamTypeOK
<1>5. CASE k \in {"endStream", "hostWS"}
  <2>1. job' = job
    BY <1>1, StreamMoves, MoveIsOwn DEF RestOf, callVars
  <2>2. Spares(p, s)'
    BY <1>5, <2>1 DEF Spares
  <2>3. row' = row \/ UpdateStream(p)
    <3>1. ~Create(p) /\ ~SyncRow(p)
      BY <1>2, <1>5 DEF Create, SyncRow, StatementFits
    <3>2. CASE \/ CreateStream(p) \/ StartStream(p) \/ SwitchRoomMode(p) \/ EndStream(p)
               \/ OpenHostSocket(p) \/ OpenViewerSocket(p) \/ SyncCounts(p)
               \/ ResetCount(p) \/ ClearCount(p) \/ IncrCount(p) \/ DecrCount(p) \/ SyncCount(p)
      BY <3>2 DEF CreateStream, StartStream, SwitchRoomMode, EndStream, OpenHostSocket, OpenViewerSocket,
           SyncCounts, ResetCount, ClearCount, IncrCount, DecrCount, SyncCount, streamVars
    <3>3. CASE \/ HostOn(p) \/ HandleHostConnection(p) \/ Negotiate(p) \/ ExpirePeer(p) \/ CloseSocket(p)
               \/ RemovePeer(p) \/ HostOff(p) \/ RejoinTimer(p) \/ EndGone(p) \/ RemoveRoom(p)
               \/ HandleViewerConnection(p) \/ JoinStream(p) \/ OpenSession(p) \/ LeaveStream(p) \/ CloseSession(p)
      BY <3>3 DEF HostOn, HandleHostConnection, Negotiate, ExpirePeer, CloseSocket, RemovePeer, HostOff,
           RejoinTimer, EndGone, RemoveRoom, HandleViewerConnection, JoinStream, OpenSession, LeaveStream,
           CloseSession, streamVars
    <3> QED BY <3>1, <3>2, <3>3 DEF StreamStep
  <2>4. row' # row => row' = [row EXCEPT ![seen[p].stream] = seen[p].row] /\ seen[p].row.status = "ended"
    BY <1>2, <1>5, <2>3 DEF UpdateStream, Update, StatementFits
  <2>5. CASE row' = row
    BY <2>2, <2>5
  <2>6. CASE row' # row
    BY <1>4, <2>2, <2>4, <2>6
  <2> QED BY <2>5, <2>6
<1>6. CASE k \notin {"endStream", "hostWS"}
  <2>1. Create(p) \/ UpdateStream(p) \/ ResetCount(p) \/ SyncCount(p) \/ SyncRow(p)
    <3>1. h \in {"insertStream", "updateStream", "resetCount", "autoLink", "linkOccurrence",
                 "linkSchedule", "syncCount", "syncRow"}
                \/ (k = "startStream" /\ h = "clearCount")
      BY <1>1, <1>2, <1>6 DEF StatementFits, ViewerKinds
    <3>2. h # "clearCount"
      BY <1>1, <1>2, <1>6 DEF StatementFits
    <3> HIDE DEF k
    <3> QED BY <3>1, <3>2 DEF StreamStep, Asked,
             CreateStream, StartStream, SwitchRoomMode, EndStream, ClearCount,
             OpenHostSocket, HostOn, HandleHostConnection, Negotiate, ExpirePeer, CloseSocket, RemovePeer,
             HostOff, RejoinTimer, EndGone, RemoveRoom, OpenViewerSocket, HandleViewerConnection, JoinStream,
             OpenSession, IncrCount, LeaveStream, CloseSession, DecrCount, SyncCounts
  <2>2. CASE Create(p)
    <3>1. k = "createStream" /\ Tail(plan[p]) = <<>>
      BY <1>2, <2>2 DEF Create, StatementFits
    <3>2. Of(p) # s /\ fate'[p] = "done"
      BY <1>3, <2>2, <3>1 DEF Create, Spares
    <3> QED BY <1>4, <2>2, <3>2 DEF Create, Update
  <2>3. CASE UpdateStream(p)
    <3>1. \/ Stop(p) /\ row' = row
          \/ row' = [row EXCEPT ![seen[p].stream] = seen[p].row] /\ Follow(p, Tail(plan[p]), seen[p])
      BY <2>3 DEF UpdateStream, Update
    <3>2. /\ seen[p].stream = Of(p)
          /\ \/ k = "startStream" /\ Tail(plan[p]) = <<"resetCount", "autoLink">>
             \/ k = "switchMode" /\ Tail(plan[p]) = <<>>
      BY <1>2, <1>6, <2>3 DEF UpdateStream, StatementFits, Held
    <3>3. k = "startStream" => Of(p) # s
      BY <2>3 DEF UpdateStream, Spares
    <3>4. k = "switchMode" /\ Of(p) = s => seen[p].row.status = "ended"
      BY DEF Spares
    <3>5. row'[s].status = "ended"
      BY <1>4, <3>1, <3>2, <3>3, <3>4
    <3>6. CASE Stop(p)
      BY <1>1, <3>5, <3>6 DEF Stop, Break, CallInv, CallTypeOK
    <3>7. CASE Follow(p, Tail(plan[p]), seen[p]) /\ k = "startStream"
      <4>1. Head(<<"resetCount", "autoLink">>) = "resetCount"
        BY TailOf2
      <4> QED BY <1>3, <3>2, <3>3, <3>5, <3>7, <4>1 DEF Spares, Of
    <3>8. CASE Follow(p, Tail(plan[p]), seen[p]) /\ k = "switchMode"
      BY <1>3, <3>2, <3>5, <3>8
    <3> QED BY <3>1, <3>2, <3>6, <3>7, <3>8
  <2>4. CASE ResetCount(p)
    <3>1. k = "startStream" /\ Tail(plan[p]) = <<"autoLink">> /\ Head(<<"autoLink">>) = "autoLink"
      BY <1>2, <2>4, TailOf1 DEF ResetCount, StatementFits
    <3> QED BY <1>3, <2>4, <3>1 DEF ResetCount, Spares
  <2>5. CASE SyncCount(p)
    <3>1. k = "syncCounts" /\ s \notin DOMAIN seen[p].rows
      BY <1>2, <2>5 DEF SyncCount, StatementFits, Spares
    <3>2. PICK t : Follow(p, Tail(plan[p]), [rows |-> seen[p].rows, stream |-> t]) /\ row' = row
      BY <2>5 DEF SyncCount
    <3> QED BY <1>3, <3>1, <3>2 DEF Spares
  <2>6. CASE SyncRow(p)
    <3>1. k = "syncCounts" /\ s \notin DOMAIN seen[p].rows /\ seen[p].stream \in DOMAIN seen[p].rows
      BY <1>2, <2>6 DEF SyncRow, StatementFits, Spares
    <3> DEFINE v == [rows |-> [t \in DOMAIN seen[p].rows \ {seen[p].stream} |-> seen[p].rows[t]]]
    <3>2. Follow(p, Tail(plan[p]), v) /\ row'[s] = row[s]
      BY <1>4, <2>6, <3>1 DEF SyncRow
    <3>3. s \notin DOMAIN v.rows
      BY <3>1
    <3> HIDE DEF v
    <3> QED BY <1>3, <3>1, <3>2, <3>3 DEF Spares
  <2> QED BY <2>1, <2>2, <2>3, <2>4, <2>5, <2>6
<1> QED BY <1>5, <1>6

\* A statement that fails and is passed over, or is about schedules, spares what
\* its call has spared.
LEMMA PassSpares ==
  ASSUME CallInv, StreamInv, NEW p \in StreamWriters, NEW s \in Stream,
         fate[p] = "running", Spares(p, s), ScheduleStep(p) \/ Fault(p, Ignored)
  PROVE  fate'[p] = "running" => Spares(p, s)'
<1> USE DEF At, Go, Hold, Continue
<1>1. p \in Proc /\ job[p].kind \in {"createStream", "startStream", "endStream", "switchMode", "hostWS", "syncCounts"}
  BY DEF StreamWriters, Kinds
<1>2. StatementFits(p, Head(plan[p]), Tail(plan[p]))
  BY <1>1, StreamAt DEF StreamKinds
<1>3. \A t, v : Follow(p, t, v) =>
        /\ fate'[p] = (IF t = <<>> THEN "done" ELSE "running") /\ plan'[p] = t /\ job' = job
        /\ fate'[p] = "running" => seen'[p] = v
  BY <1>1 DEF Follow, CallInv, CallTypeOK
<1>4. Break(p) => fate'[p] = "failed"
  BY <1>1 DEF Break, CallInv, CallTypeOK
<1>5. CASE ScheduleStep(p)
  <2>1. CheckAndAutoLinkStream(p) \/ LinkOccurrence(p) \/ LinkSchedule(p)
    BY <1>1, <1>5, LinkFits DEF StreamKinds
  <2>2. job[p].kind = "startStream" /\ Tail(plan[p]) \in {<<>>, <<"linkSchedule">>}
    BY <1>2, <2>1 DEF CheckAndAutoLinkStream, LinkOccurrence, LinkSchedule, StatementFits
  <2>3. \E v : \E t \in {<<>>, <<"linkSchedule">>, <<"linkOccurrence", "linkSchedule">>} : Follow(p, t, v)
    BY <2>1, <2>2 DEF CheckAndAutoLinkStream, LinkOccurrence, LinkSchedule
  <2>4. Head(<<"linkSchedule">>) # "updateStream" /\ Head(<<"linkOccurrence", "linkSchedule">>) # "updateStream"
    BY TailOf1, TailOf2
  <2> QED BY <1>3, <2>2, <2>3, <2>4 DEF Spares
<1>6. CASE Fault(p, Ignored)
  <2>1. \/ Break(p)
        \/ Head(plan[p]) \in {"resetCount", "clearCount", "hostOn", "hostOff", "incrCount", "decrCount", "autoLink"}
           /\ Follow(p, Tail(plan[p]), seen[p])
    BY <1>2, <1>6 DEF Fault, Ignored, IgnoredStream, IgnoredBattle, IgnoredSchedule, StatementFits
  <2>2. CASE /\ Head(plan[p]) \in {"resetCount", "clearCount", "hostOn", "hostOff", "incrCount", "decrCount", "autoLink"}
             /\ Follow(p, Tail(plan[p]), seen[p])
    <3>1. \/ job[p].kind = "startStream" /\ Tail(plan[p]) \in {<<>>, <<"autoLink">>}
          \/ job[p].kind \in {"endStream", "hostWS"}
      BY <1>1, <1>2, <2>2 DEF StatementFits, ViewerKinds
    <3>2. Head(<<"autoLink">>) # "updateStream"
      BY TailOf1
    <3> QED BY <1>3, <2>2, <3>1, <3>2 DEF Spares
  <2> QED BY <1>4, <2>1, <2>2
<1> QED BY <1>5, <1>6

\* Nobody but a writer writes the row of a stream.
LEMMA WritersWrite ==
  ASSUME CallInv, StreamInv, NEW p \in Proc, job[p].kind \in StreamKinds, StreamStep(p), row' # row
  PROVE  p \in StreamWriters /\ fate[p] = "running" /\ (Create(p) \/ UpdateStream(p) \/ SyncRow(p))
<1>1. Create(p) \/ UpdateStream(p) \/ SyncRow(p)
  <2>1. CASE \/ CreateStream(p) \/ StartStream(p) \/ SwitchRoomMode(p) \/ EndStream(p)
             \/ OpenHostSocket(p) \/ OpenViewerSocket(p) \/ SyncCounts(p)
             \/ ResetCount(p) \/ ClearCount(p) \/ IncrCount(p) \/ DecrCount(p) \/ SyncCount(p)
    BY <2>1 DEF CreateStream, StartStream, SwitchRoomMode, EndStream, OpenHostSocket, OpenViewerSocket,
         SyncCounts, ResetCount, ClearCount, IncrCount, DecrCount, SyncCount, streamVars
  <2>2. CASE \/ HostOn(p) \/ HandleHostConnection(p) \/ Negotiate(p) \/ ExpirePeer(p) \/ CloseSocket(p)
             \/ RemovePeer(p) \/ HostOff(p) \/ RejoinTimer(p) \/ EndGone(p) \/ RemoveRoom(p)
             \/ HandleViewerConnection(p) \/ JoinStream(p) \/ OpenSession(p) \/ LeaveStream(p) \/ CloseSession(p)
    BY <2>2 DEF HostOn, HandleHostConnection, Negotiate, ExpirePeer, CloseSocket, RemovePeer, HostOff,
         RejoinTimer, EndGone, RemoveRoom, HandleViewerConnection, JoinStream, OpenSession, LeaveStream,
         CloseSession, streamVars
  <2> QED BY <2>1, <2>2 DEF StreamStep
<1>2. fate[p] = "running" /\ Head(plan[p]) \in {"insertStream", "updateStream", "syncRow"}
  BY <1>1 DEF Create, UpdateStream, SyncRow, At
<1>3. p \in StreamWriters
  BY <1>2, StreamAt DEF StatementFits, StreamWriters, Kinds
<1> QED BY <1>1, <1>2, <1>3

\* A new call of the streams begins.
LEMMA NewBegins ==
  ASSUME NEW p \in Proc, fate[p] = "new", StreamStep(p)
  PROVE  \/ CreateStream(p) \/ StartStream(p) \/ SwitchRoomMode(p) \/ EndStream(p)
         \/ OpenHostSocket(p) \/ OpenViewerSocket(p) \/ SyncCounts(p)
BY DEF StreamStep, At, Create, UpdateStream, ResetCount, ClearCount,
       HostOn, HandleHostConnection, Negotiate, ExpirePeer, CloseSocket, RemovePeer,
       HostOff, RejoinTimer, EndGone, RemoveRoom, HandleViewerConnection, JoinStream,
       OpenSession, IncrCount, LeaveStream, CloseSession, DecrCount, SyncCount, SyncRow

\* A step of p, as the streams see it.
MoveBy(p) == \/ job[p].kind \in StreamKinds /\ StreamStep(p)
             \/ job[p].kind \in StreamKinds /\ UNCHANGED streamVars /\ (ScheduleStep(p) \/ Fault(p, Ignored))
             \/ UNCHANGED streamVars /\ job[p].kind \notin StreamKinds

\* The other calls spare a stream that has ended.
LEMMA OthersSpare ==
  ASSUME CallInv, StreamInv, NEW s \in Stream, row[s].status = "ended", NEW p \in Proc,
         p \in StreamWriters /\ fate[p] = "running" => Spares(p, s), MoveBy(p)
  PROVE  row'[s].status = "ended" /\ (p \in StreamWriters /\ fate'[p] = "running" => Spares(p, s)')
<1>1. CASE p \in StreamWriters /\ StreamStep(p)
  <2>1. CASE fate[p] = "new"
    BY <1>1, <2>1, NewBegins, BeginSpares
  <2>2. CASE fate[p] = "running"
    BY <1>1, <2>2, StepSpares
  <2>3. fate[p] = "new" \/ fate[p] = "running"
    <3>1. CASE UNCHANGED callVars
      BY <1>1, <3>1, StreamMoves DEF StreamStep, Asked, At, callVars, Negotiate, ExpirePeer, Moves, Fault,
        CreateStream, Create, StartStream, SwitchRoomMode, EndStream, UpdateStream, ResetCount, ClearCount,
        OpenHostSocket, HostOn, HandleHostConnection, CloseSocket, RemovePeer, HostOff, RejoinTimer, EndGone,
        RemoveRoom, OpenViewerSocket, HandleViewerConnection, JoinStream, OpenSession, IncrCount, LeaveStream,
        CloseSession, DecrCount, SyncCounts, SyncCount, SyncRow
    <3>2. CASE Moves(p)
      BY <3>2 DEF Moves, Fault
    <3> QED BY <1>1, <3>1, <3>2, StreamMoves
  <2> QED BY <2>1, <2>2, <2>3
<1>2. CASE p \notin StreamWriters /\ job[p].kind \in StreamKinds /\ StreamStep(p)
  BY <1>2, WritersWrite
<1>3. CASE job[p].kind \in StreamKinds /\ UNCHANGED streamVars /\ (ScheduleStep(p) \/ Fault(p, Ignored))
  <2>1. row' = row
    BY <1>3 DEF streamVars
  <2>2. fate[p] = "running"
    BY <1>3, LinkFits DEF Fault, CheckAndAutoLinkStream, LinkOccurrence, LinkSchedule, At
  <2> QED BY <1>3, <2>1, <2>2, PassSpares
<1>4. CASE UNCHANGED streamVars /\ job[p].kind \notin StreamKinds
  BY <1>4 DEF streamVars, StreamWriters, Kinds, StreamKinds
<1> QED BY <1>1, <1>2, <1>3, <1>4 DEF MoveBy

\* An end that is written, while none overlaps.
LEMMA EndIsWritten ==
  ASSUME CallInv, StreamInv, EndInv, NEW p \in Kind("endStream"), Clear(p), HasEnded(p)', RestOf(p), MoveBy(p)
  PROVE  /\ row'[Of(p)].status = "ended"
         /\ \A q \in StreamWriters \ {p} : fate[q] = "running" => Spares(q, Of(p))
<1>1. p \in Proc /\ job[p].kind = "endStream" /\ p \in StreamWriters /\ Of(p) \in Stream
      /\ (StreamStep(p) \/ (UNCHANGED streamVars /\ (ScheduleStep(p) \/ Fault(p, Ignored))))
  BY StreamJob DEF Kind, StreamWriters, Kinds, StreamKinds, MoveBy
<1>2. CASE HasEnded(p)
  <2>1. /\ row[Of(p)].status = "ended"
        /\ \A q \in StreamWriters \ {p} : fate[q] = "running" => Spares(q, Of(p))
    BY <1>2 DEF EndInv
  <2>2. row' = row
    <3>1. ~Create(p) /\ ~UpdateStream(p) /\ ~SyncRow(p)
      BY <1>2 DEF HasEnded, Done, Create, UpdateStream, SyncRow, At
    <3> QED BY <1>1, <3>1, WritersWrite DEF streamVars, StreamKinds
  <2> QED BY <2>1, <2>2
<1>3. CASE ~HasEnded(p)
  <2>1. fate[p] # "running" => StreamStep(p) /\ fate[p] = "new"
    <3>1. fate[p] \in {"new", "running"}
      BY <1>1 DEF RestOf, CallInv, CallTypeOK, Over
    <3>2. ScheduleStep(p) => fate[p] = "running"
      BY <1>1, LinkFits DEF CheckAndAutoLinkStream, LinkOccurrence, LinkSchedule, At, StreamKinds
    <3> QED BY <1>1, <3>1, <3>2 DEF Fault
  <2>2. \A t, v : Follow(p, t, v) => fate'[p] = (IF t = <<>> THEN "done" ELSE "running") /\ plan'[p] = t
    BY <1>1 DEF Follow, CallInv, CallTypeOK
  <2>3. Break(p) => ~HasEnded(p)'
    BY <1>1 DEF Break, CallInv, CallTypeOK, HasEnded, Done
  <2>4. CASE fate[p] = "new"
    <3>1. EndStream(p)
      BY <1>1, <2>1, <2>4, NewBegins DEF CreateStream, StartStream, SwitchRoomMode, OpenHostSocket,
         OpenViewerSocket, SyncCounts, Asked
    <3>2. Head(<<"updateStream", "clearCount">>) = "updateStream" /\ <<"updateStream", "clearCount">> # <<>>
      BY TailOf2
    <3> QED BY <2>2, <2>3, <3>1, <3>2 DEF EndStream, Begin, Refuse, HasEnded, Done
  <2>5. CASE fate[p] = "running"
    <3>1. StatementFits(p, Head(plan[p]), Tail(plan[p]))
      BY <1>1, <2>5, StreamAt DEF StreamKinds
    <3>2. Head(plan[p]) = "updateStream"
      <4>1. StreamFits(p, plan[p], seen[p])
        BY <1>1, <2>5, StreamAt DEF StreamKinds
      <4>2. EndFits(p, plan[p], seen[p])
        BY <1>1, <4>1 DEF StreamFits
      <4> QED BY <1>3, <2>5, <4>2, EndNext DEF HasEnded
    <3>3. UpdateStream(p)
      <4>1. CASE ScheduleStep(p)
        BY <1>1, <3>2, <4>1, LinkFits DEF CheckAndAutoLinkStream, LinkOccurrence, LinkSchedule, At, StreamKinds
      <4>2. CASE Fault(p, Ignored)
        BY <2>3, <3>2, <4>2 DEF Fault, Ignored, IgnoredStream, IgnoredBattle, IgnoredSchedule
      <4>3. CASE StreamStep(p)
        BY <2>5, <3>2, <4>3 DEF StreamStep, Asked, At,
             CreateStream, Create, StartStream, SwitchRoomMode, EndStream, ResetCount, ClearCount,
             OpenHostSocket, HostOn, HandleHostConnection, Negotiate, ExpirePeer, CloseSocket, RemovePeer,
             HostOff, RejoinTimer, EndGone, RemoveRoom, OpenViewerSocket, HandleViewerConnection, JoinStream,
             OpenSession, IncrCount, LeaveStream, CloseSession, DecrCount, SyncCounts, SyncCount, SyncRow
      <4> QED BY <1>1, <4>1, <4>2, <4>3
    <3>4. row' = [row EXCEPT ![Of(p)] = seen[p].row] /\ seen[p].row.status = "ended"
      BY <1>1, <2>3, <3>1, <3>3 DEF UpdateStream, Update, Stop, StatementFits, Held, At
    <3>5. row'[Of(p)].status = "ended"
      BY <1>1, <3>4 DEF StreamInv, StreamTypeOK
    <3>6. \A q \in StreamWriters \ {p} : fate[q] # "running"
      BY <1>1, <2>5, RunningOverlap DEF Clear, StreamWriters, Kinds
    <3> QED BY <3>5, <3>6
  <2> QED BY <2>1, <2>4, <2>5
<1> QED BY <1>2, <1>3

\* A stream that was ended while no other writer ran stays so through each step.
LEMMA EndHolds == Spec => []EndInv
<1>1. Init => EndInv
  BY DEF Init, CallInit, EndInv, Kind, HasEnded, Done
<1>2. CallInv /\ StreamInv /\ EndInv /\ [Next]_vars => EndInv'
  <2> SUFFICES ASSUME CallInv, StreamInv, EndInv, [Next]_vars PROVE EndInv'
    OBVIOUS
  <2>1. Rest \/ \E r \in Proc : RestOf(r)
    BY StepMoves, MoveIsOwn
  <2>2. job' = job
    BY <2>1 DEF RestOf, Rest
  <2> SUFFICES ASSUME NEW p \in Kind("endStream"), HasEnded(p)', Clear(p)'
               PROVE  /\ row'[Of(p)].status = "ended"
                      /\ \A q \in StreamWriters \ {p} : fate'[q] = "running" => Spares(q, Of(p))'
    BY <2>2 DEF EndInv, Kind, StreamWriters, Kinds, Of
  <2>3. p \in Proc /\ Of(p) \in Stream /\ StreamWriters \subseteq Proc
    BY StreamJob DEF Kind, StreamWriters, Kinds, StreamKinds
  <2>4. Clear(p)
    <3>1. StreamWriters' = StreamWriters
      BY <2>2 DEF StreamWriters, Kinds
    <3>2. ASSUME NEW q \in StreamWriters, Overlap(p, q) PROVE FALSE
      <4>1. Overlap(p, q)'
        BY <2>1, <2>3, <3>2, OverlapStays
      <4> QED BY <3>1, <4>1 DEF Clear
    <3> QED BY <3>2 DEF Clear
  <2>5. ASSUME NEW q \in Proc, plan'[q] = plan[q], seen'[q] = seen[q], Spares(q, Of(p)) PROVE Spares(q, Of(p))'
    BY <2>2, <2>5 DEF Spares, Of
  <2>6. CASE Rest /\ row' = row
    <3>1. HasEnded(p)
      BY <2>6 DEF Rest, HasEnded, Done
    <3>2. /\ row[Of(p)].status = "ended"
          /\ \A q \in StreamWriters \ {p} : fate[q] = "running" => Spares(q, Of(p))
      BY <2>4, <3>1 DEF EndInv
    <3> QED BY <2>3, <2>5, <2>6, <3>2 DEF Rest
  <2>7. ASSUME NEW r \in Proc, RestOf(r), MoveBy(r)
        PROVE  /\ row'[Of(p)].status = "ended"
               /\ \A q \in StreamWriters \ {p} : fate'[q] = "running" => Spares(q, Of(p))'
    <3>1. CASE r = p
      <4>1. job[p].kind \in StreamKinds
        BY DEF Kind, StreamKinds
      <4>2. /\ row'[Of(p)].status = "ended"
            /\ \A q \in StreamWriters \ {p} : fate[q] = "running" => Spares(q, Of(p))
        BY <2>4, <2>7, <3>1, <4>1, EndIsWritten
      <4> QED BY <2>3, <2>5, <2>7, <3>1, <4>2 DEF RestOf
    <3>2. CASE r # p
      <4>1. HasEnded(p)
        BY <2>3, <2>7, <3>2 DEF RestOf, HasEnded, Done
      <4>2. /\ row[Of(p)].status = "ended"
            /\ \A q \in StreamWriters \ {p} : fate[q] = "running" => Spares(q, Of(p))
        BY <2>4, <4>1 DEF EndInv
      <4>3. row'[Of(p)].status = "ended" /\ (r \in StreamWriters /\ fate'[r] = "running" => Spares(r, Of(p))')
        <5>1. PICK s \in Stream : s = Of(p)
          BY <2>3
        <5>2. row[s].status = "ended" /\ (r \in StreamWriters /\ fate[r] = "running" => Spares(r, s))
          BY <3>2, <4>2, <5>1
        <5>3. row'[s].status = "ended" /\ (r \in StreamWriters /\ fate'[r] = "running" => Spares(r, s)')
          BY <2>7, <5>2, OthersSpare
        <5>4. Of(p)' = s
          BY <2>2, <5>1 DEF Of
        <5> QED BY <5>1, <5>3, <5>4 DEF Spares
      <4>4. \A q \in StreamWriters \ {p, r} : fate'[q] = "running" => Spares(q, Of(p))'
        BY <2>3, <2>5, <2>7, <4>2 DEF RestOf
      <4> QED BY <4>3, <4>4
    <3> QED BY <3>1, <3>2
  <2>8. ASSUME NEW r \in Proc, StreamStep(r), ~Moves(r), job[r].kind \in StreamKinds PROVE Rest /\ row' = row
    <3>1. ~Create(r) /\ ~UpdateStream(r) /\ ~SyncRow(r)
      BY <2>8 DEF Create, UpdateStream, SyncRow, At, Hold, Continue, Moves
    <3> QED BY <2>8, <3>1, StreamMoves, WritersWrite DEF Rest, callVars
  <2>9. UNCHANGED streamVars => row' = row
    BY DEF streamVars
  <2> QED BY <2>6, <2>7, <2>8, <2>9, StepsOfStreams, StreamMoves, ScheduleMoves, MoveIsOwn DEF StreamCases, Moves, MoveBy
<1> QED BY <1>1, <1>2, CallsHold, StreamsHold, PTL DEF Spec

\* A stream that has ended stays ended, unless a call that writes its row ran
\* at the same time as the one that ended it.
THEOREM EndedStays == Spec => []EndedStaysEnded
<1>1. EndInv => EndedStaysEnded
  BY DEF EndInv, EndedStaysEnded, HasEnded, Clear
<1> QED BY <1>1, EndHolds, PTL

-----------------------------------------------------------------------------
(***************************************************************************)
(* Streams: a viewer's socket, its session and the counter.                *)
(***************************************************************************)
Closing == <<"closeSession", "decrCount">>
Stays(p) == UNCHANGED <<session, count>> /\ fate'[p] = "running"

\* What a step of a viewer's socket does.
ViewerEffect(p) ==
  \/ UNCHANGED <<fate, plan, seen, session, count>>
  \/ fate[p] = "new" /\ Stays(p) /\ plan'[p] \in Unjoined
  \/ /\ plan[p] \in Unjoined
     /\ \/ Stays(p) /\ plan'[p] \in Unjoined \cup Joining
        \/ UNCHANGED <<session, count>> /\ fate'[p] = "failed"
  \/ /\ plan[p] \in Joining /\ plan'[p] \in Joined /\ fate'[p] = "running" /\ Head(plan'[p]) = "incrCount"
     /\ session' = [session EXCEPT ![p] = "open"] /\ count' = count
  \/ /\ plan[p] \in Joined /\ plan'[p] \in Joined /\ Head(plan'[p]) # "incrCount" /\ fate'[p] = "running"
     /\ session' = session
     /\ IF Head(plan[p]) = "incrCount"
        THEN count' = [count EXCEPT ![Of(p)][job[p].way] = count[Of(p)][job[p].way] + 1]
        ELSE count' = count
  \/ /\ plan[p] \in Joined /\ Head(plan[p]) = "leave" /\ UNCHANGED <<session, count>>
     /\ \/ fate'[p] = "failed" /\ (job[p].way = "room" => ActiveSession(p) = {})
        \/ fate'[p] = "running" /\ plan'[p] = Closing /\ seen'[p].of \in ActiveSession(p)
  \/ /\ plan[p] = Closing /\ plan'[p] = <<"decrCount">> /\ fate'[p] = "running"
     /\ session' = [session EXCEPT ![seen[p].of] = "left"] /\ count' = count
  \/ /\ plan[p] = <<"decrCount">> /\ fate'[p] = "done" /\ session' = session
     /\ count' = [count EXCEPT ![Of(p)][job[p].way] = count[Of(p)][job[p].way] - 1]

\* Each step is one of these.
LEMMA ViewerSteps ==
  ASSUME CallInv, StreamInv, NEW p \in Proc, job[p].kind \in ViewerKinds, StreamStep(p)
  PROVE  ViewerEffect(p)
<1> USE DEF At, Hold, Continue, Go
<1> DEFINE h == Head(plan[p])  t == Tail(plan[p])
<1>1. /\ job[p].kind \in StreamKinds
      /\ fate[p] = "running" => StatementFits(p, h, t)
  BY StreamAt DEF ViewerKinds, StreamKinds
<1>2. \A s, v : Follow(p, s, v) =>
        /\ plan'[p] = s /\ fate'[p] = (IF s = <<>> THEN "done" ELSE "running")
        /\ s # <<>> => seen'[p] = v
  BY DEF Follow, CallInv, CallTypeOK
<1>3. Break(p) => fate'[p] = "failed"
  BY DEF Break, CallInv, CallTypeOK
<1>4. \/ OpenViewerSocket(p) \/ HandleViewerConnection(p) \/ Negotiate(p) \/ ExpirePeer(p) \/ CloseSocket(p)
      \/ RemovePeer(p) \/ JoinStream(p) \/ OpenSession(p) \/ IncrCount(p) \/ LeaveStream(p) \/ CloseSession(p)
      \/ DecrCount(p)
  <2>1. ~ (\/ CreateStream(p) \/ StartStream(p) \/ SwitchRoomMode(p) \/ EndStream(p) \/ OpenHostSocket(p)
           \/ SyncCounts(p))
    BY DEF CreateStream, StartStream, SwitchRoomMode, EndStream, OpenHostSocket, SyncCounts, Asked, ViewerKinds
  <2>2. ~ (\/ Create(p) \/ UpdateStream(p) \/ ResetCount(p) \/ ClearCount(p) \/ HostOn(p)
           \/ HandleHostConnection(p) \/ HostOff(p) \/ RejoinTimer(p) \/ EndGone(p) \/ RemoveRoom(p)
           \/ SyncCount(p) \/ SyncRow(p))
    <3>1. CASE fate[p] = "running"
      <4>1. h \in {"viewerPeer", "serving", "removePeer", "join", "openSession", "incrCount", "leave",
                   "closeSession", "decrCount"}
        BY <1>1, <3>1 DEF StatementFits, ViewerKinds
      <4> HIDE DEF h
      <4>2. h = Head(plan[p])
        BY DEF h
      <4> QED BY <4>1, <4>2 DEF Create, UpdateStream, ResetCount, ClearCount, HostOn, HandleHostConnection,
                   HostOff, RejoinTimer, EndGone, RemoveRoom, SyncCount, SyncRow
    <3>2. CASE fate[p] # "running"
      BY <3>2 DEF Create, UpdateStream, ResetCount, ClearCount, HostOn, HandleHostConnection, HostOff,
                  RejoinTimer, EndGone, RemoveRoom, SyncCount, SyncRow
    <3> QED BY <3>1, <3>2
  <2> QED BY <2>1, <2>2 DEF StreamStep
<1>5. CASE OpenViewerSocket(p)
  <2>1. fate[p] = "new" /\ UNCHANGED <<session, count>>
    BY <1>5 DEF OpenViewerSocket, Asked, streamVars
  <2>2. \E s \in Unjoined : Follow(p, s, Nothing)
    BY <1>5 DEF OpenViewerSocket, Begin, Unjoined
  <2>3. \A s \in Unjoined : s # <<>>
    BY DEF Unjoined
  <2> QED BY <1>2, <2>1, <2>2, <2>3 DEF ViewerEffect, Stays
<1>6. CASE Negotiate(p) \/ ExpirePeer(p)
  BY <1>6 DEF Negotiate, ExpirePeer, ViewerEffect, callVars
<1>7. CASE HandleViewerConnection(p)
  <2>1. /\ UNCHANGED <<session, count>> /\ h = "viewerPeer"
        /\ \/ plan[p] \in Unjoined /\ t = <<"join", "serving">>
           \/ plan[p] \in Joined /\ t = <<"serving">>
    BY <1>1, <1>7 DEF HandleViewerConnection, StatementFits
  <2>2. Follow(p, t, [since |-> now])
    BY <1>7 DEF HandleViewerConnection
  <2>3. /\ <<"join", "serving">> \in Unjoined /\ <<"serving">> \in Joined
        /\ <<"join", "serving">> # <<>> /\ <<"serving">> # <<>> /\ Head(<<"serving">>) # "incrCount"
    BY TailOf1 DEF Unjoined, Joined
  <2> HIDE DEF h, t
  <2> QED BY <1>2, <2>1, <2>2, <2>3 DEF ViewerEffect, Stays, h
<1>8. CASE CloseSocket(p)
  <2>1. UNCHANGED <<session, count>> /\ h = "serving" /\ fate[p] = "running"
    BY <1>8 DEF CloseSocket, streamVars
  <2>2. Follow(p, <<"removePeer", "leave">>, [since |-> now])
    BY <1>8, Joins1 DEF CloseSocket, ViewerKinds
  <2>3. plan[p] \in Joined
    <3>1. ViewerFits(plan[p], seen[p])
      BY <1>1, <2>1, StreamAt DEF StreamFits
    <3>2. plan[p] \notin Unjoined \cup Joining
      <4>1. \A s \in Unjoined \cup Joining : Head(s) # "serving"
        BY TailOf2, TailOf3, TailOf4 DEF Unjoined, Joining
      <4> QED BY <2>1, <4>1
    <3>3. plan[p] # <<"decrCount">> /\ plan[p] # <<"closeSession", "decrCount">>
      BY <2>1, TailOf1, TailOf2
    <3> QED BY <3>1, <3>2, <3>3 DEF ViewerFits
  <2>4. <<"removePeer", "leave">> \in Joined /\ Head(<<"removePeer", "leave">>) = "removePeer"
        /\ <<"removePeer", "leave">> # <<>>
    BY TailOf2 DEF Joined
  <2> HIDE DEF h, t
  <2> QED BY <1>2, <2>1, <2>2, <2>3, <2>4 DEF ViewerEffect, h
<1>9. CASE RemovePeer(p)
  <2>1. UNCHANGED <<session, count>> /\ h = "removePeer" /\ fate[p] = "running" /\ t = <<"leave">>
    BY <1>1, <1>9 DEF RemovePeer, StatementFits, ViewerKinds
  <2>2. Follow(p, <<"leave">>, seen[p])
    BY <1>9, <2>1 DEF RemovePeer
  <2>3. plan[p] \in Joined
    <3>1. ViewerFits(plan[p], seen[p])
      BY <1>1, <2>1, StreamAt DEF StreamFits
    <3>2. plan[p] \notin Unjoined \cup Joining
      <4>1. \A s \in Unjoined \cup Joining : Head(s) # "removePeer"
        BY TailOf2, TailOf3, TailOf4 DEF Unjoined, Joining
      <4> QED BY <2>1, <4>1
    <3>3. plan[p] # <<"decrCount">> /\ plan[p] # <<"closeSession", "decrCount">>
      BY <2>1, TailOf1, TailOf2
    <3> QED BY <3>1, <3>2, <3>3 DEF ViewerFits
  <2>4. <<"leave">> \in Joined /\ Head(<<"leave">>) = "leave" /\ <<"leave">> # <<>>
    BY TailOf1 DEF Joined
  <2> HIDE DEF h, t
  <2> QED BY <1>2, <2>1, <2>2, <2>3, <2>4 DEF ViewerEffect, h
<1>10. CASE JoinStream(p)
  <2>1. /\ UNCHANGED <<session, count>> /\ plan[p] \in Unjoined
        /\ t \in {<<"serving">>, <<"viewerPeer", "serving">>}
    BY <1>1, <1>10 DEF JoinStream, StatementFits, streamVars
  <2>2. Break(p) \/ Follow(p, <<"openSession", "incrCount">> \o t, seen[p])
    BY <1>10 DEF JoinStream, Stop
  <2>3. <<"openSession", "incrCount">> \o t \in Joining
    BY <2>1, Joins3, Joins4, Zenon DEF Joining
  <2>4. \A s \in Joining : s # <<>>
    BY DEF Joining
  <2> HIDE DEF h, t
  <2> QED BY <1>2, <1>3, <2>1, <2>2, <2>3, <2>4 DEF ViewerEffect, Stays
<1>11. CASE OpenSession(p)
  <2>1. /\ session' = [session EXCEPT ![p] = "open"] /\ count' = count /\ plan[p] \in Joining
        /\ t \in {<<"incrCount", "serving">>, <<"incrCount", "viewerPeer", "serving">>}
        /\ Follow(p, t, seen[p])
    BY <1>1, <1>11 DEF OpenSession, StatementFits
  <2>2. \A s \in {<<"incrCount", "serving">>, <<"incrCount", "viewerPeer", "serving">>} :
          s \in Joined /\ Head(s) = "incrCount" /\ s # <<>>
    BY TailOf2, TailOf3 DEF Joined
  <2> HIDE DEF h, t
  <2> QED BY <1>2, <2>1, <2>2 DEF ViewerEffect
<1>12. CASE IncrCount(p)
  <2>1. /\ session' = session /\ plan[p] \in Joined /\ h = "incrCount"
        /\ count' = [count EXCEPT ![Of(p)][job[p].way] = count[Of(p)][job[p].way] + 1]
        /\ t \in {<<"serving">>, <<"viewerPeer", "serving">>}
        /\ Follow(p, t, seen[p])
    BY <1>1, <1>12 DEF IncrCount, StatementFits, SetCount, Others
  <2>2. \A s \in {<<"serving">>, <<"viewerPeer", "serving">>} : s \in Joined /\ Head(s) # "incrCount" /\ s # <<>>
    BY TailOf1, TailOf2 DEF Joined
  <2> HIDE DEF h, t
  <2> QED BY <1>2, <2>1, <2>2 DEF ViewerEffect, h
<1>13. CASE LeaveStream(p)
  <2>1. /\ UNCHANGED <<session, count>> /\ plan[p] \in Joined /\ h = "leave"
        /\ \/ Break(p) /\ (job[p].way = "room" => ActiveSession(p) = {})
           \/ \E q \in ActiveSession(p) : Follow(p, Closing, [of |-> q])
    BY <1>1, <1>13 DEF LeaveStream, StatementFits, streamVars, Stop, Closing
  <2>2. Closing # <<>> /\ \A q : [of |-> q].of = q
    BY DEF Closing
  <2> HIDE DEF h, t
  <2>3. \A q \in ActiveSession(p) : Follow(p, Closing, [of |-> q]) =>
          fate'[p] = "running" /\ plan'[p] = Closing /\ seen'[p].of = q
    BY <1>2, <2>2
  <2> QED BY <1>3, <2>1, <2>3 DEF ViewerEffect, h
<1>14. CASE CloseSession(p)
  <2>1. /\ session' = [session EXCEPT ![seen[p].of] = "left"] /\ count' = count
        /\ plan[p] = Closing /\ t = <<"decrCount">> /\ Follow(p, t, seen[p])
    BY <1>1, <1>14 DEF CloseSession, StatementFits, Closing
  <2>2. <<"decrCount">> # <<>>
    OBVIOUS
  <2> HIDE DEF h, t
  <2> QED BY <1>2, <2>1, <2>2 DEF ViewerEffect
<1>15. CASE DecrCount(p)
  <2>1. /\ session' = session /\ plan[p] = <<"decrCount">> /\ t = <<>> /\ Follow(p, t, seen[p])
        /\ count' = [count EXCEPT ![Of(p)][job[p].way] = count[Of(p)][job[p].way] - 1]
    BY <1>1, <1>15 DEF DecrCount, StatementFits, SetCount, Others
  <2> HIDE DEF h, t
  <2> QED BY <1>2, <2>1 DEF ViewerEffect
<1> QED BY <1>4, <1>5, <1>6, <1>7, <1>8, <1>9, <1>10, <1>11, <1>12, <1>13, <1>14, <1>15

\* The phases of a viewer's socket are apart.
LEMMA PhasesApart ==
  /\ Unjoined \cap Joined = {} /\ Joining \cap Joined = {}
  /\ \A s \in {Closing, <<"decrCount">>} : s \notin Unjoined \cup Joining \cup Joined /\ Head(s) # "incrCount"
  /\ Closing # <<"decrCount">>
<1>1. \A s \in Unjoined : Head(s) = "join" \/ (Head(s) = "viewerPeer" /\ Head(Tail(s)) = "join")
  <2>1. ASSUME NEW s, s = <<"viewerPeer", "join", "serving">> PROVE Head(s) = "viewerPeer" /\ Head(Tail(s)) = "join"
    <3>1. Head(s) = "viewerPeer" /\ Tail(s) = <<"join", "serving">>
      BY <2>1, TailOf3, Zenon
    <3> QED BY <3>1, TailOf2, Zenon
  <2>2. ASSUME NEW s, s = <<"join", "serving">> PROVE Head(s) = "join"
    BY <2>2, TailOf2, Zenon
  <2>3. ASSUME NEW s, s = <<"join", "viewerPeer", "serving">> PROVE Head(s) = "join"
    BY <2>3, TailOf3, Zenon
  <2> QED BY <2>1, <2>2, <2>3, Zenon DEF Unjoined
<1>2. \A s \in Joined : \/ Head(s) \in {"incrCount", "serving", "removePeer", "leave"}
                        \/ Head(s) = "viewerPeer" /\ Head(Tail(s)) = "serving"
  <2>1. ASSUME NEW s, s \in {<<"incrCount", "serving">>, <<"incrCount", "viewerPeer", "serving">>}
        PROVE  Head(s) = "incrCount"
    BY <2>1, TailOf2, TailOf3
  <2>2. ASSUME NEW s, s = <<"viewerPeer", "serving">> PROVE Head(s) = "viewerPeer" /\ Head(Tail(s)) = "serving"
    <3>1. Head(s) = "viewerPeer" /\ Tail(s) = <<"serving">>
      BY <2>2, TailOf2, Zenon
    <3> QED BY <3>1, TailOf1, Zenon
  <2>3. ASSUME NEW s, s \in {<<"serving">>, <<"removePeer", "leave">>, <<"leave">>}
        PROVE  Head(s) \in {"serving", "removePeer", "leave"}
    BY <2>3, TailOf1, TailOf2
  <2> QED BY <2>1, <2>2, <2>3 DEF Joined
<1>3. \A s \in Joining : Head(s) = "openSession"
  BY TailOf3, TailOf4 DEF Joining
<1>4. \A s \in Unjoined : Head(s) \in {"join", "viewerPeer"}
  BY TailOf2, TailOf3 DEF Unjoined
<1>5. Head(Closing) = "closeSession" /\ Head(<<"decrCount">>) = "decrCount"
  BY TailOf1, TailOf2 DEF Closing
<1>6. Unjoined \cap Joined = {}
  BY <1>1, <1>2
<1>7. Joining \cap Joined = {}
  BY <1>2, <1>3
<1>8. \A s \in {Closing, <<"decrCount">>} : s \notin Unjoined \cup Joining \cup Joined /\ Head(s) # "incrCount"
  BY <1>2, <1>3, <1>4, <1>5
<1> QED BY <1>5, <1>6, <1>7, <1>8

SessionInv ==
  /\ \A p \in Proc : session[p] = "open" => job[p].kind \in ViewerKinds
  /\ \A p \in Proc : job[p].kind \in ViewerKinds /\ fate[p] = "running" /\ plan[p] = Closing
                     => seen[p].of \in Proc /\ Of(seen[p].of) = Of(p)

\* A socket whose session is open has still to close it, its own; and from here
\* to there it is counted.
Tidy(p) ==
  /\ session[p] = "open" => fate[p] = "running" /\ plan[p] \in Joined \cup {Closing}
  /\ fate[p] = "running" /\ plan[p] \in Joined /\ Head(plan[p]) = "incrCount" => session[p] = "open"
  /\ fate[p] = "running" /\ plan[p] = Closing => seen[p].of = p /\ session[p] = "open"
Counts(p) == \/ session[p] = "open" /\ Head(plan[p]) # "incrCount"
             \/ fate[p] = "running" /\ plan[p] = <<"decrCount">>
ViewersOf(s) == {p \in Kinds(ViewerKinds) : Of(p) = s}
Counted(s) == {p \in ViewersOf(s) : Counts(p)}

CountInv ==
  faults = 0 => \A s \in Stream : CountedFrom(s) /\ OneEach(s) =>
    /\ \A p \in ViewersOf(s) : Tidy(p)
    /\ IsFiniteSet(Counted(s)) /\ count[s]["room"] = Cardinality(Counted(s))

\* The count moves with what is counted.
LEMMA TidyStep ==
  ASSUME CallInv, StreamInv, NEW p \in Proc, job[p].kind \in ViewerKinds, job[p].way = "room",
         Tidy(p), ViewerEffect(p), fate[p] = "running" => \A q \in ActiveSession(p) : q = p
  PROVE  /\ Tidy(p)' /\ \A q \in Proc \ {p} : session'[q] = session[q]
         /\ \/ count' = count /\ (Counts(p)' <=> Counts(p))
            \/ ~Counts(p) /\ Counts(p)' /\ count' = [count EXCEPT ![Of(p)]["room"] = count[Of(p)]["room"] + 1]
            \/ Counts(p) /\ ~Counts(p)' /\ count' = [count EXCEPT ![Of(p)]["room"] = count[Of(p)]["room"] - 1]
<1>1. session \in [Proc -> {"none", "open", "left"}] /\ fate \in [Proc -> {"new", "running", "done", "failed"}]
  BY DEF StreamInv, StreamTypeOK, CallInv, CallTypeOK
<1> USE PhasesApart
<1>2. CASE UNCHANGED <<fate, plan, seen, session, count>>
  BY <1>2 DEF Tidy, Counts
<1>3. CASE fate[p] = "new" /\ Stays(p) /\ plan'[p] \in Unjoined
  BY <1>3 DEF Stays, Tidy, Counts
<1>4. CASE /\ plan[p] \in Unjoined
           /\ \/ Stays(p) /\ plan'[p] \in Unjoined \cup Joining
              \/ UNCHANGED <<session, count>> /\ fate'[p] = "failed"
  BY <1>4 DEF Stays, Tidy, Counts
<1>5. CASE /\ plan[p] \in Joining /\ plan'[p] \in Joined /\ fate'[p] = "running" /\ Head(plan'[p]) = "incrCount"
           /\ session' = [session EXCEPT ![p] = "open"] /\ count' = count
  <2>1. session'[p] = "open" /\ \A q \in Proc \ {p} : session'[q] = session[q]
    BY <1>1, <1>5
  <2>2. ~Counts(p) /\ ~Counts(p)'
    BY <1>5 DEF Tidy, Counts
  <2>3. Tidy(p)'
    BY <1>5, <2>1 DEF Tidy
  <2> QED BY <1>5, <2>1, <2>2, <2>3
<1>6. CASE /\ plan[p] \in Joined /\ plan'[p] \in Joined /\ Head(plan'[p]) # "incrCount" /\ fate'[p] = "running"
           /\ session' = session
           /\ IF Head(plan[p]) = "incrCount"
              THEN count' = [count EXCEPT ![Of(p)][job[p].way] = count[Of(p)][job[p].way] + 1]
              ELSE count' = count
  <2>1. Tidy(p)'
    BY <1>6 DEF Tidy
  <2>2. CASE Head(plan[p]) = "incrCount"
    <3>1. fate[p] = "running"
      BY <1>6, <2>2 DEF ViewerEffect, Tidy, Stays, CallInv, CallTypeOK, Joined
    <3>2. ~Counts(p) /\ Counts(p)'
      BY <1>6, <2>2, <3>1 DEF Tidy, Counts
    <3> QED BY <1>6, <2>1, <2>2, <3>2
  <2>3. CASE Head(plan[p]) # "incrCount"
    <3>1. Counts(p)' <=> Counts(p)
      BY <1>6, <2>3 DEF Counts
    <3> QED BY <1>6, <2>1, <2>3, <3>1
  <2> QED BY <2>2, <2>3
<1>7. CASE /\ plan[p] \in Joined /\ Head(plan[p]) = "leave" /\ UNCHANGED <<session, count>>
           /\ \/ fate'[p] = "failed" /\ (job[p].way = "room" => ActiveSession(p) = {})
              \/ fate'[p] = "running" /\ plan'[p] = Closing /\ seen'[p].of \in ActiveSession(p)
  <2>0. fate[p] = "running"
    BY <1>7 DEF Joined, CallInv, CallTypeOK
  <2>1. session[p] = "open" => p \in ActiveSession(p)
    BY DEF ActiveSession, Kinds, ViewerKinds
  <2>2. CASE fate'[p] = "failed" /\ session[p] # "open"
    BY <1>7, <2>2 DEF Tidy, Counts
  <2>3. CASE fate'[p] = "running" /\ plan'[p] = Closing /\ seen'[p].of = p /\ p \in ActiveSession(p)
    <3>1. session[p] = "open"
      BY <2>3 DEF ActiveSession
    <3> QED BY <1>7, <2>3, <3>1 DEF Tidy, Counts
  <2> QED BY <1>7, <2>0, <2>1, <2>2, <2>3
<1>8. CASE /\ plan[p] = Closing /\ plan'[p] = <<"decrCount">> /\ fate'[p] = "running"
           /\ session' = [session EXCEPT ![seen[p].of] = "left"] /\ count' = count
  <2>1. fate[p] = "running"
    BY <1>8 DEF Closing, CallInv, CallTypeOK
  <2>2. seen[p].of = p /\ session[p] = "open"
    BY <1>8, <2>1 DEF Tidy
  <2>3. session'[p] = "left" /\ \A q \in Proc \ {p} : session'[q] = session[q]
    BY <1>1, <1>8, <2>2
  <2>4. Counts(p) /\ Counts(p)'
    BY <1>8, <2>2 DEF Counts
  <2>5. Tidy(p)'
    BY <1>8, <2>3 DEF Tidy
  <2> QED BY <1>8, <2>3, <2>4, <2>5
<1>9. CASE /\ plan[p] = <<"decrCount">> /\ fate'[p] = "done" /\ session' = session
           /\ count' = [count EXCEPT ![Of(p)][job[p].way] = count[Of(p)][job[p].way] - 1]
  <2>1. fate[p] = "running"
    BY <1>9 DEF CallInv, CallTypeOK
  <2>2. session[p] # "open"
    BY <1>9 DEF Tidy
  <2>3. Counts(p) /\ ~Counts(p)' /\ Tidy(p)'
    BY <1>9, <2>1, <2>2 DEF Counts, Tidy
  <2> QED BY <1>9, <2>3
<1> QED BY <1>2, <1>3, <1>4, <1>5, <1>6, <1>7, <1>8, <1>9 DEF ViewerEffect

\* Sessions are of viewers, and a socket closes one of its own stream.
LEMMA SessionStep ==
  ASSUME CallInv, StreamInv, SessionInv, NEW p \in Proc, job[p].kind \in ViewerKinds, ViewerEffect(p),
         RestOf(p) \/ UNCHANGED callVars
  PROVE  SessionInv' /\ \A q \in Proc : Of(q) # Of(p) => session'[q] = session[q]
<1>1. session \in [Proc -> {"none", "open", "left"}]
  BY DEF StreamInv, StreamTypeOK
<1> USE PhasesApart
<1>2. job' = job /\ \A q \in Proc \ {p} : fate'[q] = fate[q] /\ plan'[q] = plan[q] /\ seen'[q] = seen[q]
  BY DEF RestOf, callVars
<1>3. ASSUME session' = session,
             fate'[p] = "running" /\ plan'[p] = Closing => seen'[p].of \in Proc /\ Of(seen'[p].of) = Of(p)
      PROVE  SessionInv' /\ \A q \in Proc : Of(q) # Of(p) => session'[q] = session[q]
  BY <1>2, <1>3 DEF SessionInv, Of
<1>4. CASE fate'[p] = fate[p] /\ plan'[p] = plan[p] /\ seen'[p] = seen[p] /\ session' = session
  BY <1>3, <1>4 DEF SessionInv
<1>5. CASE session' = session /\ (fate'[p] # "running" \/ plan'[p] # Closing)
  BY <1>3, <1>5
<1>6. CASE session' = [session EXCEPT ![p] = "open"] /\ plan'[p] # Closing
  BY <1>1, <1>2, <1>6 DEF SessionInv, Of
<1>7. CASE session' = session /\ seen'[p].of \in ActiveSession(p)
  <2>1. seen'[p].of \in Proc /\ Of(seen'[p].of) = Of(p)
    BY <1>7 DEF ActiveSession, Kinds
  <2> QED BY <1>3, <1>7, <2>1
<1>8. CASE plan[p] = Closing /\ plan'[p] # Closing /\ session' = [session EXCEPT ![seen[p].of] = "left"]
  <2>1. fate[p] = "running"
    BY <1>8 DEF Closing, CallInv, CallTypeOK
  <2>2. Of(seen[p].of) = Of(p)
    BY <1>8, <2>1 DEF SessionInv
  <2>3. \A q \in Proc : (session'[q] = "open" => session[q] = "open") /\ (Of(q) # Of(p) => session'[q] = session[q])
    BY <1>1, <1>8, <2>2
  <2> QED BY <1>2, <1>8, <2>3 DEF SessionInv, Of
<1> QED BY <1>4, <1>5, <1>6, <1>7, <1>8 DEF ViewerEffect, Stays

\* One more of a finite set, or one less.
LEMMA OneOff ==
  ASSUME NEW S, IsFiniteSet(S), NEW x
  PROVE  /\ x \notin S => IsFiniteSet(S \cup {x}) /\ Cardinality(S \cup {x}) = Cardinality(S) + 1
         /\ x \in S => IsFiniteSet(S \ {x}) /\ Cardinality(S \ {x}) = Cardinality(S) - 1
BY FS_AddElement, FS_RemoveElement

\* The other calls that may run with such viewers.
LEMMA OtherCounts ==
  ASSUME CallInv, StreamInv, NEW p \in Proc, job[p].kind \in {"createStream", "startStream", "switchMode"},
         StreamStep(p)
  PROVE  /\ session' = session
         /\ \/ count' = count
            \/ job[p].kind = "startStream" /\ fate[p] = "running"
               /\ count' = [count EXCEPT ![Of(p)]["room"] = 0]
<1> USE DEF At
<1>1. CASE fate[p] = "new"
  BY <1>1, NewBegins, StreamBegins DEF StreamKinds
<1>2. CASE fate[p] = "running"
  <2>1. StatementFits(p, Head(plan[p]), Tail(plan[p]))
    BY <1>2, StreamAt DEF StreamKinds
  <2>2. Head(plan[p]) \in {"insertStream", "updateStream", "resetCount", "autoLink", "linkOccurrence", "linkSchedule"}
    BY <2>1 DEF StatementFits, ViewerKinds
  <2>3. Create(p) \/ UpdateStream(p) \/ ResetCount(p)
    BY <1>2, <2>2 DEF StreamStep, Asked,
         CreateStream, StartStream, SwitchRoomMode, EndStream, ClearCount,
         OpenHostSocket, HostOn, HandleHostConnection, Negotiate, ExpirePeer, CloseSocket, RemovePeer,
         HostOff, RejoinTimer, EndGone, RemoveRoom, OpenViewerSocket, HandleViewerConnection, JoinStream,
         OpenSession, IncrCount, LeaveStream, CloseSession, DecrCount, SyncCounts, SyncCount, SyncRow
  <2>4. ResetCount(p) => job[p].kind = "startStream"
    BY <2>1 DEF ResetCount, StatementFits
  <2> QED BY <1>2, <2>3, <2>4 DEF Create, UpdateStream, ResetCount, SetCount, Others
<1>3. fate[p] \in {"new", "running"}
  BY DEF StreamStep, Asked, CreateStream, Create, StartStream, SwitchRoomMode, EndStream, UpdateStream,
         ResetCount, ClearCount,
         OpenHostSocket, HostOn, HandleHostConnection, Negotiate, ExpirePeer, CloseSocket, RemovePeer,
         HostOff, RejoinTimer, EndGone, RemoveRoom, OpenViewerSocket, HandleViewerConnection, JoinStream,
         OpenSession, IncrCount, LeaveStream, CloseSession, DecrCount, SyncCounts, SyncCount, SyncRow
<1> QED BY <1>1, <1>2, <1>3

\* The counter of a stream whose viewers come one socket each, after its start.
LEMMA CountStep ==
  ASSUME CallInv, StreamInv, SessionInv, CountInv, faults = 0, NEW s \in Stream, CountedFrom(s), OneEach(s),
         NEW p \in Proc, job[p].kind \in StreamKinds, StreamStep(p), job' = job,
         RestOf(p) \/ UNCHANGED callVars
  PROVE  /\ \A q \in ViewersOf(s) : Tidy(q)'
         /\ IsFiniteSet(Counted(s)') /\ count'[s]["room"] = Cardinality(Counted(s)')
<1>1. /\ \A q \in ViewersOf(s) : Tidy(q)
      /\ IsFiniteSet(Counted(s)) /\ count[s]["room"] = Cardinality(Counted(s))
  BY DEF CountInv
<1>2. /\ ViewersOf(s)' = ViewersOf(s) /\ ViewersOf(s) \subseteq Proc
      /\ \A q \in ViewersOf(s) : job[q].kind \in ViewerKinds /\ Of(q) = s /\ job[q].way = "room"
  BY DEF ViewersOf, Kinds, Of, CountedFrom, ViewerKinds
<1>3. count \in [Stream -> [Way -> Int]] /\ "room" \in Way
  BY DEF StreamInv, StreamTypeOK, Way
<1>4. ASSUME NEW q \in Proc \ {p}, session'[q] = session[q]
      PROVE  (Tidy(q)' <=> Tidy(q)) /\ (Counts(q)' <=> Counts(q))
  <2>1. fate'[q] = fate[q] /\ plan'[q] = plan[q] /\ seen'[q] = seen[q]
    BY DEF RestOf, callVars
  <2> QED BY <1>4, <2>1 DEF Tidy, Counts
<1>5. ASSUME \A q \in ViewersOf(s) : (Tidy(q) => Tidy(q)') /\ (Counts(q)' <=> Counts(q)),
             count'[s]["room"] = count[s]["room"]
      PROVE  /\ \A q \in ViewersOf(s) : Tidy(q)'
             /\ IsFiniteSet(Counted(s)') /\ count'[s]["room"] = Cardinality(Counted(s)')
  <2>1. Counted(s)' = Counted(s)
    BY <1>2, <1>5 DEF Counted
  <2> QED BY <1>1, <1>5, <2>1
<1>6. CASE job[p].kind \in ViewerKinds
  <2>1. ViewerEffect(p)
    BY <1>6, ViewerSteps
  <2>2. CASE Of(p) # s
    <3>1. \A q \in Proc : Of(q) # Of(p) => session'[q] = session[q]
      BY <1>6, <2>1, SessionStep
    <3>2. count'[s] = count[s]
      BY <1>3, <2>1, <2>2 DEF ViewerEffect, Stays
    <3>3. \A q \in ViewersOf(s) : q \in Proc \ {p} /\ session'[q] = session[q]
      BY <1>2, <2>2, <3>1
    <3> QED BY <1>4, <1>5, <3>2, <3>3
  <2>3. CASE Of(p) = s
    <3>1. p \in ViewersOf(s) /\ Tidy(p) /\ job[p].way = "room"
      BY <1>1, <1>2, <1>6, <2>3 DEF ViewersOf, Kinds
    <3>2. ASSUME fate[p] = "running", NEW q \in ActiveSession(p) PROVE q = p
      <4>1. q \in ViewersOf(s) /\ session[q] = "open" /\ job[q].user = job[p].user /\ q \in Proc
        BY <2>3 DEF ActiveSession, ViewersOf, Kinds, ViewerKinds
      <4>2. fate[q] = "running"
        BY <1>1, <4>1 DEF Tidy
      <4>3. q # p => Overlap(p, q)
        BY <3>2, <4>1, <4>2, RunningOverlap
      <4>4. p \in Kinds({"viewerWS", "signalWS"}) /\ q \in Kinds({"viewerWS", "signalWS"}) /\ Of(q) = s
        BY <1>6, <4>1 DEF ViewersOf, Kinds, ViewerKinds
      <4> QED BY <2>3, <4>1, <4>3, <4>4 DEF OneEach
    <3>3. /\ Tidy(p)' /\ \A q \in Proc \ {p} : session'[q] = session[q]
          /\ \/ count' = count /\ (Counts(p)' <=> Counts(p))
             \/ ~Counts(p) /\ Counts(p)' /\ count' = [count EXCEPT ![Of(p)]["room"] = count[Of(p)]["room"] + 1]
             \/ Counts(p) /\ ~Counts(p)' /\ count' = [count EXCEPT ![Of(p)]["room"] = count[Of(p)]["room"] - 1]
      BY <1>6, <2>1, <3>1, <3>2, TidyStep
    <3>4. \A q \in ViewersOf(s) \ {p} : (Tidy(q)' <=> Tidy(q)) /\ (Counts(q)' <=> Counts(q))
      BY <1>2, <1>4, <3>3
    <3>5. \A q \in ViewersOf(s) : Tidy(q)'
      BY <1>1, <3>3, <3>4
    <3>6. CASE count' = count /\ (Counts(p)' <=> Counts(p))
      BY <1>5, <3>4, <3>5, <3>6
    <3>7. CASE ~Counts(p) /\ Counts(p)' /\ count' = [count EXCEPT ![Of(p)]["room"] = count[Of(p)]["room"] + 1]
      <4>1. p \notin Counted(s) /\ Counted(s)' = Counted(s) \cup {p}
        BY <1>2, <3>1, <3>4, <3>7 DEF Counted
      <4>2. count'[s]["room"] = count[s]["room"] + 1
        BY <1>3, <2>3, <3>7
      <4> QED BY <1>1, <3>5, <4>1, <4>2, OneOff
    <3>8. CASE Counts(p) /\ ~Counts(p)' /\ count' = [count EXCEPT ![Of(p)]["room"] = count[Of(p)]["room"] - 1]
      <4>1. p \in Counted(s) /\ Counted(s)' = Counted(s) \ {p}
        BY <1>2, <3>1, <3>4, <3>8 DEF Counted
      <4>2. count'[s]["room"] = count[s]["room"] - 1
        BY <1>3, <2>3, <3>8
      <4> QED BY <1>1, <3>5, <4>1, <4>2, OneOff
    <3> QED BY <3>3, <3>6, <3>7, <3>8
  <2> QED BY <2>2, <2>3
<1>7. CASE job[p].kind \notin ViewerKinds
  <2>1. job[p].kind \in {"createStream", "startStream", "switchMode"}
    BY <1>7 DEF CountedFrom, StreamKinds, ViewerKinds
  <2>2. session' = session /\ \A q \in ViewersOf(s) : q \in Proc \ {p}
    BY <1>2, <1>7, <2>1, OtherCounts
  <2>3. \A q \in ViewersOf(s) : (Tidy(q)' <=> Tidy(q)) /\ (Counts(q)' <=> Counts(q))
    BY <1>4, <2>2
  <2>4. CASE count'[s]["room"] = count[s]["room"]
    BY <1>5, <2>3, <2>4
  <2>5. CASE job[p].kind = "startStream" /\ fate[p] = "running" /\ count' = [count EXCEPT ![Of(p)]["room"] = 0]
    <3>1. CASE Of(p) = s
      <4>1. ASSUME NEW q \in ViewersOf(s) PROVE fate[q] = "new"
        <5>1. fate[q] # "new" => Before(p, q)
          <6>1. \A r \in Kinds({"viewerWS", "signalWS"}) : fate[r] # "new" => Before(p, r)
            BY <2>5 DEF CountedFrom
          <6> QED BY <6>1 DEF ViewersOf, ViewerKinds
        <5> QED BY <1>2, <2>5, <5>1 DEF Before, CallInv, Over
      <4>2. Counted(s)' = {}
        BY <1>1, <1>2, <2>3, <4>1 DEF Counted, Counts, Tidy
      <4>3. count'[s]["room"] = 0
        BY <1>3, <2>5, <3>1
      <4> QED BY <1>1, <2>3, <4>2, <4>3, FS_EmptySet
    <3>2. CASE Of(p) # s
      BY <1>3, <2>4, <2>5, <3>2
    <3> QED BY <3>1, <3>2
  <2>6. count' = count \/ (/\ job[p].kind = "startStream" /\ fate[p] = "running"
                           /\ count' = [count EXCEPT ![Of(p)]["room"] = 0])
    BY <2>1, OtherCounts
  <2> QED BY <2>4, <2>5, <2>6
<1> QED BY <1>6, <1>7

\* What is open, whatever happens.
LEMMA SessionsHold == Spec => []SessionInv
<1>1. Init => SessionInv
  BY DEF Init, CallInit, StreamInit, SessionInv
<1>2. CallInv /\ StreamInv /\ SessionInv /\ [Next]_vars => SessionInv'
  <2> SUFFICES ASSUME CallInv, StreamInv, SessionInv, [Next]_vars PROVE SessionInv'
    OBVIOUS
  <2>1. ASSUME session' = session, job' = job,
               \A q \in Proc : job[q].kind \in ViewerKinds =>
                 fate'[q] \in Over \/ (fate'[q] = fate[q] /\ plan'[q] = plan[q] /\ seen'[q] = seen[q])
        PROVE  SessionInv'
    BY <2>1 DEF SessionInv, Of, Over
  <2>2. ASSUME NEW p \in Proc, job[p].kind \notin ViewerKinds, RestOf(p) \/ UNCHANGED callVars, session' = session
        PROVE  SessionInv'
    BY <2>1, <2>2 DEF RestOf, callVars
  <2>3. ASSUME NEW p \in Proc, job[p].kind \in StreamKinds, StreamStep(p) PROVE SessionInv'
    <3>1. RestOf(p) \/ UNCHANGED callVars
      BY <2>3, StreamMoves, MoveIsOwn
    <3>2. CASE job[p].kind \in ViewerKinds
      BY <2>3, <3>1, <3>2, ViewerSteps, SessionStep
    <3>3. CASE job[p].kind \notin ViewerKinds
      <4>1. session' = session
        <5>1. ~OpenSession(p) /\ ~CloseSession(p)
          BY <3>3, StreamAt, <2>3 DEF OpenSession, CloseSession, At, StatementFits
        <5>2. CASE \/ CreateStream(p) \/ Create(p) \/ StartStream(p) \/ SwitchRoomMode(p) \/ EndStream(p)
                   \/ UpdateStream(p) \/ ResetCount(p) \/ ClearCount(p) \/ OpenHostSocket(p) \/ HostOn(p)
                   \/ HandleHostConnection(p) \/ Negotiate(p) \/ ExpirePeer(p) \/ CloseSocket(p)
          BY <5>2 DEF CreateStream, Create, StartStream, SwitchRoomMode, EndStream, UpdateStream, ResetCount,
               ClearCount, OpenHostSocket, HostOn, HandleHostConnection, Negotiate, ExpirePeer, CloseSocket,
               Others, streamVars
        <5>3. CASE \/ RemovePeer(p) \/ HostOff(p) \/ RejoinTimer(p) \/ EndGone(p) \/ RemoveRoom(p)
                   \/ OpenViewerSocket(p) \/ HandleViewerConnection(p) \/ JoinStream(p) \/ IncrCount(p)
                   \/ LeaveStream(p) \/ DecrCount(p) \/ SyncCounts(p) \/ SyncCount(p) \/ SyncRow(p)
          BY <5>3 DEF RemovePeer, HostOff, RejoinTimer, EndGone, RemoveRoom, OpenViewerSocket,
               HandleViewerConnection, JoinStream, IncrCount, LeaveStream, DecrCount, SyncCounts, SyncCount,
               SyncRow, Others, streamVars
        <5> QED BY <2>3, <5>1, <5>2, <5>3 DEF StreamStep
      <4> QED BY <2>2, <3>1, <3>3, <4>1
    <3> QED BY <3>2, <3>3
  <2>4. ASSUME NEW p \in Proc, job[p].kind \in StreamKinds, UNCHANGED streamVars, ScheduleStep(p) PROVE SessionInv'
    <3>1. fate[p] = "running" /\ Head(plan[p]) \in {"autoLink", "linkOccurrence", "linkSchedule"}
      BY <2>4, LinkFits DEF CheckAndAutoLinkStream, LinkOccurrence, LinkSchedule, At
    <3>2. job[p].kind \notin ViewerKinds
      BY <2>4, <3>1, StreamAt DEF StatementFits, ViewerKinds
    <3> QED BY <2>2, <2>4, <3>2, ScheduleMoves, MoveIsOwn DEF streamVars
  <2>5. ASSUME NEW p \in Proc, job[p].kind \in StreamKinds, UNCHANGED streamVars, Fault(p, Ignored) PROVE SessionInv'
    <3>1. RestOf(p)
      BY <2>5, MoveIsOwn DEF Moves
    <3>2. CASE job[p].kind \notin ViewerKinds
      BY <2>2, <2>5, <3>1, <3>2 DEF streamVars
    <3>3. CASE job[p].kind \in ViewerKinds
      <4>1. fate[p] = "running" /\ StatementFits(p, Head(plan[p]), Tail(plan[p]))
        BY <2>5, StreamAt DEF Fault
      <4>2. \/ Break(p)
            \/ /\ Tail(plan[p]) \in {<<>>, <<"serving">>, <<"viewerPeer", "serving">>}
               /\ Follow(p, Tail(plan[p]), seen[p])
        <5>1. Head(plan[p]) \in Ignored => Head(plan[p]) \in {"incrCount", "decrCount"}
          BY <3>3, <4>1 DEF StatementFits, Ignored, IgnoredStream, IgnoredBattle, IgnoredSchedule, ViewerKinds
        <5>2. Head(plan[p]) \in {"incrCount", "decrCount"} =>
                Tail(plan[p]) \in {<<>>, <<"serving">>, <<"viewerPeer", "serving">>}
          BY <4>1 DEF StatementFits
        <5> QED BY <2>5, <5>1, <5>2 DEF Fault
      <4>3. \A s \in {<<"serving">>, <<"viewerPeer", "serving">>} : s # Closing
        BY TailOf1, TailOf2 DEF Closing
      <4>4. fate'[p] # "running" \/ plan'[p] # Closing
        BY <4>2, <4>3 DEF Break, Follow, CallInv, CallTypeOK
      <4> QED BY <2>5, <3>1, <4>4 DEF SessionInv, RestOf, Of, streamVars
    <3> QED BY <3>2, <3>3
  <2>6. ASSUME UNCHANGED streamVars, NEW p \in Proc, job[p].kind \notin StreamKinds, RestOf(p) PROVE SessionInv'
    BY <2>2, <2>6 DEF streamVars, StreamKinds, ViewerKinds
  <2>7. ASSUME UNCHANGED streamVars, Rest PROVE SessionInv'
    BY <2>1, <2>7 DEF streamVars, Rest
  <2> QED BY <2>3, <2>4, <2>5, <2>6, <2>7, StepsOfStreams DEF StreamCases
<1> QED BY <1>1, <1>2, CallsHold, StreamsHold, PTL DEF Spec

\* What the count supposes of the calls has been so before.
LEMMA SupposedBefore ==
  ASSUME CallInv, Rest \/ \E r \in Proc : RestOf(r), NEW s \in Stream
  PROVE  (CountedFrom(s)' => CountedFrom(s)) /\ (OneEach(s)' => OneEach(s))
<1>1. job' = job /\ \A q \in Proc : fate[q] # "new" => fate'[q] # "new" /\ past'[q] = past[q]
  BY DEF Rest, RestOf
<1>2. ASSUME CountedFrom(s)' PROVE CountedFrom(s)
  <2> SUFFICES ASSUME NEW p \in Proc, job[p].kind # "none"
               PROVE  CASE job[p].kind \in {"viewerWS", "signalWS"} -> job[p].way = "room"
                        [] job[p].kind = "startStream" ->
                             \A q \in Kinds({"viewerWS", "signalWS"}) : fate[q] # "new" => Before(p, q)
                        [] OTHER -> job[p].kind \in {"createStream", "switchMode"}
    BY DEF CountedFrom
  <2>1. CASE job[p].kind = "startStream"
    <3>1. \A q \in Kinds({"viewerWS", "signalWS"}) : fate'[q] # "new" => p \in past'[q]
      BY <1>1, <1>2, <2>1 DEF CountedFrom, Before, Kinds
    <3>2. \A q \in Kinds({"viewerWS", "signalWS"}) : fate[q] # "new" => p \in past[q]
      BY <1>1, <3>1 DEF Kinds
    <3> QED BY <2>1, <3>2 DEF Before
  <2>2. CASE job[p].kind # "startStream"
    BY <1>1, <1>2, <2>2 DEF CountedFrom
  <2> QED BY <2>1, <2>2
<1>3. ASSUME OneEach(s)' PROVE OneEach(s)
  <2> SUFFICES ASSUME NEW p \in Kinds({"viewerWS", "signalWS"}), NEW q \in Kinds({"viewerWS", "signalWS"}),
                      Of(p) = s, Of(q) = s, job[p].user = job[q].user, Overlap(p, q)
               PROVE  FALSE
    BY DEF OneEach
  <2>1. Overlap(p, q)'
    BY OverlapStays DEF Kinds
  <2> QED BY <1>1, <1>3, <2>1 DEF OneEach, Kinds, Of
<1> QED BY <1>2, <1>3

\* Through every step the counter of a stream is the number of those it counts.
LEMMA CountsHold == Spec => []CountInv
<1>1. Init => CountInv
  <2> SUFFICES ASSUME Init, NEW s \in Stream
               PROVE  /\ \A p \in ViewersOf(s) : Tidy(p)
                      /\ IsFiniteSet(Counted(s)) /\ count[s]["room"] = Cardinality(Counted(s))
    BY DEF CountInv
  <2>1. \A p \in Proc : session[p] # "open" /\ fate[p] # "running"
    BY DEF Init, CallInit, StreamInit
  <2>2. count[s]["room"] = 0
    BY DEF Init, StreamInit, Way
  <2>3. Counted(s) = {} /\ \A p \in ViewersOf(s) : Tidy(p)
    BY <2>1 DEF Counted, ViewersOf, Kinds, Counts, Tidy
  <2> QED BY <2>2, <2>3, FS_EmptySet
<1>2. CallInv /\ StreamInv /\ SessionInv /\ CountInv /\ [Next]_vars => CountInv'
  <2> SUFFICES ASSUME CallInv, StreamInv, SessionInv, CountInv, [Next]_vars, faults' = 0,
                      NEW s \in Stream, CountedFrom(s)', OneEach(s)'
               PROVE  /\ \A p \in ViewersOf(s)' : Tidy(p)'
                      /\ IsFiniteSet(Counted(s)') /\ count'[s]["room"] = Cardinality(Counted(s)')
    BY DEF CountInv
  <2>1. Rest \/ \E r \in Proc : RestOf(r)
    BY StepMoves, MoveIsOwn
  <2>2. faults = 0 /\ CountedFrom(s) /\ OneEach(s)
    BY <2>1, FaultsGrow, SupposedBefore
  <2>3. /\ \A p \in ViewersOf(s) : Tidy(p)
        /\ IsFiniteSet(Counted(s)) /\ count[s]["room"] = Cardinality(Counted(s))
    BY <2>2 DEF CountInv
  <2>4. job' = job /\ ViewersOf(s)' = ViewersOf(s)
    BY <2>1 DEF Rest, RestOf, ViewersOf, Kinds, Of
  <2>5. ASSUME UNCHANGED <<session, count>>,
               \A q \in Proc : job[q].kind \in ViewerKinds => fate'[q] = fate[q] /\ plan'[q] = plan[q] /\ seen'[q] = seen[q]
        PROVE  /\ \A p \in ViewersOf(s)' : Tidy(p)'
               /\ IsFiniteSet(Counted(s)') /\ count'[s]["room"] = Cardinality(Counted(s)')
    <3>1. \A q \in ViewersOf(s) : (Tidy(q)' <=> Tidy(q)) /\ (Counts(q)' <=> Counts(q))
      BY <2>5 DEF ViewersOf, Kinds, Tidy, Counts
    <3>2. Counted(s)' = Counted(s)
      BY <2>4, <3>1 DEF Counted
    <3> QED BY <2>3, <2>4, <2>5, <3>1, <3>2
  <2>6. ASSUME NEW p \in Proc, job[p].kind \in StreamKinds, StreamStep(p)
        PROVE  /\ \A q \in ViewersOf(s)' : Tidy(q)'
               /\ IsFiniteSet(Counted(s)') /\ count'[s]["room"] = Cardinality(Counted(s)')
    <3>1. RestOf(p) \/ UNCHANGED callVars
      BY <2>6, StreamMoves, MoveIsOwn
    <3> QED BY <2>2, <2>4, <2>6, <3>1, CountStep
  <2>7. ASSUME NEW p \in Proc, job[p].kind \notin ViewerKinds, RestOf(p), UNCHANGED streamVars
        PROVE  /\ \A q \in ViewersOf(s)' : Tidy(q)'
               /\ IsFiniteSet(Counted(s)') /\ count'[s]["room"] = Cardinality(Counted(s)')
    BY <2>5, <2>7 DEF RestOf, streamVars
  <2>8. ASSUME NEW p \in Proc, job[p].kind \in StreamKinds, UNCHANGED streamVars, ScheduleStep(p)
        PROVE  job[p].kind \notin ViewerKinds /\ RestOf(p)
    <3>1. fate[p] = "running" /\ Head(plan[p]) \in {"autoLink", "linkOccurrence", "linkSchedule"}
      BY <2>8, LinkFits DEF CheckAndAutoLinkStream, LinkOccurrence, LinkSchedule, At
    <3> QED BY <2>8, <3>1, StreamAt, ScheduleMoves, MoveIsOwn DEF StatementFits, ViewerKinds
  <2>9. ASSUME UNCHANGED streamVars, Rest
        PROVE  /\ \A q \in ViewersOf(s)' : Tidy(q)'
               /\ IsFiniteSet(Counted(s)') /\ count'[s]["room"] = Cardinality(Counted(s)')
    BY <2>5, <2>9 DEF Rest, streamVars
  <2> QED BY <2>6, <2>7, <2>8, <2>9, StepsOfStreams DEF StreamCases, StreamKinds, ViewerKinds
<1> QED BY <1>1, <1>2, CallsHold, StreamsHold, SessionsHold, PTL DEF Spec

\* The counter of a live stream is the number of its open sessions.
THEOREM CountIsRight == Spec => []CountIsSessions
<1>1. CallInv /\ StreamInv /\ SessionInv /\ CountInv => CountIsSessions
  <2> SUFFICES ASSUME CallInv, StreamInv, SessionInv, CountInv, faults = 0, NEW s \in Stream,
                      Settled(s), CountedFrom(s), OneEach(s)
               PROVE  count[s]["room"] = Cardinality({p \in Proc : session[p] = "open" /\ Of(p) = s})
    BY DEF CountIsSessions
  <2>1. count[s]["room"] = Cardinality(Counted(s)) /\ \A p \in ViewersOf(s) : Tidy(p)
    BY DEF CountInv
  <2>2. ASSUME NEW p \in ViewersOf(s) PROVE Counts(p) <=> session[p] = "open"
    <3>1. fate[p] = "running" => Head(plan[p]) \in {"serving", "viewerPeer", "join"}
      BY DEF Settled, ViewersOf, ViewerKinds, Kinds
    <3>2. fate[p] = "running" => plan[p] # <<"decrCount">>
      BY <3>1, TailOf1
    <3> QED BY <2>1, <3>1, <3>2 DEF Counts, Tidy
  <2>3. Counted(s) = {p \in Proc : session[p] = "open" /\ Of(p) = s}
    BY <2>2 DEF Counted, ViewersOf, Kinds, SessionInv
  <2> QED BY <2>1, <2>3
<1> QED BY <1>1, CallsHold, StreamsHold, SessionsHold, CountsHold, PTL
=============================================================================
