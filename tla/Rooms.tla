------------------------------- MODULE Rooms -------------------------------
(***************************************************************************)
(* The chat room of a stream (internal/usecase/message.go) and voice rooms *)
(* with a stage (internal/usecase/voice_room.go).                          *)
(***************************************************************************)
EXTENDS Calls

CONSTANTS Guest,
          LiveRoom, LiveStream, LiveMessage,
          VoiceRoom, MaxSpeakers,
          NoLine

ASSUME RoomAssumption == MaxSpeakers \in Nat \ {0} /\ IsFiniteSet(Guest)

VARIABLES liveRoom,     \* liveRoom[r]: the stream of a chat room
          liveMember,   \* live_room_participants
          liveMessage   \* liveMessage[m]: who wrote it where
liveVars == <<liveRoom, liveMember, liveMessage>>

VARIABLES voiceRoom,    \* voiceRoom[r]: the host and whether it has ended
          role          \* role[r][u]: the role of a participant, "left" or "none"
voiceVars == <<voiceRoom, role>>
roomVars == <<liveVars, voiceVars>>

Roles == {"host", "speaker", "listener"}

RoomTypeOK ==
  /\ \A r \in LiveRoom : liveRoom[r] = NoLine \/ liveRoom[r] \in LiveStream
  /\ liveMember \subseteq LiveRoom \X Guest
  /\ \A m \in LiveMessage : liveMessage[m] # NoLine => liveMessage[m] \in [room : LiveRoom, user : Guest]
  /\ \A r \in VoiceRoom : voiceRoom[r] # NoLine => voiceRoom[r] \in [host : Guest, ended : BOOLEAN]
  /\ role \in [VoiceRoom -> [Guest -> Roles \cup {"left", "none"}]]

RoomInit ==
  /\ liveRoom = [r \in LiveRoom |-> NoLine]
  /\ liveMember = {}
  /\ liveMessage = [m \in LiveMessage |-> NoLine]
  /\ voiceRoom = [r \in VoiceRoom |-> NoLine]
  /\ role = [r \in VoiceRoom |-> [u \in Guest |-> "none"]]

RoomRequest == [kind : {"getRoom"}, stream : LiveStream, room : LiveRoom]
JoinRequest == [kind : {"joinRoom"}, user : Guest, room : LiveRoom]
LeaveRequest == [kind : {"leaveRoom"}, user : Guest, room : LiveRoom]
SpeakRequest == [kind : {"speak"}, user : Guest, room : LiveRoom, message : LiveMessage]
DeleteSpokenRequest == [kind : {"deleteSpoken"}, user : Guest, room : LiveRoom, message : LiveMessage]
VoiceRequest == [kind : {"createVoice", "joinVoice", "leaveVoice", "requestStage", "endVoice"},
                 user : Guest, room : VoiceRoom]
RoomRequests == RoomRequest \cup JoinRequest \cup LeaveRequest \cup SpeakRequest
                \cup DeleteSpokenRequest \cup VoiceRequest

-----------------------------------------------------------------------------
(* The chat room of a stream.                                                *)

GetOrCreateRoom(p) ==
  /\ Asked(p, "getRoom")
  /\ Begin(p, <<"getByStreamID", "createLiveRoom">>, Nothing)
  /\ UNCHANGED liveVars

\* Mutant: a room that is there is not looked for.
SkipLookup(p) ==
  /\ At(p, "getByStreamID")
  /\ Continue(p)
  /\ UNCHANGED liveVars

\* Any error is taken for: there is no room.
GetByStreamID(p) ==
  /\ At(p, "getByStreamID")
  /\ IF \E r \in LiveRoom : liveRoom[r] = job[p].stream THEN Go(p, <<>>, Nothing) ELSE Continue(p)
  /\ UNCHANGED liveVars

CreateLiveRoom(p) ==
  /\ At(p, "createLiveRoom")
  /\ liveRoom' = [liveRoom EXCEPT ![job[p].room] = job[p].stream]
  /\ Continue(p)
  /\ UNCHANGED <<liveMember, liveMessage>>

\* A request, or a socket that is opened.
JoinRoom(p) ==
  /\ Asked(p, "joinRoom")
  /\ IF liveRoom[job[p].room] = NoLine THEN Refuse(p) /\ UNCHANGED liveMember
     ELSE liveMember' = liveMember \cup {<<job[p].room, job[p].user>>} /\ Return(p)
  /\ UNCHANGED <<liveRoom, liveMessage>>

LeaveRoom(p) ==
  /\ Asked(p, "leaveRoom")
  /\ liveMember' = liveMember \ {<<job[p].room, job[p].user>>}
  /\ Return(p)
  /\ UNCHANGED <<liveRoom, liveMessage>>

SpeakInRoom(p) ==
  /\ Asked(p, "speak")
  /\ IF <<job[p].room, job[p].user>> \in liveMember THEN Begin(p, <<"createLiveMessage">>, Nothing)
     ELSE Refuse(p)
  /\ UNCHANGED liveVars

CreateLiveMessage(p) ==
  /\ At(p, "createLiveMessage")
  /\ liveMessage' = [liveMessage EXCEPT ![job[p].message] = [room |-> job[p].room, user |-> job[p].user]]
  /\ Continue(p)
  /\ UNCHANGED <<liveRoom, liveMember>>

\* Whoever asks.
DeleteLiveMessage(p) ==
  /\ Asked(p, "deleteSpoken")
  /\ liveMessage' = [liveMessage EXCEPT ![job[p].message] = NoLine]
  /\ Return(p)
  /\ UNCHANGED <<liveRoom, liveMember>>

-----------------------------------------------------------------------------
(* Voice rooms.                                                              *)

Active(r) == voiceRoom[r] # NoLine /\ ~voiceRoom[r].ended
Present(r, u) == role[r][u] \in Roles
CountSpeakers(r) == Cardinality({u \in Guest : role[r][u] \in {"host", "speaker"}})
SetRole(r, u, is) == role' = [role EXCEPT ![r][u] = is]

CreateVoiceRoom(p) ==
  /\ Asked(p, "createVoice")
  /\ voiceRoom' = [voiceRoom EXCEPT ![job[p].room] = [host |-> job[p].user, ended |-> FALSE]]
  /\ Begin(p, <<"addVoiceHost">>, Nothing)
  /\ UNCHANGED role

AddVoiceHost(p) ==
  /\ At(p, "addVoiceHost")
  /\ SetRole(job[p].room, job[p].user, "host")
  /\ Continue(p)
  /\ UNCHANGED voiceRoom

JoinVoice(p) ==
  /\ Asked(p, "joinVoice")
  /\ IF Active(job[p].room) THEN Begin(p, <<"addListener">>, Nothing) ELSE Refuse(p)
  /\ UNCHANGED voiceVars

\* Mutant: who is in the room keeps the stage.
AddNewListener(p) ==
  /\ At(p, "addListener")
  /\ IF Present(job[p].room, job[p].user) THEN UNCHANGED role
     ELSE SetRole(job[p].room, job[p].user, "listener")
  /\ Continue(p)
  /\ UNCHANGED voiceRoom

\* Who joins again is a listener, whatever they were.
AddListener(p) ==
  /\ At(p, "addListener")
  /\ SetRole(job[p].room, job[p].user, "listener")
  /\ Continue(p)
  /\ UNCHANGED voiceRoom

LeaveVoice(p) ==
  /\ Asked(p, "leaveVoice")
  /\ IF Present(job[p].room, job[p].user) THEN SetRole(job[p].room, job[p].user, "left")
     ELSE UNCHANGED role
  /\ Return(p)
  /\ UNCHANGED voiceRoom

\* Nobody looks whether the room has ended.
RequestStage(p) ==
  /\ Asked(p, "requestStage")
  /\ IF voiceRoom[job[p].room] = NoLine THEN Refuse(p)
     ELSE Begin(p, <<"countSpeakers", "takeStage">>, Nothing)
  /\ UNCHANGED voiceVars

\* Mutant: one more than there are places.
CountOneMore(p) ==
  /\ At(p, "countSpeakers")
  /\ IF CountSpeakers(job[p].room) > MaxSpeakers THEN Stop(p) ELSE Continue(p)
  /\ UNCHANGED voiceVars

\* A count that fails is 0.
CountStage(p) ==
  /\ At(p, "countSpeakers")
  /\ IF CountSpeakers(job[p].room) >= MaxSpeakers THEN Stop(p) ELSE Continue(p)
  /\ UNCHANGED voiceVars

\* Of whoever is in the room: the host too becomes a speaker.
TakeStage(p) ==
  /\ At(p, "takeStage")
  /\ IF Present(job[p].room, job[p].user) THEN SetRole(job[p].room, job[p].user, "speaker")
     ELSE UNCHANGED role
  /\ Continue(p)
  /\ UNCHANGED voiceRoom

EndVoice(p) ==
  /\ Asked(p, "endVoice")
  /\ IF voiceRoom[job[p].room] # NoLine /\ voiceRoom[job[p].room].host = job[p].user
     THEN Begin(p, <<"endRoom">>, Nothing) ELSE Refuse(p)
  /\ UNCHANGED voiceVars

EndRoom(p) ==
  /\ At(p, "endRoom")
  /\ voiceRoom' = [voiceRoom EXCEPT ![job[p].room].ended = TRUE]
  /\ Continue(p)
  /\ UNCHANGED role

-----------------------------------------------------------------------------
RoomStep(p) ==
  \/ /\ \/ GetOrCreateRoom(p) \/ GetByStreamID(p) \/ CreateLiveRoom(p)
        \/ JoinRoom(p) \/ LeaveRoom(p)
        \/ SpeakInRoom(p) \/ CreateLiveMessage(p) \/ DeleteLiveMessage(p)
     /\ UNCHANGED voiceVars
  \/ /\ \/ CreateVoiceRoom(p) \/ AddVoiceHost(p) \/ JoinVoice(p) \/ AddListener(p) \/ LeaveVoice(p)
        \/ RequestStage(p) \/ CountStage(p) \/ TakeStage(p) \/ EndVoice(p) \/ EndRoom(p)
     /\ UNCHANGED liveVars

IgnoredRoom == {"getByStreamID", "addVoiceHost", "countSpeakers"}

-----------------------------------------------------------------------------
OfGuest(k, r, u) == {p \in Kind(k) : job[p].room = r /\ job[p].user = u /\ fate[p] # "new"}

(***************************************************************************)
(* A stream has one chat room unless two calls that found none overlapped  *)
(* or a read failed.  Who has spoken in a room had joined it, and after    *)
(* having left had joined again.                                           *)
(***************************************************************************)
RoomsAreOne ==
  \A r, s \in LiveRoom :
    (r # s /\ liveRoom[r] # NoLine /\ liveRoom[r] = liveRoom[s]) =>
      \/ faults > 0
      \/ \E p, q \in Kind("getRoom") : job[p].room = r /\ job[q].room = s /\ Overlap(p, q)
OnlyMembersSpeak ==
  \A p \in Kind("speak") : Done(p) =>
    LET joins == {q \in OfGuest("joinRoom", job[p].room, job[p].user) : ~Before(p, q)}
    IN /\ joins # {}
       /\ \A r \in OfGuest("leaveRoom", job[p].room, job[p].user) :
            Before(r, p) => \E q \in joins : ~Before(q, r)

(***************************************************************************)
(* A stage has no more speakers than places unless two requests for it     *)
(* overlapped, or the host came back to it, or a count failed; nobody is   *)
(* in a room who joined after its end; and who joins a room is heard again *)
(* only after a request.                                                   *)
(***************************************************************************)
StageHasPlaces ==
  \A r \in VoiceRoom :
    CountSpeakers(r) > MaxSpeakers =>
      \/ faults > 0
      \/ \E p, q \in Kind("requestStage") : job[p].room = r /\ job[q].room = r /\ Overlap(p, q)
      \/ \E p \in Kind("requestStage"), q \in Kind("createVoice") :
           job[p].room = r /\ job[q].room = r /\ Overlap(p, q)
NobodyJoinsTheEnded ==
  \A p \in Kind("joinVoice"), q \in Kind("endVoice") :
    (Done(p) /\ Done(q) /\ job[p].room = job[q].room) => ~Before(q, p)
JoinedOnlyToListen ==
  \A p \in Kind("joinVoice") :
    LET r == job[p].room
        u == job[p].user
    IN (Done(p) /\ role[r][u] \in {"host", "speaker"}) =>
         \/ \E q \in OfGuest("requestStage", r, u) : ~Before(q, p)
         \/ \E q \in OfGuest("createVoice", r, u) : ~Before(q, p)

RoomsHold == /\ RoomsAreOne /\ OnlyMembersSpeak
             /\ StageHasPlaces /\ NobodyJoinsTheEnded /\ JoinedOnlyToListen
=============================================================================
