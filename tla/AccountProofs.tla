---------------------------- MODULE AccountProofs ----------------------------
(***************************************************************************)
(* Proofs about Accounts: what each call does, then sessions and the rate  *)
(* limit, and rooms.                                                       *)
(***************************************************************************)
EXTENDS Accounts, SumLemmas, SequenceTheorems

-----------------------------------------------------------------------------
(***************************************************************************)
(* Calls: what they are never changes, and a step is that of one of them.  *)
(***************************************************************************)
Closed == {"done", "failed"}

CallInv == /\ job \in Jobs /\ CallTypeOK /\ DOMAIN plan = Proc
           /\ \A p \in Proc : \A q \in past[p] : fate[q] \in Closed

\* p begins or goes on, and perhaps breaks off; a statement may fail.
Moves(p) == /\ Break(p) \/ \E s, v : Follow(p, s, v)
            /\ \/ fate[p] = "new" /\ past' = [past EXCEPT ![p] = Ended]
               \/ fate[p] = "running" /\ past' = past
            /\ faults' = faults \/ (faults < Faults /\ faults' = faults + 1)

\* All that a step of p leaves alone.
RestOf(p) == /\ job' = job /\ now' = now
             /\ \A q \in Proc \ {p} : /\ fate'[q] = fate[q] /\ plan'[q] = plan[q]
                                      /\ seen'[q] = seen[q] /\ past'[q] = past[q]
             /\ fate[p] = "new" => past'[p] = Ended
             /\ fate[p] # "new" => past'[p] = past[p]
             /\ fate[p] \notin Closed /\ fate'[p] # "new"
             /\ faults' = faults \/ (faults < Faults /\ faults' = faults + 1)

Rest == UNCHANGED <<job, fate, plan, seen, past, faults>>

\* A call that goes on or breaks off changes nothing of another.
LEMMA FollowIsOwn ==
  ASSUME CallInv, NEW p \in Proc, Break(p) \/ \E s, v : Follow(p, s, v)
  PROVE  /\ job' = job /\ now' = now /\ DOMAIN plan' = Proc /\ DOMAIN seen' = Proc
         /\ fate' \in [Proc -> {"new", "running", "done", "failed"}]
         /\ \A q \in Proc : (fate'[q] = "running") <=> (plan'[q] # <<>>)
         /\ \A q \in Proc \ {p} : fate'[q] = fate[q] /\ plan'[q] = plan[q] /\ seen'[q] = seen[q]
         /\ fate'[p] # "new"
<1> USE DEF CallInv, CallTypeOK
<1>1. CASE Break(p)
  BY <1>1 DEF Break
<1>2. ASSUME NEW s, NEW v, Follow(p, s, v)
      PROVE  /\ job' = job /\ now' = now /\ DOMAIN plan' = Proc /\ DOMAIN seen' = Proc
             /\ fate' \in [Proc -> {"new", "running", "done", "failed"}]
             /\ \A q \in Proc : (fate'[q] = "running") <=> (plan'[q] # <<>>)
             /\ \A q \in Proc \ {p} : fate'[q] = fate[q] /\ plan'[q] = plan[q] /\ seen'[q] = seen[q]
             /\ fate'[p] # "new"
  BY <1>2 DEF Follow
<1> QED BY <1>1, <1>2

\* A move is one of its call.
LEMMA MoveIsOwn ==
  ASSUME CallInv, NEW p \in Proc, Moves(p)
  PROVE  RestOf(p) /\ CallInv'
<1>1. /\ job' = job /\ now' = now /\ DOMAIN plan' = Proc /\ DOMAIN seen' = Proc
      /\ fate' \in [Proc -> {"new", "running", "done", "failed"}]
      /\ \A q \in Proc : (fate'[q] = "running") <=> (plan'[q] # <<>>)
      /\ \A q \in Proc \ {p} : fate'[q] = fate[q] /\ plan'[q] = plan[q] /\ seen'[q] = seen[q]
      /\ fate'[p] # "new"
  BY FollowIsOwn DEF Moves
<1>2. faults' \in 0..Faults
  BY CallAssumption DEF Moves, CallInv, CallTypeOK
<1>3. CASE fate[p] = "new" /\ past' = [past EXCEPT ![p] = Ended]
  BY <1>1, <1>2, <1>3 DEF Moves, CallInv, CallTypeOK, RestOf, Ended, Closed
<1>4. CASE fate[p] = "running" /\ past' = past
  BY <1>1, <1>2, <1>4 DEF Moves, CallInv, CallTypeOK, RestOf, Closed
<1> QED BY <1>3, <1>4 DEF Moves

\* A step of a profile.
LEMMA ProfileMoves ==
  ASSUME NEW p \in Proc, ProfileStep(p)
  PROVE  Moves(p)
BY DEF ProfileStep, Register, CreateUser, UpdateProfile, NameTaken, UpdateUser, DropCached,
       GetProfile, CacheProfile, DeleteAccount, DeleteUser,
       Asked, At, Begin, Begins, Refuse, Return, Go, Hold, Continue, Stop, Moves

\* A step of a verification or a ban.
LEMMA VerificationMoves ==
  ASSUME NEW p \in Proc, VerificationStep(p)
  PROVE  Moves(p)
<1> USE DEF Asked, At, Begin, Begins, Refuse, Return, Go, Hold, Continue, Stop, Moves
<1>1. CASE \/ SubmitKYC(p) \/ Refused(p) \/ CreateKYC(p)
           \/ SubmitAgencyVerification(p) \/ CreateAgencyVerification(p)
           \/ VerifyKYC(p) \/ RejectKYC(p) \/ UpdateKYC(p) \/ ReadUser(p) \/ SaveUser(p)
  BY <1>1 DEF SubmitKYC, Refused, CreateKYC, SubmitAgencyVerification, CreateAgencyVerification,
              VerifyKYC, RejectKYC, UpdateKYC, ReadUser, SaveUser
<1>2. CASE \/ BanPermanent(p) \/ BanUser(p) \/ InsertBan(p) \/ EndLive(p) \/ UnbanUser(p)
           \/ TerminateStream(p) \/ SubmitReport(p) \/ CreateReport(p)
           \/ GoLive(p) \/ StartStream(p)
  BY <1>2 DEF BanPermanent, BanUser, InsertBan, EndLive, UnbanUser, TerminateStream, SubmitReport,
              CreateReport, GoLive, StartStream
<1> QED BY <1>1, <1>2 DEF VerificationStep

\* A step of a session, or of a request.
LEMMA SessionMoves ==
  ASSUME NEW p \in Proc, SessionStep(p)
  PROVE  Moves(p)
BY DEF SessionStep, GiveUp, Login, StoreToken, RefreshToken, Revoke, GenerateTokenPair, Deny,
       RateLimit, LimiterDown, Arrived, Authenticate, CheckBan,
       Asked, At, Begin, Begins, Refuse, Return, Go, Hold, Continue, Stop, Moves

\* A step of the moderation.
LEMMA ModerationMoves ==
  ASSUME NEW p \in Proc, ModerationStep(p)
  PROVE  Moves(p)
<1> USE DEF Asked, At, Begin, Begins, Refuse, Return, Go, Hold, Continue, Stop, Moves
<1>1. CASE \/ EvaluateChatMessage(p) \/ ApplyStrikeEscalation(p) \/ StrikeUnread(p) \/ SetKey(p)
           \/ SaveUserModerationState(p) \/ ExecuteSyncChatAction(p) \/ LogAuto(p) \/ AutoMute(p)
           \/ AutoBan(p) \/ ManualOverride(p) \/ LogManual(p) \/ SubmitAppeal(p)
  BY <1>1 DEF EvaluateChatMessage, ApplyStrikeEscalation, StrikeUnread, SetKey,
              SaveUserModerationState, ExecuteSyncChatAction, LogAuto, AutoMute, AutoBan,
              ManualOverride, LogManual, SubmitAppeal
<1>2. CASE \/ SyncUserModerationStates(p) \/ LiftKeys(p) \/ SaveLifted(p)
           \/ EnqueueImageScan(p) \/ DecideImage(p) \/ ProcessNextImageInQueue(p) \/ MarkScanning(p)
           \/ Scan(p) \/ UpdateImageJob(p)
  BY <1>2 DEF SyncUserModerationStates, LiftKeys, SaveLifted, EnqueueImageScan, DecideImage,
              ProcessNextImageInQueue, MarkScanning, Scan, UpdateImageJob
<1> QED BY <1>1, <1>2 DEF ModerationStep

\* A step of the payouts.
LEMMA PayoutMoves ==
  ASSUME NEW p \in Proc, PayoutStep(p)
  PROVE  Moves(p)
<1> USE DEF Asked, At, Begin, Begins, Refuse, Return, Go, Hold, Continue, Stop, Moves
<1>1. CASE MethodStep(p)
  BY <1>1 DEF MethodStep, CreatePayoutMethod, UnsetPrimaryByUserID, InsertMethod, UpdatePayoutMethod,
              UpdateMethod, MarkPrimary, SetPrimaryPayoutMethod, DeletePayoutMethod, WriteMethod,
              CreateCryptoPayoutAddress, InsertAddress, DeleteCryptoPayoutAddress
<1>2. CASE CryptoStep(p)
  BY <1>2 DEF CryptoStep, GetOrCreateDepositAddress, CountAttempt, ExpireAttempts, NextIndex,
              CreateDepositAddress, RequestCryptoWithdrawal, CreateTransaction,
              TrackConfirmations, UpdateTransactionStatus
<1> QED BY <1>1, <1>2 DEF PayoutStep

\* A step of the agencies.
LEMMA AgencyMoves ==
  ASSUME NEW p \in Proc, AgencyStep(p)
  PROVE  Moves(p)
BY DEF AgencyStep, ApplyHost, InsertApplication, ReviewHost, CreateAgency, InsertAgency, InviteHost, AcceptInvitation, AddHost, RemoveHost,
       Asked, At, Begin, Begins, Refuse, Return, Go, Hold, Continue, Stop, Moves

\* A step of the chats.
LEMMA ChatMoves ==
  ASSUME NEW p \in Proc, ChatStep(p)
  PROVE  Moves(p)
<1> USE DEF Asked, At, Begin, Begins, Refuse, Return, Go, Hold, Continue, Stop, Moves
<1>1. CASE \/ StartConversation(p) \/ CheckBlocks(p) \/ CreateConversation(p)
           \/ BlockUser(p) \/ MuteUser(p) \/ UnmuteUser(p)
           \/ RegisterE2EEKey(p) \/ UpdateUserPrivacy(p) \/ UpdateSettings(p) \/ NotifyScreenshot(p)
  BY <1>1 DEF StartConversation, CheckBlocks, CreateConversation, BlockUser, MuteUser, UnmuteUser,
              RegisterE2EEKey, UpdateUserPrivacy, UpdateSettings, NotifyScreenshot, Prefer
<1>2. CASE \/ SendMessage(p) \/ IsMuted(p) \/ CreateMessage(p) \/ IncrUnread(p)
           \/ MarkConversationRead(p) \/ MarkAsRead(p) \/ DelUnread(p)
           \/ ToggleReaction(p) \/ AddReaction(p) \/ DeleteReaction(p)
           \/ MarkAsViewed(p) \/ UpdateMessage(p) \/ TrackView(p)
           \/ ProcessExpiredMessages(p) \/ Wipe(p)
  BY <1>2 DEF SendMessage, IsMuted, CreateMessage, IncrUnread, MarkConversationRead, MarkAsRead,
              DelUnread, ToggleReaction, AddReaction, DeleteReaction, MarkAsViewed, UpdateMessage,
              TrackView, ProcessExpiredMessages, Wipe
<1> QED BY <1>1, <1>2 DEF ChatStep

\* A step of the rooms.
LEMMA RoomMoves ==
  ASSUME NEW p \in Proc, RoomStep(p)
  PROVE  Moves(p)
BY DEF RoomStep, GetOrCreateRoom, GetByStreamID, CreateLiveRoom, JoinRoom, LeaveRoom, SpeakInRoom,
       CreateLiveMessage, DeleteLiveMessage, CreateVoiceRoom, AddVoiceHost, JoinVoice, AddListener,
       LeaveVoice, RequestStage, CountStage, TakeStage, EndVoice, EndRoom,
       Asked, At, Begin, Begins, Refuse, Return, Go, Hold, Continue, Stop, Moves

\* A step of the media.
LEMMA MediaMoves ==
  ASSUME NEW p \in Proc, MediaStep(p)
  PROVE  Moves(p) \/ RemoveMarked(p)
<1> USE DEF Asked, At, Begin, Begins, Refuse, Return, Go, Hold, Continue, Stop, Moves
<1>1. CASE \/ UploadVideo(p) \/ CreateVOD(p) \/ SubmitTranscode(p) \/ ProcessVideo(p) \/ Transcode(p)
           \/ SavePlayKey(p) \/ Package(p) \/ DropOriginal(p) \/ SaveReady(p)
  BY <1>1 DEF UploadVideo, CreateVOD, SubmitTranscode, ProcessVideo, Transcode, SavePlayKey, Package,
              DropOriginal, SaveReady
<1>2. CASE \/ FailTranscode(p) \/ MarkAsFailed(p) \/ RetryTranscode(p)
           \/ CleanVideos(p) \/ GetVODDetail(p) \/ CacheVOD(p)
           \/ UpdateVisibility(p) \/ SaveVisibility(p) \/ DeleteVOD(p) \/ SoftDeleteVOD(p) \/ DropVOD(p)
  BY <1>2 DEF FailTranscode, MarkAsFailed, RetryTranscode, CleanVideos, GetVODDetail, CacheVOD,
              UpdateVisibility, SaveVisibility, DeleteVOD, SoftDeleteVOD, DropVOD
<1>3. CASE \/ GeneratePlaybackToken(p) \/ ServeSegment(p) \/ WatermarkSegment(p) \/ ServeLocalFile(p)
  BY <1>3 DEF GeneratePlaybackToken, ServeSegment, WatermarkSegment, ServeLocalFile
<1>4. CASE \/ UploadShort(p) \/ CountShort(p) \/ DeleteShort(p) \/ LikeShort(p) \/ CountShortLike(p)
           \/ UnlikeShort(p) \/ UncountShortLike(p) \/ CommentShort(p) \/ CountShortComment(p)
  BY <1>4 DEF UploadShort, CountShort, DeleteShort, LikeShort, CountShortLike, UnlikeShort,
              UncountShortLike, CommentShort, CountShortComment
<1>5. CASE \/ CreateComment(p) \/ EditComment(p) \/ UpdateComment(p) \/ DeleteComment(p)
           \/ LikeComment(p) \/ LikeContent(p) \/ InsertLike(p) \/ CountLike(p) \/ Unlike(p)
           \/ GetLikeCount(p) \/ SetLikes(p)
  BY <1>5 DEF CreateComment, EditComment, UpdateComment, DeleteComment, LikeComment, LikeContent,
              InsertLike, CountLike, Unlike, GetLikeCount, SetLikes
<1> QED BY <1>1, <1>2, <1>3, <1>4, <1>5 DEF MediaStep

\* A fault is a move of its call.
LEMMA FaultMoves ==
  ASSUME NEW p \in Proc, NEW S, Fault(p, S)
  PROVE  Moves(p)
BY DEF Fault, Moves

\* The goroutine of a call that has ended removes a file.
Tidies(p) == /\ job[p] \in MediaRequests /\ RemoveMarked(p)
             /\ UNCHANGED <<callVars, accountVars, chatVars, roomVars>>

\* A step of a call moves it, or removes the file it has left.
LEMMA StepMoves ==
  ASSUME NEW p \in Proc, Step(p)
  PROVE  Moves(p) \/ Tidies(p)
BY ProfileMoves, VerificationMoves, SessionMoves, ModerationMoves, PayoutMoves, AgencyMoves,
   ChatMoves, RoomMoves, MediaMoves, FaultMoves 
   DEF Step, AccountStep, ContentStep, Tidies, RemoveMarked

\* Any step: of a call; or of nobody, the clock perhaps.
LEMMA CallSteps ==
  ASSUME CallInv, [Next]_vars
  PROVE  \/ \E p \in Proc : Step(p) /\ RestOf(p) /\ CallInv'
         \/ \E p \in Proc : Tidies(p)
         \/ Rest /\ now' \in 0..MaxTime /\ now <= now' /\ UNCHANGED <<accountVars, contentVars>>
<1>1. CASE \E p \in Proc : Step(p)
  BY <1>1, StepMoves, MoveIsOwn
<1>2. CASE Tick /\ UNCHANGED <<accountVars, contentVars>>
  BY <1>2, CallAssumption DEF Tick, Rest, CallInv, CallTypeOK
<1>3. CASE UNCHANGED vars
  BY <1>3 DEF vars, callVars, Rest, CallInv, CallTypeOK
<1> QED BY <1>1, <1>2, <1>3 DEF Next

\* Calls are as they start, and each step keeps them so.
LEMMA CallsHold == Spec => []CallInv
<1>1. Init => CallInv
  BY CallAssumption DEF Init, CallInit, CallInv, CallTypeOK
<1>2. CallInv /\ [Next]_vars => CallInv'
  <2> SUFFICES ASSUME CallInv, [Next]_vars PROVE CallInv'
    OBVIOUS
  <2>1. ASSUME Rest, now' \in 0..MaxTime PROVE CallInv'
    BY <2>1 DEF Rest, CallInv, CallTypeOK, Closed
  <2>2. ASSUME UNCHANGED callVars PROVE CallInv'
    BY <2>2 DEF callVars, CallInv, CallTypeOK, Closed
  <2> QED BY <2>1, <2>2, CallSteps DEF Tidies
<1> QED BY <1>1, <1>2, PTL DEF Spec

\* What calls do not change of the past: who ended before whom, once both have
\* begun, and who overlapped whom.
LEMMA PastStays ==
  ASSUME CallInv, CallInv', NEW p \in Proc, RestOf(p), NEW q \in Proc, NEW r \in Proc
  PROVE  /\ Overlap(q, r) => Overlap(q, r)'
         /\ Before(q, r) => Before(q, r)'
         /\ fate[r] # "new" => (Before(q, r)' <=> Before(q, r))
         /\ fate[q] # "new" => fate'[q] # "new"
         /\ Done(q) => Done(q)'
BY DEF CallInv, CallTypeOK, RestOf, Overlap, Before, Closed, Ended, Done

-----------------------------------------------------------------------------
(***************************************************************************)
(* Which part of Accounts a call belongs to.                               *)
(***************************************************************************)
UserKinds == {"register", "profile", "getProfile", "deleteAccount", "submitKYC", "submitAgency",
              "verify", "reject", "banPermanent", "banUser", "unbanUser", "terminate", "report",
              "goLive"}
SessionKinds == {"login", "refresh", "logout", "request"}
ModerationKinds == {"chat", "override", "appeal", "enqueue", "approveImage", "rejectImage",
                    "syncStates", "scanNext"}
MoneyKinds == {"createMethod", "updateMethod", "deleteMethod", "setPrimary", "createAddress",
               "deleteAddress", "depositAddress", "cryptoWithdrawal", "trackConfirmations"}
AgencyKinds == {"apply", "approveHost", "rejectHost", "createAgency", "invite", "accept", "removeHost"}
ChatKinds == {"startChat", "send", "markRead", "pin", "screenshot", "react", "view", "block",
              "unmute", "muteUser", "e2eeKey", "privacy", "expireMessages"}
RoomKinds == {"getRoom", "joinRoom", "leaveRoom", "speak", "deleteSpoken", "createVoice",
              "joinVoice", "leaveVoice", "requestStage", "endVoice"}
MediaKinds == {"upload", "transcode", "cleanVideos", "watch", "publish", "removeVideo", "playToken",
               "segment", "uploadShort", "likeShort", "unlikeShort", "commentShort", "viewShort",
               "shareShort", "deleteShort", "comment", "editComment", "deleteComment",
               "likeComment", "unlikeComment", "like", "unlike", "countLikes"}

\* The kinds of the requests of each part.
LEMMA RequestKinds ==
  /\ \A j \in ProfileRequests \cup VerificationRequests : j.kind \in UserKinds
  /\ \A j \in SessionRequests : j.kind \in SessionKinds
  /\ \A j \in ModerationRequests : j.kind \in ModerationKinds
  /\ \A j \in PayoutRequests : j.kind \in MoneyKinds
  /\ \A j \in AgencyRequests : j.kind \in AgencyKinds
  /\ \A j \in ChatRequests : j.kind \in ChatKinds
  /\ \A j \in RoomRequests : j.kind \in RoomKinds
  /\ \A j \in MediaRequests : j.kind \in MediaKinds
<1>1. \A j \in ProfileRequests \cup VerificationRequests : j.kind \in UserKinds
  BY DEF UserKinds, ProfileRequests, RegisterRequest, ProfileRequest, VerificationRequests,
         SubmitKYCRequest, SubmitAgencyRequest, ApproveKYCRequest, RejectKYCRequest,
         BanPermanentRequest, BanUserRequest, UnbanUserRequest, TerminateRequest, ReportRequest
<1>2. \A j \in SessionRequests : j.kind \in SessionKinds
  BY DEF SessionKinds, SessionRequests, LoginRequest, RefreshRequest, GatedRequest, Gated
<1>3. \A j \in ModerationRequests : j.kind \in ModerationKinds
  BY DEF ModerationKinds, ModerationRequests, ChatMessage, OverrideRequest, AppealRequest, ImageRequest
<1>4. \A j \in PayoutRequests : j.kind \in MoneyKinds
  BY DEF MoneyKinds, PayoutRequests, MethodRequests, CreateMethodRequest, UpdateMethodRequest,
         DeleteMethodRequest, SetPrimaryRequest, CreateAddressRequest, DeleteAddressRequest,
         DepositAddressRequest, CryptoWithdrawalRequest, CryptoMonitorRun
<1>5. \A j \in AgencyRequests : j.kind \in AgencyKinds
  BY DEF AgencyKinds, AgencyRequests, ApplyRequest, DecideRequest, CreateAgencyRequest, RelationRequest
<1>6. \A j \in ChatRequests : j.kind \in ChatKinds
  BY DEF ChatKinds, ChatRequests, StartRequest, SendRequest, ReadRequest, PinRequest,
         ScreenshotRequest, ReactRequest, ViewRequest, BlockRequest, UnmuteRequest, MuteRequest,
         KeyRequest, PrivacyRequest, ExpiryJob
<1>7. \A j \in RoomRequests : j.kind \in RoomKinds
  BY DEF RoomKinds, RoomRequests, RoomRequest, JoinRequest, LeaveRequest, SpeakRequest,
         DeleteSpokenRequest, VoiceRequest
<1>8. \A j \in MediaRequests : j.kind \in MediaKinds
  <2>1. \A j \in VideoRequests : j.kind \in MediaKinds
    BY DEF MediaKinds, VideoRequests, UploadRequest, TranscodeJob, CleanupJob, WatchRequest,
           VisibilityRequest, RemoveRequest, TokenRequest, SegmentRequest
  <2>2. \A j \in ShortRequests : j.kind \in MediaKinds
    BY DEF MediaKinds, ShortRequests, ShortUpload, ShortLike, ShortComment, ShortCount, ShortDelete
  <2>3. \A j \in LikeRequests : j.kind \in MediaKinds
    BY DEF MediaKinds, LikeRequests, CommentRequest, CommentEdit, CommentDelete, CommentLike,
           LikeRequest, CountRequest
  <2> QED BY <2>1, <2>2, <2>3 DEF MediaRequests
<1> QED BY <1>1, <1>2, <1>3, <1>4, <1>5, <1>6, <1>7, <1>8

\* No kind is of two parts.
LEMMA KindsApart ==
  /\ RoomKinds \cap (UserKinds \cup SessionKinds \cup ModerationKinds \cup MoneyKinds
                     \cup AgencyKinds \cup ChatKinds \cup MediaKinds) = {}
  /\ SessionKinds \cap (UserKinds \cup ModerationKinds \cup MoneyKinds
                        \cup AgencyKinds \cup ChatKinds \cup MediaKinds) = {}
  /\ ModerationKinds \cap (UserKinds \cup MoneyKinds \cup AgencyKinds \cup ChatKinds \cup MediaKinds) = {}
  /\ AgencyKinds \cap (UserKinds \cup MoneyKinds \cup ChatKinds \cup MediaKinds) = {}
  /\ "none" \notin RoomKinds \cup SessionKinds \cup ModerationKinds \cup AgencyKinds
BY DEF UserKinds, SessionKinds, ModerationKinds, MoneyKinds, AgencyKinds, ChatKinds, RoomKinds, MediaKinds

-----------------------------------------------------------------------------
(***************************************************************************)
(* Rooms.  What a step of a call does to them and to its plan, kind by     *)
(* kind; a call of another kind does nothing.                              *)
(***************************************************************************)
LookUp == <<"getByStreamID", "createLiveRoom">>
Create1 == <<"createLiveRoom">>
AskStage == <<"countSpeakers", "takeStage">>
Take1 == <<"takeStage">>

\* The statements a call may have left to run.
RoomPlanInv == \A p \in Kinds(RoomKinds) : fate[p] = "running" =>
  \/ job[p].kind = "getRoom" /\ plan[p] \in {LookUp, Create1}
  \/ job[p].kind = "speak" /\ plan[p] = <<"createLiveMessage">>
  \/ job[p].kind = "createVoice" /\ plan[p] = <<"addVoiceHost">>
  \/ job[p].kind = "joinVoice" /\ plan[p] = <<"addListener">>
  \/ job[p].kind = "requestStage" /\ plan[p] \in {AskStage, Take1}
  \/ job[p].kind = "endVoice" /\ plan[p] = <<"endRoom">>

Opens(p) == fate[p] = "new" /\ fate'[p] = "running"
Goes(p) == fate[p] = "running" /\ fate'[p] = "running"
Does(p) == fate[p] = "running" /\ fate'[p] = "done"
Fails(p) == fate'[p] = "failed"

GetRoomMove(p) ==
  /\ job[p].kind = "getRoom"
  /\ UNCHANGED <<liveMember, voiceVars>>
  /\ \/ Opens(p) /\ plan'[p] = LookUp /\ UNCHANGED liveRoom
     \/ /\ Goes(p) /\ plan'[p] = Create1 /\ UNCHANGED liveRoom
        /\ faults' # faults \/ \A r \in LiveRoom : liveRoom[r] # job[p].stream
     \/ /\ Does(p) /\ plan[p] = Create1
        /\ liveRoom' = [liveRoom EXCEPT ![job[p].room] = job[p].stream]
     \/ (Fails(p) \/ Does(p)) /\ UNCHANGED liveRoom
MemberMove(p) ==
  /\ UNCHANGED <<liveRoom, voiceVars>>
  /\ \/ /\ job[p].kind = "joinRoom" /\ fate[p] = "new" /\ fate'[p] = "done"
        /\ liveMember' = liveMember \cup {<<job[p].room, job[p].user>>}
     \/ /\ job[p].kind = "leaveRoom" /\ fate[p] = "new" /\ fate'[p] = "done"
        /\ liveMember' = liveMember \ {<<job[p].room, job[p].user>>}
     \/ /\ job[p].kind = "speak" /\ Opens(p) /\ <<job[p].room, job[p].user>> \in liveMember
        /\ plan'[p] = <<"createLiveMessage">> /\ UNCHANGED liveMember
     \/ job[p].kind = "speak" /\ Does(p) /\ UNCHANGED liveMember
     \/ job[p].kind = "deleteSpoken" /\ fate'[p] = "done" /\ UNCHANGED liveMember
     \/ job[p].kind \in {"joinRoom", "speak"} /\ Fails(p) /\ UNCHANGED liveMember
VoiceMove(p) ==
  /\ UNCHANGED liveVars
  /\ \/ /\ job[p].kind = "createVoice" /\ Opens(p) /\ plan'[p] = <<"addVoiceHost">> /\ UNCHANGED role
        /\ voiceRoom' = [voiceRoom EXCEPT ![job[p].room] = [host |-> job[p].user, ended |-> FALSE]]
     \/ /\ job[p].kind = "createVoice" /\ Does(p) /\ UNCHANGED voiceRoom
        /\ role' \in {role, [role EXCEPT ![job[p].room][job[p].user] = "host"]}
     \/ /\ job[p].kind = "endVoice" /\ Opens(p) /\ plan'[p] = <<"endRoom">> /\ UNCHANGED voiceVars
        /\ voiceRoom[job[p].room] # NoLine
     \/ /\ job[p].kind = "endVoice" /\ Does(p) /\ UNCHANGED role
        /\ voiceRoom' = [voiceRoom EXCEPT ![job[p].room].ended = TRUE]
     \/ /\ job[p].kind = "joinVoice" /\ Opens(p) /\ plan'[p] = <<"addListener">> /\ UNCHANGED voiceVars
        /\ Active(job[p].room)
     \/ /\ job[p].kind = "joinVoice" /\ Does(p) /\ UNCHANGED voiceRoom
        /\ SetRole(job[p].room, job[p].user, "listener")
     \/ /\ job[p].kind = "leaveVoice" /\ fate'[p] = "done" /\ UNCHANGED voiceRoom
        /\ role' = role \/ SetRole(job[p].room, job[p].user, "left")
     \/ /\ job[p].kind = "requestStage" /\ Opens(p) /\ plan'[p] = AskStage /\ UNCHANGED voiceVars
        /\ voiceRoom[job[p].room] # NoLine
     \/ /\ job[p].kind = "requestStage" /\ Goes(p) /\ plan'[p] = Take1 /\ UNCHANGED voiceVars
        /\ faults' # faults \/ ~ (CountSpeakers(job[p].room) >= MaxSpeakers)
     \/ /\ job[p].kind = "requestStage" /\ Does(p) /\ plan[p] = Take1 /\ UNCHANGED voiceRoom
        /\ role' = role \/ SetRole(job[p].room, job[p].user, "speaker")
     \/ /\ job[p].kind \in {"createVoice", "endVoice", "joinVoice", "requestStage"} /\ Fails(p)
        /\ UNCHANGED voiceVars
RoomMove(p) == GetRoomMove(p) \/ MemberMove(p) \/ VoiceMove(p)

\* Which call has come to a statement of the rooms, and what it runs next.
LEMMA RoomAt ==
  ASSUME RoomPlanInv, NEW p \in Kinds(RoomKinds), fate[p] = "running"
  PROVE  /\ Head(plan[p]) = "getByStreamID" => job[p].kind = "getRoom" /\ Tail(plan[p]) = Create1
         /\ Head(plan[p]) = "createLiveRoom" =>
              job[p].kind = "getRoom" /\ plan[p] = Create1 /\ Tail(plan[p]) = <<>>
         /\ Head(plan[p]) = "createLiveMessage" => job[p].kind = "speak" /\ Tail(plan[p]) = <<>>
         /\ Head(plan[p]) = "addVoiceHost" => job[p].kind = "createVoice" /\ Tail(plan[p]) = <<>>
         /\ Head(plan[p]) = "addListener" => job[p].kind = "joinVoice" /\ Tail(plan[p]) = <<>>
         /\ Head(plan[p]) = "countSpeakers" => job[p].kind = "requestStage" /\ Tail(plan[p]) = Take1
         /\ Head(plan[p]) = "takeStage" =>
              job[p].kind = "requestStage" /\ plan[p] = Take1 /\ Tail(plan[p]) = <<>>
         /\ Head(plan[p]) = "endRoom" => job[p].kind = "endVoice" /\ Tail(plan[p]) = <<>>
<1>1. /\ Head(LookUp) = "getByStreamID" /\ Tail(LookUp) = Create1
      /\ Head(Create1) = "createLiveRoom" /\ Tail(Create1) = <<>>
      /\ Head(AskStage) = "countSpeakers" /\ Tail(AskStage) = Take1
      /\ Head(Take1) = "takeStage" /\ Tail(Take1) = <<>>
  BY DEF LookUp, Create1, AskStage, Take1
<1>2. \A a \in {"createLiveMessage", "addVoiceHost", "addListener", "endRoom"} :
        Head(<<a>>) = a /\ Tail(<<a>>) = <<>>
  OBVIOUS
<1>3. \/ job[p].kind = "getRoom" /\ plan[p] = LookUp
      \/ job[p].kind = "getRoom" /\ plan[p] = Create1
      \/ job[p].kind = "speak" /\ plan[p] = <<"createLiveMessage">>
      \/ job[p].kind = "createVoice" /\ plan[p] = <<"addVoiceHost">>
      \/ job[p].kind = "joinVoice" /\ plan[p] = <<"addListener">>
      \/ job[p].kind = "requestStage" /\ plan[p] = AskStage
      \/ job[p].kind = "requestStage" /\ plan[p] = Take1
      \/ job[p].kind = "endVoice" /\ plan[p] = <<"endRoom">>
  BY DEF RoomPlanInv
<1> QED BY <1>1, <1>2, <1>3

\* What becomes of p when it follows s.
LEMMA FollowFate ==
  ASSUME CallInv, NEW p \in Proc, NEW s, NEW v, Follow(p, s, v)
  PROVE  /\ plan'[p] = s
         /\ s = <<>> => fate'[p] = "done"
         /\ s # <<>> => fate'[p] = "running" /\ seen'[p] = v
BY DEF CallInv, CallTypeOK, Follow

\* And when it breaks off.
LEMMA BreakFate ==
  ASSUME CallInv, NEW p \in Proc, Break(p)
  PROVE  fate'[p] = "failed" /\ plan'[p] = <<>>
BY DEF CallInv, CallTypeOK, Break

\* A step of the rooms is one of the moves above.
LEMMA RoomStepIsMove ==
  ASSUME CallInv, RoomPlanInv, NEW p \in Kinds(RoomKinds), RestOf(p), RoomStep(p)
  PROVE  RoomMove(p)
<1> USE DEF Opens, Goes, Does, Fails, Asked, At, Begin, Refuse, Return, Go, Hold, Continue, Stop
<1>1. p \in Proc /\ Create1 # <<>> /\ LookUp # <<>> /\ AskStage # <<>> /\ Take1 # <<>>
  BY DEF Kinds, Create1, LookUp, AskStage, Take1
<1>2. ASSUME NEW s, NEW v, Follow(p, s, v) PROVE plan'[p] = s /\ fate'[p] = IF s = <<>> THEN "done" ELSE "running"
  BY <1>1, <1>2, FollowFate
<1>3. CASE UNCHANGED voiceVars /\ GetOrCreateRoom(p)
  BY <1>1, <1>2, <1>3, FollowFate DEF GetOrCreateRoom, GetRoomMove, RoomMove, liveVars, LookUp
<1>4. CASE UNCHANGED voiceVars /\ GetByStreamID(p)
  BY <1>1, <1>2, <1>4, FollowFate, RoomAt DEF GetByStreamID, GetRoomMove, RoomMove, liveVars
<1>5. CASE UNCHANGED voiceVars /\ CreateLiveRoom(p)
  BY <1>1, <1>2, <1>5, FollowFate, RoomAt DEF CreateLiveRoom, GetRoomMove, RoomMove, liveVars
<1>6. CASE UNCHANGED voiceVars /\ JoinRoom(p)
  BY <1>1, <1>2, <1>6, FollowFate, BreakFate DEF JoinRoom, MemberMove, RoomMove
<1>7. CASE UNCHANGED voiceVars /\ LeaveRoom(p)
  BY <1>1, <1>2, <1>7, FollowFate, BreakFate DEF LeaveRoom, MemberMove, RoomMove
<1>8. CASE UNCHANGED voiceVars /\ SpeakInRoom(p)
  BY <1>1, <1>2, <1>8, FollowFate, BreakFate DEF SpeakInRoom, MemberMove, RoomMove, liveVars
<1>9. CASE UNCHANGED voiceVars /\ (CreateLiveMessage(p) \/ DeleteLiveMessage(p))
  BY <1>1, <1>2, <1>9, FollowFate, BreakFate, RoomAt
     DEF CreateLiveMessage, DeleteLiveMessage, MemberMove, RoomMove
<1>10. CASE UNCHANGED liveVars /\ (CreateVoiceRoom(p) \/ AddVoiceHost(p))
  <2>1. CASE CreateVoiceRoom(p)
    BY <1>1, <1>2, <1>10, <2>1 DEF CreateVoiceRoom, VoiceMove, RoomMove
  <2>2. CASE AddVoiceHost(p)
    BY <1>1, <1>2, <1>10, <2>2, RoomAt DEF AddVoiceHost, SetRole, VoiceMove, RoomMove
  <2> QED BY <1>10, <2>1, <2>2
<1>11. CASE UNCHANGED liveVars /\ (JoinVoice(p) \/ AddListener(p))
  BY <1>1, <1>2, <1>11, FollowFate, BreakFate, RoomAt
     DEF JoinVoice, AddListener, VoiceMove, RoomMove, voiceVars
<1>12. CASE UNCHANGED liveVars /\ (LeaveVoice(p) \/ RequestStage(p))
  BY <1>1, <1>2, <1>12, FollowFate, BreakFate, RoomAt
     DEF LeaveVoice, RequestStage, VoiceMove, RoomMove, voiceVars, AskStage
<1>13. CASE UNCHANGED liveVars /\ CountStage(p)
  BY <1>1, <1>2, <1>13, FollowFate, BreakFate, RoomAt
     DEF CountStage, VoiceMove, RoomMove, voiceVars
<1>14. CASE UNCHANGED liveVars /\ TakeStage(p)
  BY <1>1, <1>2, <1>14, FollowFate, BreakFate, RoomAt
     DEF TakeStage, VoiceMove, RoomMove, voiceVars
<1>15. CASE UNCHANGED liveVars /\ (EndVoice(p) \/ EndRoom(p))
  BY <1>1, <1>2, <1>15, FollowFate, BreakFate, RoomAt
     DEF EndVoice, EndRoom, VoiceMove, RoomMove, voiceVars
<1> QED BY <1>3, <1>4, <1>5, <1>6, <1>7, <1>8, <1>9, <1>10, <1>11, <1>12, <1>13, <1>14, <1>15 DEF RoomStep

\* A fault too.
LEMMA RoomFaultIsMove ==
  ASSUME CallInv, RoomPlanInv, NEW p \in Kinds(RoomKinds), RestOf(p), Fault(p, Ignored(p)), UNCHANGED roomVars
  PROVE  RoomMove(p)
<1> USE DEF RoomMove, Opens, Goes, Does, Fails
<1>1. p \in Proc /\ Take1 # <<>> /\ Create1 # <<>>
  BY DEF Kinds, Take1, Create1
<1>2. fate[p] = "running" /\ faults' # faults /\ UNCHANGED <<liveVars, voiceVars>>
  BY DEF Fault, roomVars, CallInv, CallTypeOK
<1>3. job[p].kind \in {"getRoom", "speak", "createVoice", "joinVoice", "requestStage", "endVoice"}
  BY <1>2 DEF RoomPlanInv
<1>4. CASE Break(p)
  BY <1>1, <1>2, <1>3, <1>4, BreakFate DEF GetRoomMove, MemberMove, VoiceMove, liveVars, voiceVars
<1>5. CASE Head(plan[p]) \in Ignored(p) /\ Follow(p, Tail(plan[p]), seen[p])
  <2>1. Head(plan[p]) \notin {"createLiveRoom", "createLiveMessage", "addListener", "takeStage", "endRoom"}
    BY <1>5 DEF Ignored, IgnoredProfile, IgnoredVerification, IgnoredSession, IgnoredModeration,
                IgnoredPayout, IgnoredChat, IgnoredRoom, IgnoredMedia
  <2>2. Head(plan[p]) \in {"getByStreamID", "addVoiceHost", "countSpeakers"}
    BY <1>2, <2>1 DEF RoomPlanInv, LookUp, Create1, AskStage, Take1
  <2>3. CASE Head(plan[p]) = "getByStreamID"
    BY <1>1, <1>2, <1>5, <2>3, RoomAt, FollowFate DEF GetRoomMove, liveVars, voiceVars
  <2>4. CASE Head(plan[p]) # "getByStreamID"
    BY <1>1, <1>2, <1>5, <2>2, <2>4, RoomAt, FollowFate DEF VoiceMove, voiceVars
  <2> QED BY <2>3, <2>4
<1> QED BY <1>4, <1>5 DEF Fault

\* Nothing happens to the rooms nor to a call of theirs.
RoomsRest == /\ UNCHANGED <<roomVars, job>>
             /\ faults <= faults'
             /\ \A q \in Kinds(RoomKinds) : fate'[q] = fate[q] /\ plan'[q] = plan[q] /\ past'[q] = past[q]

\* A step of another call, or of none, leaves the rooms.
LEMMA RoomsOrRest ==
  ASSUME CallInv, RoomPlanInv, [Next]_vars
  PROVE  \/ \E p \in Kinds(RoomKinds) : RestOf(p) /\ RoomMove(p)
         \/ RoomsRest
<1>1. faults \in Nat
  BY DEF CallInv, CallTypeOK
<1>2. ASSUME NEW p \in Proc, Step(p) PROVE job[p].kind \in RoomKinds \/ UNCHANGED roomVars
  BY <1>2, RequestKinds, KindsApart DEF Step, AccountStep, ContentStep, contentVars
<1>3. ASSUME NEW p \in Proc, Step(p), job[p].kind \in RoomKinds
      PROVE  RoomStep(p) \/ (Fault(p, Ignored(p)) /\ UNCHANGED roomVars)
  BY <1>3, RequestKinds, KindsApart DEF Step, AccountStep, ContentStep, contentVars
<1>4. ASSUME NEW p \in Proc, Step(p), RestOf(p) PROVE RoomsRest \/ \E q \in Kinds(RoomKinds) : RestOf(q) /\ RoomMove(q)
  <2>1. CASE job[p].kind \in RoomKinds
    BY <1>3, <1>4, <2>1, RoomStepIsMove, RoomFaultIsMove DEF Kinds
  <2>2. CASE job[p].kind \notin RoomKinds
    BY <1>1, <1>2, <1>4, <2>2 DEF Kinds, RoomsRest, RestOf
  <2> QED BY <2>1, <2>2
<1>5. ASSUME NEW p \in Proc, Tidies(p) PROVE RoomsRest
  BY <1>1, <1>5 DEF Tidies, RoomsRest, callVars
<1>6. ASSUME Rest, UNCHANGED <<accountVars, contentVars>> PROVE RoomsRest
  BY <1>1, <1>6 DEF Rest, RoomsRest, contentVars
<1> QED BY <1>4, <1>5, <1>6, CallSteps

\* The tables have a row for each of their keys.
RoomShape ==
  /\ DOMAIN liveRoom = LiveRoom /\ liveRoom = [r \in LiveRoom |-> liveRoom[r]]
  /\ DOMAIN voiceRoom = VoiceRoom /\ voiceRoom = [r \in VoiceRoom |-> voiceRoom[r]]
  /\ \A r \in VoiceRoom : voiceRoom[r] # NoLine => voiceRoom[r] \in [host : Guest, ended : BOOLEAN]
  /\ role \in [VoiceRoom -> [Guest -> Roles \cup {"left", "none"}]]

VoiceKinds == {"createVoice", "joinVoice", "leaveVoice", "requestStage", "endVoice"}

\* A request for a room names one, and who makes it.
LEMMA RoomJobs ==
  ASSUME CallInv, NEW p \in Kinds(RoomKinds)
  PROVE  /\ p \in Proc
         /\ job[p].kind = "getRoom" => job[p].room \in LiveRoom /\ job[p].stream \in LiveStream
         /\ job[p].kind \in VoiceKinds => job[p].room \in VoiceRoom /\ job[p].user \in Guest
<1>1. p \in Proc /\ job[p].kind \in RoomKinds /\ job \in Jobs
  BY DEF Kinds, CallInv
<1>2. job[p] \in RoomRequests
  BY <1>1, JobAssumption, RequestKinds, KindsApart
<1>3. job[p].kind = "getRoom" => job[p] \in RoomRequest
  BY <1>2 DEF RoomRequests, JoinRequest, LeaveRequest, SpeakRequest, DeleteSpokenRequest, VoiceRequest
<1>4. job[p].kind \in VoiceKinds => job[p] \in VoiceRequest
  BY <1>2 DEF RoomRequests, RoomRequest, JoinRequest, LeaveRequest, SpeakRequest,
              DeleteSpokenRequest, VoiceKinds
<1> QED BY <1>1, <1>3, <1>4 DEF RoomRequest, VoiceRequest

\* A voice room has been created by a call that has begun; and by one only.
Created(r) == \E c \in Kind("createVoice") : job[c].room = r /\ fate[c] # "new"
LEMMA CreatedOnce ==
  ASSUME CallInv, NEW r, Created(r), NEW c \in Kind("createVoice"), job[c].room = r
  PROVE  fate[c] # "new"
<1>1. PICK d \in Kind("createVoice") : job[d].room = r /\ fate[d] # "new"
  BY DEF Created
<1>2. c = d
  BY <1>1, FreshAssumption DEF Kind, CallInv
<1> QED BY <1>1, <1>2

\* What a call finds in the voice rooms while it runs.
RowInv ==
  /\ \A r \in VoiceRoom : voiceRoom[r] # NoLine => Created(r)
  /\ \A p \in Kind("requestStage") : fate[p] = "running" => Created(job[p].room)
  /\ \A q \in Kind("endVoice") : fate[q] \in {"running", "done"} =>
       Created(job[q].room) /\ voiceRoom[job[q].room] \in [host : Guest, ended : BOOLEAN]
  /\ \A q \in Kind("endVoice") : Done(q) => ~Active(job[q].room)
  /\ \A p \in Kind("joinVoice"), q \in Kind("endVoice") :
       (Done(q) /\ Before(q, p) /\ job[p].room = job[q].room) => fate[p] = "failed"

\* Who is a member has joined, and not left since; and so had who speaks.
JoinedBy(q, r, u) == q \in Kind("joinRoom") /\ job[q].room = r /\ job[q].user = u /\ Done(q)
MemberInv ==
  \A m \in liveMember : m = <<m[1], m[2]>> /\ \E q \in Proc :
    /\ JoinedBy(q, m[1], m[2])
    /\ \A l \in OfGuest("leaveRoom", m[1], m[2]) : ~Before(q, l)
SpeakInv ==
  \A p \in Kind("speak") : fate[p] \in {"running", "done"} =>
    \E q \in Proc :
      /\ JoinedBy(q, job[p].room, job[p].user) /\ ~Before(p, q)
      /\ \A l \in OfGuest("leaveRoom", job[p].room, job[p].user) : Before(l, p) => ~Before(q, l)

\* A room has been created by a call after which nobody has found none.
Finder(p, r) == p \in Kind("getRoom") /\ job[p].room = r /\ job[p].stream = liveRoom[r] /\ Done(p)
OneRoomInv ==
  faults = 0 => \A r \in LiveRoom : liveRoom[r] # NoLine => \E p \in Proc :
    /\ Finder(p, r)
    /\ \A q \in Kind("getRoom") : (job[q].stream = liveRoom[r] /\ Before(p, q)) =>
         ~ (fate[q] = "running" /\ plan[q] = Create1)

\* Nobody came to a stage while another did, or while its room was created.
Undisturbed(r) ==
  /\ \A p, q \in Kind("requestStage") : (job[p].room = r /\ job[q].room = r) => ~Overlap(p, q)
  /\ \A p \in Kind("requestStage"), q \in Kind("createVoice") :
       (job[p].room = r /\ job[q].room = r) => ~Overlap(p, q)
OnStage(r) == {u \in Guest : role[r][u] \in {"host", "speaker"}}
StageInv ==
  faults = 0 => \A r \in VoiceRoom : Undisturbed(r) =>
    /\ CountSpeakers(r) <= MaxSpeakers
    /\ \A p \in Kind("requestStage") :
         (job[p].room = r /\ fate[p] = "running" /\ plan[p] = Take1) => CountSpeakers(r) < MaxSpeakers
    /\ \A c \in Kind("createVoice") :
         (job[c].room = r /\ fate[c] \in {"new", "running"}) => OnStage(r) = {}

RoomsInv == /\ CallInv /\ RoomPlanInv /\ RoomShape /\ RowInv /\ MemberInv /\ SpeakInv
            /\ OneRoomInv /\ RoomsAreOne /\ StageInv /\ JoinedOnlyToListen

-----------------------------------------------------------------------------
\* A call comes to the statements of its kind, one after the other.
LEMMA RoomPlanKept ==
  ASSUME RoomPlanInv, CallInv, NEW p \in Kinds(RoomKinds), RestOf(p), RoomMove(p)
  PROVE  RoomPlanInv'
<1>1. p \in Proc /\ job' = job /\ Kinds(RoomKinds)' = Kinds(RoomKinds) /\ Kinds(RoomKinds) \subseteq Proc
  BY DEF Kinds, RestOf
<1>2. \A q \in Kinds(RoomKinds) \ {p} : fate'[q] = fate[q] /\ plan'[q] = plan[q]
  BY <1>1 DEF RestOf
<1>3. CASE fate'[p] = "running"
  <2>1. CASE GetRoomMove(p)
    BY <1>1, <1>2, <1>3, <2>1 DEF GetRoomMove, RoomPlanInv, Opens, Goes, Does, Fails
  <2>2. CASE MemberMove(p)
    BY <1>1, <1>2, <1>3, <2>2 DEF MemberMove, RoomPlanInv, Opens, Goes, Does, Fails
  <2>3. CASE VoiceMove(p)
    BY <1>1, <1>2, <1>3, <2>3 DEF VoiceMove, RoomPlanInv, Opens, Goes, Does, Fails
  <2> QED BY <2>1, <2>2, <2>3 DEF RoomMove
<1>4. CASE fate'[p] # "running"
  BY <1>1, <1>2, <1>4 DEF RoomPlanInv
<1> QED BY <1>3, <1>4

\* The rows keep their form.
LEMMA RoomShapeKept ==
  ASSUME RoomShape, RowInv, CallInv, NEW p \in Kinds(RoomKinds), RestOf(p), RoomMove(p)
  PROVE  RoomShape'
<1> USE DEF RoomShape
<1>1. p \in Proc /\ (job[p].kind = "getRoom" => job[p].room \in LiveRoom)
      /\ (job[p].kind \in VoiceKinds => job[p].room \in VoiceRoom /\ job[p].user \in Guest)
  BY RoomJobs
<1>2. CASE GetRoomMove(p)
  BY <1>1, <1>2 DEF GetRoomMove, voiceVars
<1>3. CASE MemberMove(p)
  BY <1>3 DEF MemberMove, voiceVars
<1>4. CASE VoiceMove(p)
  <2> DEFINE r == job[p].room  u == job[p].user
  <2>1. liveRoom' = liveRoom
    BY <1>4 DEF VoiceMove, liveVars
  <2>2. role' \in [VoiceRoom -> [Guest -> Roles \cup {"left", "none"}]]
    <3>1. \A is \in Roles \cup {"left", "none"} :
            job[p].kind \in VoiceKinds => [role EXCEPT ![r][u] = is] \in [VoiceRoom -> [Guest -> Roles \cup {"left", "none"}]]
      BY <1>1
    <3>2. \/ role' = role
          \/ /\ job[p].kind \in VoiceKinds
             /\ \/ SetRole(r, u, "host") \/ SetRole(r, u, "listener")
                \/ SetRole(r, u, "left") \/ SetRole(r, u, "speaker")
      BY <1>4 DEF VoiceMove, SetRole, VoiceKinds, voiceVars
    <3>3. {"host", "listener", "left", "speaker"} \subseteq Roles \cup {"left", "none"}
      BY DEF Roles
    <3> QED BY <3>1, <3>2, <3>3 DEF SetRole, RoomShape
  <2>3. CASE voiceRoom' = voiceRoom
    BY <2>1, <2>2, <2>3
  <2>4. CASE job[p].kind = "createVoice" /\ voiceRoom' = [voiceRoom EXCEPT ![r] = [host |-> u, ended |-> FALSE]]
    BY <1>1, <2>1, <2>2, <2>4 DEF VoiceKinds
  <2>5. CASE job[p].kind = "endVoice" /\ Does(p) /\ voiceRoom' = [voiceRoom EXCEPT ![r].ended = TRUE]
    <3>1. voiceRoom[r] \in [host : Guest, ended : BOOLEAN] /\ r \in VoiceRoom
      BY <1>1, <2>5 DEF RowInv, Kind, Does, VoiceKinds
    <3>2. [voiceRoom[r] EXCEPT !.ended = TRUE] \in [host : Guest, ended : BOOLEAN]
      BY <3>1
    <3>3. /\ DOMAIN voiceRoom' = VoiceRoom /\ voiceRoom' = [x \in VoiceRoom |-> voiceRoom'[x]]
          /\ voiceRoom'[r] = [voiceRoom[r] EXCEPT !.ended = TRUE]
          /\ \A x \in VoiceRoom \ {r} : voiceRoom'[x] = voiceRoom[x]
      BY <2>5, <3>1
    <3> QED BY <2>1, <2>2, <3>2, <3>3
  <2> QED BY <1>4, <2>3, <2>4, <2>5 DEF VoiceMove, voiceVars
<1> QED BY <1>2, <1>3, <1>4 DEF RoomMove

\* What is in the voice rooms follows the calls about them.
LEMMA RowKept ==
  ASSUME RoomShape, RowInv, RoomPlanInv, CallInv, CallInv',
         NEW p \in Kinds(RoomKinds), RestOf(p), RoomMove(p)
  PROVE  RowInv'
<1>1. /\ p \in Proc /\ job' = job /\ \A k : Kind(k)' = Kind(k) /\ Kind(k) \subseteq Proc
      /\ \A q \in Proc : Before(q, q) => fate[q] \in Closed
  BY RoomJobs DEF Kind, RestOf, CallInv, CallTypeOK, Before
<1>2. /\ \A q \in Proc \ {p} : fate'[q] = fate[q] /\ past'[q] = past[q]
      /\ fate[p] = "new" => past'[p] = Ended
      /\ fate[p] # "new" => past'[p] = past[p]
      /\ fate[p] \notin Closed /\ fate'[p] # "new"
  BY DEF RestOf
<1>3. \A r : Created(r) => Created(r)'
  <2> SUFFICES ASSUME NEW r, Created(r) PROVE Created(r)'
    OBVIOUS
  <2>1. PICK c \in Kind("createVoice") : job[c].room = r /\ fate[c] # "new"
    BY DEF Created
  <2> QED BY <1>1, <1>2, <2>1 DEF Created
<1>4. \A q, c \in Proc : (Done(c) /\ fate[q] # "new") => (Before(c, q)' <=> Before(c, q))
  BY <1>1, <1>2 DEF Before, Done
<1>5. CASE UNCHANGED voiceVars /\ job[p].kind \notin {"requestStage", "endVoice", "joinVoice"}
  BY <1>1, <1>2, <1>3, <1>5 DEF RowInv, Kind, Before, Done, Active, voiceVars
<1>6. CASE VoiceMove(p) /\ job[p].kind = "createVoice"
  <2>1. (Opens(p) /\ plan'[p] = <<"addVoiceHost">> /\ voiceRoom' = [voiceRoom EXCEPT ![job[p].room] = [host |-> job[p].user, ended |-> FALSE]])
        \/ (fate'[p] # "new" /\ fate[p] # "new" /\ voiceRoom' = voiceRoom) \/ (Fails(p) /\ voiceRoom' = voiceRoom)
    BY <1>6 DEF VoiceMove, Opens, Does, Fails, voiceVars
  <2>2. job[p].room \in VoiceRoom /\ job[p].user \in Guest /\ p \in Kind("createVoice")
    BY <1>1, <1>6, RoomJobs DEF VoiceKinds, Kind
  <2>3. CASE voiceRoom' = voiceRoom
    BY <1>1, <1>2, <1>3, <1>6, <2>3 DEF RowInv, Kind, Before, Done, Active
  <2>4. CASE Opens(p) /\ voiceRoom' = [voiceRoom EXCEPT ![job[p].room] = [host |-> job[p].user, ended |-> FALSE]]
    <3>1. ~Created(job[p].room) /\ Created(job[p].room)'
      BY <1>1, <2>2, <2>4, CreatedOnce DEF Opens, Created
    <3>2. \A r \in VoiceRoom \ {job[p].room} : voiceRoom'[r] = voiceRoom[r]
      BY <2>4 DEF RoomShape
    <3>3. \A q \in Kind("endVoice") : fate'[q] \in {"running", "done"} => job[q].room # job[p].room /\ fate[q] = fate'[q]
                                                                          /\ job[q].room \in VoiceRoom
      <4> SUFFICES ASSUME NEW q \in Kind("endVoice"), fate'[q] \in {"running", "done"}
                   PROVE  job[q].room # job[p].room /\ fate[q] = fate'[q] /\ job[q].room \in VoiceRoom
        OBVIOUS
      <4>1. q # p /\ q \in Kinds(RoomKinds)
        BY <1>6 DEF Kind, Kinds, RoomKinds
      <4> QED BY <1>1, <1>2, <3>1, <4>1, RoomJobs DEF RowInv, Kind, VoiceKinds
    <3>4. /\ \A r \in VoiceRoom : (voiceRoom[r] # NoLine => Created(r))'
          /\ \A q \in Kind("requestStage") : (fate[q] = "running" => Created(job[q].room))'
      BY <1>1, <1>2, <1>3, <1>6, <3>1, <3>2 DEF RowInv, Kind
    <3>5. \A q \in Kind("endVoice") : fate'[q] \in {"running", "done"} =>
             Created(job[q].room)' /\ voiceRoom'[job[q].room] \in [host : Guest, ended : BOOLEAN]
      BY <1>1, <1>3, <3>2, <3>3 DEF RowInv
    <3>6. \A q \in Kind("endVoice") : Done(q)' => ~Active(job[q].room)'
      BY <1>1, <3>2, <3>3 DEF RowInv, Done, Active
    <3>7. \A x \in Kind("joinVoice"), q \in Kind("endVoice") :
             (Done(q)' /\ Before(q, x)' /\ job[x].room = job[q].room) => fate'[x] = "failed"
      BY <1>1, <1>2, <1>6, <3>3 DEF RowInv, Kind, Before, Done
    <3> QED BY <1>1, <3>4, <3>5, <3>6, <3>7 DEF RowInv
  <2> QED BY <2>1, <2>3, <2>4
<1>7. CASE VoiceMove(p) /\ job[p].kind = "requestStage"
  <2>1. voiceRoom' = voiceRoom
    BY <1>7 DEF VoiceMove, voiceVars
  <2>2. fate'[p] = "running" => Created(job[p].room)
    <3>1. CASE fate[p] = "running"
      BY <1>1, <1>7, <3>1 DEF RowInv, Kind
    <3>2. CASE fate[p] # "running" /\ fate'[p] = "running"
      <4>1. voiceRoom[job[p].room] # NoLine
        BY <1>7, <3>2 DEF VoiceMove, Opens, Goes, Does, Fails
      <4> QED BY <1>7, <4>1, RoomJobs DEF RowInv, VoiceKinds
    <3> QED BY <3>1, <3>2
  <2> QED BY <1>1, <1>2, <1>3, <1>7, <2>1, <2>2 DEF RowInv, Kind, Before, Done, Active
<1>8. CASE VoiceMove(p) /\ job[p].kind = "endVoice"
  <2> DEFINE r == job[p].room
  <2>1. r \in VoiceRoom /\ p \in Kind("endVoice")
    BY <1>1, <1>8, RoomJobs DEF VoiceKinds, Kind
  <2>2. \/ Opens(p) /\ voiceRoom' = voiceRoom /\ voiceRoom[r] # NoLine
        \/ Fails(p) /\ voiceRoom' = voiceRoom
        \/ Does(p) /\ voiceRoom' = [voiceRoom EXCEPT ![r].ended = TRUE]
    BY <1>8 DEF VoiceMove, voiceVars
  <2>3. CASE Opens(p) /\ voiceRoom' = voiceRoom /\ voiceRoom[r] # NoLine
    <3>1. Created(r) /\ voiceRoom[r] \in [host : Guest, ended : BOOLEAN] /\ fate'[p] = "running"
      BY <2>1, <2>3 DEF RowInv, RoomShape, Opens
    <3> QED BY <1>1, <1>2, <1>3, <1>8, <2>3, <3>1 DEF RowInv, Kind, Before, Done, Active
  <2>4. CASE Fails(p) /\ voiceRoom' = voiceRoom
    BY <1>1, <1>2, <1>3, <1>8, <2>4 DEF RowInv, Kind, Before, Done, Active, Fails
  <2>5. CASE Does(p) /\ voiceRoom' = [voiceRoom EXCEPT ![r].ended = TRUE]
    <3>1. Created(r) /\ voiceRoom[r] \in [host : Guest, ended : BOOLEAN] /\ fate[p] = "running" /\ fate'[p] = "done"
      BY <2>1, <2>5 DEF RowInv, Does
    <3>2. /\ voiceRoom'[r] = [voiceRoom[r] EXCEPT !.ended = TRUE]
          /\ \A x \in VoiceRoom \ {r} : voiceRoom'[x] = voiceRoom[x]
      BY <2>1, <2>5 DEF RoomShape
    <3>3. voiceRoom'[r] \in [host : Guest, ended : BOOLEAN] /\ voiceRoom'[r].ended
      BY <3>1, <3>2
    <3>4. \A q \in Kind("endVoice") : job[q].room \in VoiceRoom
      BY RoomJobs DEF Kind, Kinds, RoomKinds, VoiceKinds
    <3>5. /\ \A x \in VoiceRoom : (voiceRoom[x] # NoLine => Created(x))'
          /\ \A q \in Kind("requestStage") : (fate[q] = "running" => Created(job[q].room))'
      BY <1>1, <1>2, <1>3, <1>8, <2>1, <3>1, <3>2 DEF RowInv, Kind
    <3>6. \A q \in Kind("endVoice") : fate'[q] \in {"running", "done"} =>
             Created(job[q].room)' /\ voiceRoom'[job[q].room] \in [host : Guest, ended : BOOLEAN]
      BY <1>1, <1>2, <1>3, <3>1, <3>2, <3>3, <3>4 DEF RowInv
    <3>7. \A q \in Kind("endVoice") : Done(q)' => ~Active(job[q].room)'
      BY <1>1, <1>2, <3>1, <3>2, <3>3, <3>4 DEF RowInv, Done, Active
    <3>8. \A x \in Kind("joinVoice") : x # p /\ ~Before(p, x)'
      <4> SUFFICES ASSUME NEW x \in Kind("joinVoice") PROVE x # p /\ ~Before(p, x)'
        OBVIOUS
      <4>1. x \in Proc /\ x # p
        BY <1>1, <1>8 DEF Kind
      <4> QED BY <1>1, <1>2, <3>1, <4>1 DEF Before, CallInv, Closed
    <3>9. \A x \in Kind("joinVoice"), q \in Kind("endVoice") :
             (Done(q)' /\ Before(q, x)' /\ job[x].room = job[q].room) => fate'[x] = "failed"
      BY <1>1, <1>2, <3>8 DEF RowInv, Kind, Before, Done
    <3> QED BY <1>1, <3>5, <3>6, <3>7, <3>9 DEF RowInv
  <2> HIDE DEF r
  <2> QED BY <2>2, <2>3, <2>4, <2>5
<1>9. CASE VoiceMove(p) /\ job[p].kind = "joinVoice"
  <2>1. voiceRoom' = voiceRoom /\ (fate[p] = "new" => Fails(p) \/ Active(job[p].room))
    BY <1>2, <1>9 DEF VoiceMove, Opens, Does, voiceVars
  <2>2. \A q \in Kind("endVoice") : (Done(q) /\ Before(q, p)' /\ job[p].room = job[q].room) => fate'[p] = "failed"
    <3> SUFFICES ASSUME NEW q \in Kind("endVoice"), Done(q), Before(q, p)', job[p].room = job[q].room
                 PROVE  fate'[p] = "failed"
      OBVIOUS
    <3>1. ~Active(job[p].room) /\ p \in Kind("joinVoice")
      BY <1>1, <1>9 DEF RowInv, Kind
    <3>2. CASE fate[p] = "new"
      BY <2>1, <3>1, <3>2 DEF Fails
    <3>3. CASE fate[p] # "new"
      BY <1>1, <1>2, <3>1, <3>3 DEF RowInv, Before, Closed
    <3> QED BY <3>2, <3>3
  <2> QED BY <1>1, <1>2, <1>3, <1>9, <2>1, <2>2 DEF RowInv, Kind, Before, Done, Active
<1>10. CASE VoiceMove(p) /\ job[p].kind = "leaveVoice"
  BY <1>1, <1>2, <1>3, <1>10 DEF RowInv, Kind, Before, Done, Active, VoiceMove
<1>11. CASE GetRoomMove(p) \/ MemberMove(p)
  BY <1>5, <1>11 DEF GetRoomMove, MemberMove
<1> QED BY <1>6, <1>7, <1>8, <1>9, <1>10, <1>11 DEF RoomMove, VoiceMove

\* What a step of p leaves of the calls, for the lemmas below.
LEMMA OthersStay ==
  ASSUME CallInv, NEW p \in Kinds(RoomKinds), RestOf(p)
  PROVE  /\ p \in Proc /\ job' = job /\ faults \in Nat /\ faults <= faults'
         /\ \A k : Kind(k)' = Kind(k) /\ Kind(k) \subseteq Proc
         /\ \A q \in Proc \ {p} : fate'[q] = fate[q] /\ plan'[q] = plan[q] /\ past'[q] = past[q]
         /\ fate[p] = "new" => past'[p] = Ended
         /\ fate[p] # "new" => past'[p] = past[p]
         /\ fate[p] \notin Closed /\ fate'[p] # "new"
         /\ \A q, r \in Proc : Before(q, r) => fate[q] \in Closed
         /\ \A q, r \in Proc : fate[r] # "new" => (Before(q, r)' <=> Before(q, r))
         /\ \A q \in Proc : ~Before(p, q)'
         /\ \A q \in Proc : Done(q) => Done(q)'
<1>1. faults \in Nat /\ faults' \in Nat /\ faults <= faults'
  BY CallAssumption DEF CallInv, CallTypeOK, RestOf
<1> QED BY <1>1, RoomJobs DEF RestOf, Kind, Before, CallInv, CallTypeOK, Done, Closed, Ended

\* Members have joined.
LEMMA MembersKept ==
  ASSUME MemberInv, CallInv, NEW p \in Kinds(RoomKinds), RestOf(p), RoomMove(p)
  PROVE  MemberInv'
<1> USE OthersStay
<1>1. SUFFICES ASSUME NEW m \in liveMember'
               PROVE  /\ m = <<m[1], m[2]>>
                      /\ \E q \in Proc : /\ JoinedBy(q, m[1], m[2])'
                                         /\ \A l \in OfGuest("leaveRoom", m[1], m[2])' : ~Before(q, l)'
  BY DEF MemberInv
<1>2. CASE m \in liveMember
  <2>0. m = <<m[1], m[2]>>
    BY <1>2 DEF MemberInv
  <2>1. PICK q \in Proc : /\ JoinedBy(q, m[1], m[2])
                          /\ \A l \in OfGuest("leaveRoom", m[1], m[2]) : ~Before(q, l)
    BY <1>2 DEF MemberInv
  <2>2. JoinedBy(q, m[1], m[2])'
    BY <2>1 DEF JoinedBy
  <2>3. ASSUME NEW l \in OfGuest("leaveRoom", m[1], m[2])', l # p PROVE ~Before(q, l)'
    BY <2>1, <2>3 DEF OfGuest, Before
  <2>4. p \notin OfGuest("leaveRoom", m[1], m[2])' \/ fate[p] # "new"
    <3> SUFFICES ASSUME p \in OfGuest("leaveRoom", m[1], m[2])', fate[p] = "new" PROVE FALSE
      OBVIOUS
    <3>1. job[p].kind = "leaveRoom" /\ job[p].room = m[1] /\ job[p].user = m[2]
      BY DEF OfGuest, Kind
    <3>2. liveMember' = liveMember \ {<<m[1], m[2]>>}
      BY <3>1 DEF RoomMove, GetRoomMove, MemberMove, VoiceMove
    <3> QED BY <2>0, <3>2
  <2>5. p \in OfGuest("leaveRoom", m[1], m[2])' /\ fate[p] # "new" => ~Before(q, p)'
    BY <2>1 DEF OfGuest
  <2> QED BY <2>0, <2>2, <2>3, <2>4, <2>5
<1>3. CASE m \notin liveMember
  <2>1. /\ job[p].kind = "joinRoom" /\ fate[p] = "new" /\ fate'[p] = "done"
        /\ m = <<job[p].room, job[p].user>>
    BY <1>1, <1>3 DEF RoomMove, GetRoomMove, MemberMove, VoiceMove, liveVars
  <2>2. JoinedBy(p, m[1], m[2])'
    BY <2>1 DEF JoinedBy, Kind, Done
  <2>3. \A l \in OfGuest("leaveRoom", m[1], m[2])' : ~Before(p, l)'
    BY DEF OfGuest
  <2> QED BY <2>1, <2>2, <2>3
<1> QED BY <1>2, <1>3

\* Who speaks was a member.
LEMMA SpeakersKept ==
  ASSUME MemberInv, SpeakInv, CallInv, NEW p \in Kinds(RoomKinds), RestOf(p), RoomMove(p)
  PROVE  SpeakInv'
<1> USE OthersStay
<1>1. SUFFICES ASSUME NEW s \in Kind("speak"), fate'[s] \in {"running", "done"}
               PROVE  \E q \in Proc :
                        /\ JoinedBy(q, job[s].room, job[s].user)' /\ ~Before(s, q)'
                        /\ \A l \in OfGuest("leaveRoom", job[s].room, job[s].user)' :
                             Before(l, s)' => ~Before(q, l)'
  BY DEF SpeakInv
<1>2. CASE fate[s] \in {"running", "done"}
  <2>1. PICK q \in Proc :
          /\ JoinedBy(q, job[s].room, job[s].user) /\ ~Before(s, q)
          /\ \A l \in OfGuest("leaveRoom", job[s].room, job[s].user) : Before(l, s) => ~Before(q, l)
    BY <1>2 DEF SpeakInv
  <2>2. JoinedBy(q, job[s].room, job[s].user)' /\ ~Before(s, q)'
    BY <2>1 DEF JoinedBy, Done
  <2>3. ASSUME NEW l \in OfGuest("leaveRoom", job[s].room, job[s].user)', Before(l, s)' PROVE ~Before(q, l)'
    <3>1. Before(l, s) /\ fate[l] # "new" /\ l \in OfGuest("leaveRoom", job[s].room, job[s].user)
      BY <1>2, <2>3 DEF OfGuest, Closed
    <3> QED BY <2>1, <3>1 DEF OfGuest
  <2> QED BY <2>2, <2>3
<1>3. CASE fate[s] \notin {"running", "done"}
  <2>1. s = p /\ fate[s] = "new" /\ <<job[s].room, job[s].user>> \in liveMember
    <3>1. s = p
      BY <1>1, <1>3
    <3>2. job[p].kind = "speak"
      BY <3>1 DEF Kind
    <3> QED BY <1>1, <1>3, <3>1, <3>2 DEF RoomMove, GetRoomMove, MemberMove, VoiceMove, Opens, Does, Fails
  <2>2. PICK q \in Proc : /\ JoinedBy(q, job[s].room, job[s].user)
                          /\ \A l \in OfGuest("leaveRoom", job[s].room, job[s].user) : ~Before(q, l)
    BY <2>1 DEF MemberInv
  <2>3. JoinedBy(q, job[s].room, job[s].user)' /\ ~Before(s, q)'
    BY <2>1, <2>2 DEF JoinedBy, Done
  <2>4. ASSUME NEW l \in OfGuest("leaveRoom", job[s].room, job[s].user)', Before(l, s)' PROVE ~Before(q, l)'
    <3>1. l # s /\ l \in OfGuest("leaveRoom", job[s].room, job[s].user)
      BY <2>1, <2>4 DEF OfGuest
    <3> QED BY <2>2, <3>1 DEF OfGuest
  <2> QED BY <2>3, <2>4
<1> QED BY <1>2, <1>3

\* A room is found by who looks for it after it has been created.
LEMMA OneRoomKept ==
  ASSUME OneRoomInv, RoomShape, CallInv, NEW p \in Kinds(RoomKinds), RestOf(p), RoomMove(p)
  PROVE  OneRoomInv'
<1> USE OthersStay
<1>1. SUFFICES ASSUME faults' = 0, NEW r \in LiveRoom, liveRoom'[r] # NoLine
               PROVE  \E x \in Proc :
                        /\ Finder(x, r)'
                        /\ \A q \in Kind("getRoom") : (job[q].stream = liveRoom'[r] /\ Before(x, q)') =>
                             ~ (fate'[q] = "running" /\ plan'[q] = Create1)
  BY DEF OneRoomInv
<1>2. faults = 0 /\ faults' = faults
  BY <1>1
<1>3. CASE liveRoom'[r] = liveRoom[r]
  <2>1. PICK x \in Proc :
          /\ Finder(x, r)
          /\ \A q \in Kind("getRoom") : (job[q].stream = liveRoom[r] /\ Before(x, q)) =>
               ~ (fate[q] = "running" /\ plan[q] = Create1)
    BY <1>1, <1>2, <1>3 DEF OneRoomInv
  <2>2. Finder(x, r)'
    BY <1>3, <2>1 DEF Finder
  <2>3. ASSUME NEW q \in Kind("getRoom"), job[q].stream = liveRoom[r], Before(x, q)',
               fate'[q] = "running", plan'[q] = Create1
        PROVE  FALSE
    <3>1. CASE q # p
      BY <2>1, <2>3, <3>1 DEF Before
    <3>2. CASE q = p
      <4>1. Goes(p) /\ plan'[p] = Create1 /\ \A y \in LiveRoom : liveRoom[y] # job[p].stream
        BY <1>2, <2>3, <3>2 DEF RoomMove, GetRoomMove, MemberMove, VoiceMove, Opens, Goes, Does, Fails, Kind, LookUp, Create1
      <4> QED BY <2>3, <3>2, <4>1
    <3> QED BY <3>1, <3>2
  <2> QED BY <1>3, <2>2, <2>3
<1>4. CASE liveRoom'[r] # liveRoom[r]
  <2>1. /\ job[p].kind = "getRoom" /\ Does(p) /\ job[p].room = r
        /\ liveRoom'[r] = job[p].stream
    <3>1. job[p].kind = "getRoom" /\ Does(p) /\ liveRoom' = [liveRoom EXCEPT ![job[p].room] = job[p].stream]
      BY <1>4 DEF RoomMove, GetRoomMove, MemberMove, VoiceMove, liveVars
    <3> QED BY <1>4, <3>1 DEF RoomShape
  <2>2. Finder(p, r)'
    BY <2>1 DEF Finder, Kind, Done, Does
  <2> QED BY <2>2
<1> QED BY <1>3, <1>4

\* So two rooms of a stream are of calls that overlapped.
LEMMA RoomsAreOneKept ==
  ASSUME OneRoomInv, RoomsAreOne, RoomShape, CallInv, CallInv',
         NEW p \in Kinds(RoomKinds), RestOf(p), RoomMove(p)
  PROVE  RoomsAreOne'
<1> USE OthersStay
<1>1. SUFFICES ASSUME NEW r \in LiveRoom, NEW s \in LiveRoom, r # s, faults' = 0,
                      liveRoom'[r] # NoLine, liveRoom'[r] = liveRoom'[s]
               PROVE  \E x, q \in Kind("getRoom") : job[x].room = r /\ job[q].room = s /\ Overlap(x, q)'
  BY CallAssumption DEF RoomsAreOne, CallInv, CallTypeOK
<1>2. faults = 0
  BY <1>1
<1>3. \A x, q \in Proc : Overlap(x, q) => Overlap(x, q)'
  BY PastStays DEF CallInv
<1>4. CASE liveRoom' = liveRoom
  BY <1>1, <1>2, <1>3, <1>4 DEF RoomsAreOne
<1>5. CASE job[p].kind = "getRoom" /\ Does(p) /\ plan[p] = Create1
           /\ liveRoom' = [liveRoom EXCEPT ![job[p].room] = job[p].stream]
  <2>1. p \in Kind("getRoom") /\ fate[p] = "running" /\ fate'[p] = "done" /\ \A y \in LiveRoom \ {job[p].room} : liveRoom'[y] = liveRoom[y]
    BY <1>5 DEF RoomShape, Kind, Does
  <2>2. job[p].room \in LiveRoom /\ liveRoom'[job[p].room] = job[p].stream
    BY <1>5, RoomJobs DEF RoomShape
  <2>3. ASSUME NEW y \in LiveRoom, y # job[p].room, liveRoom[y] # NoLine, liveRoom[y] = job[p].stream
        PROVE  \E q \in Kind("getRoom") : job[q].room = y /\ Overlap(p, q)' /\ Overlap(q, p)'
    <3>1. PICK x \in Proc : /\ Finder(x, y)
                            /\ \A q \in Kind("getRoom") : (job[q].stream = liveRoom[y] /\ Before(x, q)) =>
                                 ~ (fate[q] = "running" /\ plan[q] = Create1)
      BY <1>2, <2>3 DEF OneRoomInv
    <3>2. x \in Kind("getRoom") /\ job[x].room = y /\ Done(x) /\ x # p
      BY <2>1, <3>1 DEF Finder, Done
    <3>3. ~Before(x, p)' /\ ~Before(p, x)'
      BY <1>5, <2>1, <2>3, <3>1
    <3>4. fate'[x] # "new" /\ fate'[p] # "new"
      BY <3>2 DEF Done
    <3> QED BY <3>2, <3>3, <3>4 DEF Overlap
  <2>4. CASE r = job[p].room
    BY <1>1, <2>1, <2>2, <2>3, <2>4
  <2>5. CASE s = job[p].room
    BY <1>1, <2>1, <2>2, <2>3, <2>5
  <2>6. CASE r # job[p].room /\ s # job[p].room
    <3>1. liveRoom[r] # NoLine /\ liveRoom[r] = liveRoom[s]
      BY <1>1, <2>1, <2>6
    <3> QED BY <1>1, <1>2, <1>3, <3>1 DEF RoomsAreOne
  <2> QED BY <2>4, <2>5, <2>6
<1> QED BY <1>4, <1>5 DEF RoomMove, GetRoomMove, MemberMove, VoiceMove, liveVars

\* A role of the stage is given on request.
LEMMA ListenersKept ==
  ASSUME JoinedOnlyToListen, RoomShape, CallInv, NEW p \in Kinds(RoomKinds), RestOf(p), RoomMove(p)
  PROVE  JoinedOnlyToListen'
<1> USE OthersStay
<1>1. SUFFICES ASSUME NEW j \in Kind("joinVoice"), Done(j)', role'[job[j].room][job[j].user] \in {"host", "speaker"}
               PROVE  \/ \E q \in OfGuest("requestStage", job[j].room, job[j].user)' : ~Before(q, j)'
                      \/ \E q \in OfGuest("createVoice", job[j].room, job[j].user)' : ~Before(q, j)'
  BY DEF JoinedOnlyToListen
<1> DEFINE r == job[j].room  u == job[j].user
<1>2. j \in Proc /\ j \in Kinds(RoomKinds) /\ r \in VoiceRoom /\ u \in Guest
  <2>1. j \in Kinds(RoomKinds) /\ job[j].kind = "joinVoice"
    BY DEF Kind, Kinds, RoomKinds
  <2> QED BY <2>1, RoomJobs DEF VoiceKinds
<1>3. CASE role'[r][u] = role[r][u] /\ j # p
  <2>1. Done(j)
    BY <1>1, <1>2, <1>3 DEF Done
  <2>2. \/ \E q \in OfGuest("requestStage", r, u) : ~Before(q, j)
        \/ \E q \in OfGuest("createVoice", r, u) : ~Before(q, j)
    BY <1>1, <1>3, <2>1 DEF JoinedOnlyToListen
  <2>3. \A k, q : q \in OfGuest(k, r, u) /\ ~Before(q, j) => q \in OfGuest(k, r, u)' /\ ~Before(q, j)'
    BY <1>2, <2>1 DEF OfGuest, Done
  <2> QED BY <2>2, <2>3
<1>4. CASE role'[r][u] = role[r][u] /\ j = p
  <2>1. job[p].kind = "joinVoice" /\ fate'[p] = "done"
    BY <1>1, <1>4 DEF Kind, Done
  <2>2. SetRole(r, u, "listener")
    BY <1>4, <2>1 DEF RoomMove, GetRoomMove, MemberMove, VoiceMove, Opens, Fails
  <2> QED BY <1>1, <1>2, <2>2 DEF SetRole, RoomShape
<1>5. CASE role'[r][u] # role[r][u]
  <2>1. job[p].kind \in VoiceKinds /\ job[p].room = r /\ job[p].user = u
        /\ \E is : SetRole(job[p].room, job[p].user, is)
    <3>1. job[p].kind \in VoiceKinds /\ \E is : SetRole(job[p].room, job[p].user, is)
      BY <1>5 DEF RoomMove, GetRoomMove, MemberMove, VoiceMove, voiceVars, SetRole, VoiceKinds
    <3>2. PICK is : SetRole(job[p].room, job[p].user, is)
      BY <3>1
    <3> QED BY <1>2, <1>5, <3>1, <3>2, RoomJobs DEF SetRole, RoomShape
  <2>2. \/ SetRole(r, u, "host") /\ job[p].kind = "createVoice"
        \/ SetRole(r, u, "speaker") /\ job[p].kind = "requestStage"
        \/ SetRole(r, u, "listener") \/ SetRole(r, u, "left")
    BY <1>5, <2>1 DEF RoomMove, GetRoomMove, MemberMove, VoiceMove, voiceVars, SetRole
  <2>3. job[p].kind \in {"createVoice", "requestStage"}
    BY <1>1, <1>2, <2>2 DEF SetRole, RoomShape
  <2>4. p \in OfGuest(job[p].kind, r, u)'
    BY <2>1 DEF OfGuest, Kind
  <2> QED BY <1>2, <2>3, <2>4
<1> HIDE DEF r, u
<1> QED BY <1>3, <1>4, <1>5

\* Who is on a stage is no more than one added to who was there.
LEMMA StageGrows ==
  ASSUME RoomShape, NEW r \in VoiceRoom, NEW u \in Guest,
         \A x \in Guest \ {u} : role'[r][x] = role[r][x]
  PROVE  /\ CountSpeakers(r) \in Nat /\ CountSpeakers(r)' \in Nat
         /\ CountSpeakers(r)' <= CountSpeakers(r) + 1
         /\ role'[r][u] \notin {"host", "speaker"} => CountSpeakers(r)' <= CountSpeakers(r)
         /\ OnStage(r) = {} => CountSpeakers(r) = 0
<1> DEFINE S == OnStage(r)  T == OnStage(r)'
<1>1. IsFiniteSet(Guest) /\ S \subseteq Guest /\ T \subseteq Guest
  BY RoomAssumption DEF OnStage
<1>2. IsFiniteSet(S) /\ IsFiniteSet(T)
  BY <1>1, FS_Subset
<1>3. CountSpeakers(r) = Cardinality(S) /\ CountSpeakers(r)' = Cardinality(T)
  BY DEF CountSpeakers, OnStage
<1>4. T \subseteq S \cup {u} /\ (role'[r][u] \notin {"host", "speaker"} => T \subseteq S)
  BY DEF OnStage
<1>5. IsFiniteSet(S \cup {u}) /\ Cardinality(S \cup {u}) <= Cardinality(S) + 1 /\ Cardinality(S) \in Nat
  <2>1. Cardinality(S) \in Nat
    BY <1>2, FS_CardinalityType
  <2>2. IsFiniteSet(S \cup {u})
        /\ Cardinality(S \cup {u}) = IF u \in S THEN Cardinality(S) ELSE Cardinality(S) + 1
    BY <1>2, FS_AddElement
  <2> QED BY <2>1, <2>2
<1>6. Cardinality(T) \in Nat /\ Cardinality(S \cup {u}) \in Nat
  BY <1>2, <1>5, FS_CardinalityType
<1>7. Cardinality(T) <= Cardinality(S \cup {u}) /\ (T \subseteq S => Cardinality(T) <= Cardinality(S))
  BY <1>2, <1>4, <1>5, FS_Subset
<1>8. Cardinality({}) = 0
  BY FS_EmptySet
<1> HIDE DEF S, T
<1>9. S = {} => Cardinality(S) = 0
  BY <1>8
<1> QED BY <1>3, <1>4, <1>5, <1>6, <1>7, <1>9 DEF S

\* A stage fills one place at a time while nobody overlaps.
LEMMA StageKept ==
  ASSUME StageInv, RowInv, RoomPlanInv, RoomShape, CallInv, CallInv',
         NEW p \in Kinds(RoomKinds), RestOf(p), RoomMove(p)
  PROVE  StageInv'
<1> USE OthersStay
<1>1. SUFFICES ASSUME faults' = 0, NEW r \in VoiceRoom, Undisturbed(r)'
               PROVE  /\ CountSpeakers(r)' <= MaxSpeakers
                      /\ \A q \in Kind("requestStage") :
                           (job[q].room = r /\ fate'[q] = "running" /\ plan'[q] = Take1) => CountSpeakers(r)' < MaxSpeakers
                      /\ \A c \in Kind("createVoice") :
                           (job[c].room = r /\ fate'[c] \in {"new", "running"}) => OnStage(r)' = {}
  BY DEF StageInv
<1>2. faults = 0 /\ faults' = faults /\ MaxSpeakers \in Nat \ {0}
  BY <1>1, RoomAssumption
<1>3. Undisturbed(r)
  <2>1. \A x, q \in Proc : Overlap(x, q) => Overlap(x, q)'
    BY PastStays DEF CallInv
  <2> QED BY <1>1, <2>1 DEF Undisturbed
<1>4. /\ CountSpeakers(r) <= MaxSpeakers
      /\ \A q \in Kind("requestStage") :
           (job[q].room = r /\ fate[q] = "running" /\ plan[q] = Take1) => CountSpeakers(r) < MaxSpeakers
      /\ \A c \in Kind("createVoice") :
           (job[c].room = r /\ fate[c] \in {"new", "running"}) => OnStage(r) = {}
  BY <1>2, <1>3 DEF StageInv
<1>5. job[p].kind \in VoiceKinds => job[p].room \in VoiceRoom /\ job[p].user \in Guest
  BY RoomJobs
\* Nobody else of the room is between its two statements.
<1>6. ASSUME p \in Kind("requestStage") \/ p \in Kind("createVoice"), fate[p] = "running", job[p].room = r,
             NEW q \in Kind("requestStage"), job[q].room = r, fate[q] = "running"
      PROVE  q = p
  BY <1>3, <1>6 DEF Undisturbed, Overlap, Closed
<1>7. ASSUME p \in Kind("requestStage"), fate[p] = "running", job[p].room = r,
             NEW c \in Kind("createVoice"), job[c].room = r
      PROVE  fate[c] \in Closed
  <2>1. Created(r)
    BY <1>7 DEF RowInv
  <2>2. fate[c] # "new" /\ c # p /\ c \in Proc
    BY <1>7, <2>1, CreatedOnce DEF Kind
  <2>3. ~Overlap(p, c)
    BY <1>3, <1>7 DEF Undisturbed
  <2> QED BY <1>7, <2>2, <2>3 DEF Overlap, Closed, CallInv, CallTypeOK
<1>8. \A q \in Kind("requestStage") :
        (job[q].room = r /\ fate'[q] = "running" /\ plan'[q] = Take1) =>
          \/ fate[q] = "running" /\ plan[q] = Take1
          \/ q = p /\ ~ (CountSpeakers(r) >= MaxSpeakers) /\ UNCHANGED role
  <2> SUFFICES ASSUME NEW q \in Kind("requestStage"), job[q].room = r, fate'[q] = "running", plan'[q] = Take1,
                      q = p
               PROVE  ~ (CountSpeakers(r) >= MaxSpeakers) /\ UNCHANGED role
    OBVIOUS
  <2>1. job[p].kind = "requestStage"
    BY DEF Kind
  <2> QED BY <1>2, <2>1 DEF RoomMove, GetRoomMove, MemberMove, VoiceMove, voiceVars, Opens, Goes, Does, Fails, AskStage, Take1
<1>9. \A c \in Kind("createVoice") : fate'[c] \in {"new", "running"} => fate[c] \in {"new", "running"}
  BY DEF Closed, CallInv, CallTypeOK
<1>10. CASE role'[r] = role[r]
  <2>1. OnStage(r)' = OnStage(r) /\ CountSpeakers(r)' = CountSpeakers(r)
    BY <1>10 DEF OnStage, CountSpeakers
  <2>2. Guest # {} => CountSpeakers(r) \in Nat
    BY <1>10, StageGrows
  <2>3. CountSpeakers(r) \in Nat
    <3>1. IsFiniteSet({u \in Guest : role[r][u] \in {"host", "speaker"}})
      BY RoomAssumption, FS_Subset
    <3> QED BY <3>1, FS_CardinalityType DEF CountSpeakers
  <2> QED BY <1>2, <1>4, <1>8, <1>9, <2>1, <2>3
<1>11. CASE role'[r] # role[r]
  <2> DEFINE u == job[p].user
  <2>1. /\ job[p].kind \in VoiceKinds
        /\ \/ SetRole(job[p].room, u, "host") /\ job[p].kind = "createVoice" /\ fate[p] = "running" /\ fate'[p] = "done"
           \/ /\ SetRole(job[p].room, u, "speaker") /\ job[p].kind = "requestStage"
              /\ fate[p] = "running" /\ fate'[p] = "done" /\ plan[p] = Take1
           \/ SetRole(job[p].room, u, "listener") \/ SetRole(job[p].room, u, "left")
    BY <1>11 DEF RoomMove, GetRoomMove, MemberMove, VoiceMove, voiceVars, SetRole, VoiceKinds, Does
  <2>2. job[p].room = r /\ u \in Guest
    BY <1>5, <1>11, <2>1 DEF SetRole, RoomShape
  <2>3. \A x \in Guest \ {u} : role'[r][x] = role[r][x]
    BY <2>1, <2>2 DEF SetRole, RoomShape
  <2>4. /\ CountSpeakers(r) \in Nat /\ CountSpeakers(r)' \in Nat
        /\ CountSpeakers(r)' <= CountSpeakers(r) + 1
        /\ role'[r][u] \notin {"host", "speaker"} => CountSpeakers(r)' <= CountSpeakers(r)
        /\ OnStage(r) = {} => CountSpeakers(r) = 0
    BY <2>2, <2>3, StageGrows
  <2>5. CASE SetRole(r, u, "host") /\ job[p].kind = "createVoice" /\ fate[p] = "running" /\ fate'[p] = "done"
    <3>1. OnStage(r) = {} /\ p \in Kind("createVoice")
      BY <1>4, <2>2, <2>5 DEF Kind
    <3>2. \A c \in Kind("createVoice") : job[c].room = r => c = p
      BY <2>2, <3>1, FreshAssumption DEF Kind, CallInv
    <3>3. \A q \in Kind("requestStage") : ~ (job[q].room = r /\ fate'[q] = "running" /\ plan'[q] = Take1)
      BY <1>6, <1>8, <1>11, <2>2, <2>5, <3>1 DEF Kind
    <3> QED BY <1>2, <2>4, <2>5, <3>1, <3>2, <3>3
  <2>6. CASE SetRole(r, u, "speaker") /\ job[p].kind = "requestStage"
             /\ fate[p] = "running" /\ fate'[p] = "done" /\ plan[p] = Take1
    <3>1. p \in Kind("requestStage") /\ CountSpeakers(r) < MaxSpeakers
      BY <1>4, <2>2, <2>6 DEF Kind
    <3>2. \A q \in Kind("requestStage") : ~ (job[q].room = r /\ fate'[q] = "running" /\ plan'[q] = Take1)
      BY <1>6, <1>8, <1>11, <2>2, <2>6, <3>1
    <3>3. \A c \in Kind("createVoice") : job[c].room = r => fate[c] \in Closed
      BY <1>7, <2>2, <2>6, <3>1
    <3>4. \A c \in Kind("createVoice") : ~ (job[c].room = r /\ fate'[c] \in {"new", "running"})
      BY <1>9, <3>3 DEF Closed
    <3> QED BY <1>2, <2>4, <3>1, <3>2, <3>4
  <2>7. CASE SetRole(r, u, "listener") \/ SetRole(r, u, "left")
    <3>1. role'[r][u] \in {"listener", "left"}
      BY <2>2, <2>7 DEF SetRole, RoomShape
    <3>2. OnStage(r)' \subseteq OnStage(r)
      BY <2>3, <3>1 DEF OnStage
    <3> QED BY <1>2, <1>4, <1>8, <1>9, <1>11, <2>4, <3>1, <3>2
  <2> HIDE DEF u
  <2> QED BY <2>1, <2>2, <2>5, <2>6, <2>7
<1> QED BY <1>10, <1>11

\* A step of other calls keeps it all.
LEMMA RoomsRestKept ==
  ASSUME RoomsInv, CallInv', RoomsRest
  PROVE  RoomsInv'
<1> USE DEF RoomsInv, RoomsRest, roomVars, liveVars, voiceVars
<1>1. /\ job' = job /\ faults \in Nat /\ faults' \in Nat
      /\ \A k : Kind(k)' = Kind(k) /\ Kind(k) \subseteq Proc
      /\ Kinds(RoomKinds)' = Kinds(RoomKinds)
  BY CallAssumption DEF Kind, Kinds, CallInv, CallTypeOK
<1>2. /\ \A k \in RoomKinds : Kind(k) \subseteq Kinds(RoomKinds)
      /\ {"getRoom", "joinRoom", "leaveRoom", "speak", "createVoice", "joinVoice", "requestStage", "endVoice"}
           \subseteq RoomKinds
  BY DEF Kind, Kinds, RoomKinds
<1>3. \A q \in Kinds(RoomKinds) : fate'[q] = fate[q] /\ plan'[q] = plan[q] /\ past'[q] = past[q]
  OBVIOUS
<1>4. RoomPlanInv' /\ RoomShape'
  BY <1>1, <1>3 DEF RoomPlanInv, RoomShape
<1>5. RowInv'
  <2>1. \A r : Created(r)' <=> Created(r)
    BY <1>1, <1>2, <1>3 DEF Created
  <2> QED BY <1>1, <1>2, <1>3, <2>1 DEF RowInv, Before, Done, Active
<1>6. MemberInv' /\ SpeakInv'
  <2>1. \A k \in {"joinRoom", "leaveRoom", "speak"} : \A r, u : OfGuest(k, r, u)' = OfGuest(k, r, u)
    BY <1>1, <1>2, <1>3 DEF OfGuest
  <2>2. \A q, r, u : JoinedBy(q, r, u) => JoinedBy(q, r, u)' /\ q \in Kinds(RoomKinds)
    BY <1>1, <1>2, <1>3 DEF JoinedBy, Done
  <2>3. \A k \in {"joinRoom", "leaveRoom", "speak"} : \A r, u : OfGuest(k, r, u) \subseteq Kinds(RoomKinds)
    BY <1>2 DEF OfGuest
  <2>4. \A q, l \in Kinds(RoomKinds) : Before(q, l)' <=> Before(q, l)
    BY <1>3 DEF Before
  <2>5. MemberInv'
    <3> SUFFICES ASSUME NEW m \in liveMember
                 PROVE  /\ m = <<m[1], m[2]>>
                        /\ \E q \in Proc : /\ JoinedBy(q, m[1], m[2])'
                                           /\ \A l \in OfGuest("leaveRoom", m[1], m[2])' : ~Before(q, l)'
      BY DEF MemberInv
    <3>1. PICK q \in Proc : /\ JoinedBy(q, m[1], m[2])
                            /\ \A l \in OfGuest("leaveRoom", m[1], m[2]) : ~Before(q, l)
      BY DEF MemberInv
    <3>2. m = <<m[1], m[2]>>
      BY DEF MemberInv
    <3> QED BY <2>1, <2>2, <2>3, <2>4, <3>1, <3>2
  <2>6. SpeakInv'
    <3> SUFFICES ASSUME NEW s \in Kind("speak"), fate[s] \in {"running", "done"}
                 PROVE  \E q \in Proc :
                          /\ JoinedBy(q, job[s].room, job[s].user)' /\ ~Before(s, q)'
                          /\ \A l \in OfGuest("leaveRoom", job[s].room, job[s].user)' :
                               Before(l, s)' => ~Before(q, l)'
      BY <1>1, <1>2, <1>3 DEF SpeakInv
    <3>1. PICK q \in Proc :
            /\ JoinedBy(q, job[s].room, job[s].user) /\ ~Before(s, q)
            /\ \A l \in OfGuest("leaveRoom", job[s].room, job[s].user) : Before(l, s) => ~Before(q, l)
      BY DEF SpeakInv
    <3>2. s \in Kinds(RoomKinds)
      BY <1>2
    <3> QED BY <2>1, <2>2, <2>3, <2>4, <3>1, <3>2
  <2> QED BY <2>5, <2>6
<1>7. \A k, l \in RoomKinds : \A x \in Kind(k), q \in Kind(l) : Overlap(x, q)' <=> Overlap(x, q)
  BY <1>2, <1>3 DEF Overlap, Before
<1>8. OneRoomInv' /\ RoomsAreOne'
  <2>1. faults' = 0 => faults = 0
    BY <1>1
  <2>2. OneRoomInv'
    <3> SUFFICES ASSUME faults = 0, NEW r \in LiveRoom, liveRoom[r] # NoLine
                 PROVE  \E x \in Proc :
                          /\ Finder(x, r)'
                          /\ \A q \in Kind("getRoom") : (job[q].stream = liveRoom[r] /\ Before(x, q)') =>
                               ~ (fate'[q] = "running" /\ plan'[q] = Create1)
      BY <1>1, <2>1 DEF OneRoomInv
    <3>1. PICK x \in Proc :
            /\ Finder(x, r)
            /\ \A q \in Kind("getRoom") : (job[q].stream = liveRoom[r] /\ Before(x, q)) =>
                 ~ (fate[q] = "running" /\ plan[q] = Create1)
      BY DEF OneRoomInv
    <3>2. x \in Kind("getRoom") /\ Kind("getRoom") \subseteq Kinds(RoomKinds)
      BY <1>2, <3>1 DEF Finder
    <3> QED BY <1>1, <1>3, <3>1, <3>2 DEF Finder, Done, Before
  <2>3. RoomsAreOne'
    BY <1>1, <1>2, <1>7, <2>1 DEF RoomsAreOne
  <2> QED BY <2>2, <2>3
<1>9. StageInv'
  <2>1. faults' = 0 => faults = 0
    BY <1>1
  <2>2. \A r : /\ Undisturbed(r)' <=> Undisturbed(r)
               /\ CountSpeakers(r)' = CountSpeakers(r) /\ OnStage(r)' = OnStage(r)
    BY <1>1, <1>2, <1>7 DEF Undisturbed, CountSpeakers, OnStage
  <2> QED BY <1>1, <1>2, <1>3, <2>1, <2>2 DEF StageInv
<1>10. JoinedOnlyToListen'
  <2>1. \A k \in {"requestStage", "createVoice"} : \A r, u : OfGuest(k, r, u)' = OfGuest(k, r, u)
    BY <1>1, <1>2, <1>3 DEF OfGuest
  <2>2. \A j \in Kind("joinVoice") : \A q : (Before(q, j)' <=> Before(q, j)) /\ (Done(j)' <=> Done(j))
    BY <1>2, <1>3 DEF Before, Done
  <2> QED BY <1>1, <2>1, <2>2 DEF JoinedOnlyToListen
<1> QED BY <1>4, <1>5, <1>6, <1>8, <1>9, <1>10

\* The invariant of the rooms implies what is said of them.
LEMMA RoomsFollow ==
  ASSUME RoomsInv
  PROVE  RoomsHold
<1> USE DEF RoomsInv
<1>1. OnlyMembersSpeak
  <2> SUFFICES ASSUME NEW s \in Kind("speak"), Done(s)
               PROVE  LET joins == {q \in OfGuest("joinRoom", job[s].room, job[s].user) : ~Before(s, q)}
                      IN /\ joins # {}
                         /\ \A l \in OfGuest("leaveRoom", job[s].room, job[s].user) :
                              Before(l, s) => \E q \in joins : ~Before(q, l)
    BY DEF OnlyMembersSpeak
  <2>1. PICK q \in Proc :
          /\ JoinedBy(q, job[s].room, job[s].user) /\ ~Before(s, q)
          /\ \A l \in OfGuest("leaveRoom", job[s].room, job[s].user) : Before(l, s) => ~Before(q, l)
    BY DEF SpeakInv, Done
  <2>2. q \in OfGuest("joinRoom", job[s].room, job[s].user)
    BY <2>1 DEF JoinedBy, OfGuest, Done
  <2> QED BY <2>1, <2>2
<1>2. NobodyJoinsTheEnded
  BY DEF RowInv, NobodyJoinsTheEnded, Done
<1>3. StageHasPlaces
  <2> SUFFICES ASSUME NEW r \in VoiceRoom, CountSpeakers(r) > MaxSpeakers, ~ (faults > 0)
               PROVE  ~Undisturbed(r)
    BY DEF StageHasPlaces, Undisturbed
  <2>1. faults = 0
    BY DEF CallInv, CallTypeOK
  <2>2. CountSpeakers(r) \in Nat /\ MaxSpeakers \in Nat
    <3>1. IsFiniteSet({u \in Guest : role[r][u] \in {"host", "speaker"}})
      BY RoomAssumption, FS_Subset
    <3> QED BY <3>1, RoomAssumption, FS_CardinalityType DEF CountSpeakers
  <2> QED BY <2>1, <2>2 DEF StageInv
<1> QED BY <1>1, <1>2, <1>3 DEF RoomsHold

(***************************************************************************)
(* Chat rooms and voice rooms are what their calls have made them: one     *)
(* room to a stream, only members speak, the stage has its places, nobody  *)
(* joins a room that has ended, and who joins listens (message.go,         *)
(* voice_room.go).                                                         *)
(***************************************************************************)
\* RoomsHold, of what message.go and voice_room.go do.
THEOREM RoomsDoHold == Spec => []RoomsHold
<1>1. Init => RoomsInv
  <2> SUFFICES ASSUME Init PROVE RoomsInv
    OBVIOUS
  <2>1. CallInv /\ faults = 0
    BY CallAssumption DEF Init, CallInit, CallInv, CallTypeOK
  <2>2. \A p \in Kinds(RoomKinds) : fate[p] = "new"
    BY KindsApart DEF Init, CallInit, Kinds
  <2>3. \A k \in RoomKinds : \A p \in Kind(k) : fate[p] = "new" /\ p \in Proc
    BY <2>2 DEF Kind, Kinds
  <2>4. {"getRoom", "joinRoom", "leaveRoom", "speak", "createVoice", "joinVoice", "requestStage", "endVoice"}
          \subseteq RoomKinds
    BY DEF RoomKinds
  <2>5. RoomPlanInv /\ RoomShape /\ MemberInv
    BY <2>2 DEF Init, RoomInit, RoomPlanInv, RoomShape, MemberInv
  <2>6. RowInv /\ SpeakInv /\ JoinedOnlyToListen
    BY <2>3, <2>4 DEF Init, RoomInit, RowInv, SpeakInv, JoinedOnlyToListen, Done
  <2>7. OneRoomInv /\ RoomsAreOne
    BY DEF Init, RoomInit, OneRoomInv, RoomsAreOne
  <2>8. StageInv
    <3> SUFFICES ASSUME NEW r \in VoiceRoom PROVE CountSpeakers(r) = 0 /\ OnStage(r) = {}
      BY <2>3, <2>4, RoomAssumption DEF StageInv
    <3>1. OnStage(r) = {}
      BY DEF Init, RoomInit, OnStage
    <3> QED BY <3>1, FS_EmptySet DEF CountSpeakers, OnStage
  <2> QED BY <2>1, <2>5, <2>6, <2>7, <2>8 DEF RoomsInv
<1>2. RoomsInv /\ CallInv' /\ [Next]_vars => RoomsInv'
  <2> SUFFICES ASSUME RoomsInv, CallInv', [Next]_vars PROVE RoomsInv'
    OBVIOUS
  <2>1. ASSUME NEW p \in Kinds(RoomKinds), RestOf(p), RoomMove(p) PROVE RoomsInv'
    BY <2>1, RoomPlanKept, RoomShapeKept, RowKept, MembersKept, SpeakersKept, OneRoomKept, RoomsAreOneKept,
       StageKept, ListenersKept DEF RoomsInv
  <2> QED BY <2>1, RoomsRestKept, RoomsOrRest DEF RoomsInv
<1>3. RoomsInv => RoomsHold
  BY RoomsFollow
<1> QED BY <1>1, <1>2, <1>3, CallsHold, PTL DEF Spec

-----------------------------------------------------------------------------
(***************************************************************************)
(* Sessions.  What a step of a call does to tokens and to the bucket.      *)
(***************************************************************************)
Store1 == <<"storeToken">>
Mint2 == <<"mint", "storeToken">>
Exchange3 == <<"revoke", "mint", "storeToken">>
Revoke1 == <<"revoke">>
Deny2 == <<"deny", "revoke">>
Gate1 == <<"checkBan">>
Gate2 == <<"authenticate", "checkBan">>
Leave3 == <<"checkBan", "deny", "revoke">>
Leave4 == <<"authenticate", "checkBan", "deny", "revoke">>

\* The statements a call may have left to run.
SessionPlanInv == \A p \in Kinds(SessionKinds) : fate[p] = "running" =>
  \/ job[p].kind = "login" /\ plan[p] = Store1
  \/ job[p].kind = "refresh" /\ plan[p] \in {Exchange3, Mint2, Store1}
  \/ job[p].kind = "logout" /\ plan[p] \in {Leave4, Leave3, Deny2, Revoke1}
  \/ job[p].kind = "request" /\ plan[p] \in {Gate2, Gate1}

Stores(p) == tokenRow' = [tokenRow EXCEPT ![minted[p]] = "active"]
Revokes(p) == tokenRow' = [tokenRow EXCEPT ![Pair(p)] = IF @ = "none" THEN @ ELSE "revoked"]
Denies(p) == denied' = [denied EXCEPT ![Pair(p)][Sent(p)] = now + AccessLife]

\* Where a request and a logout begin, and where the token has let them in.
Entry(p) == IF job[p].kind = "logout" THEN Leave4 ELSE Gate2
Inside(p) == IF job[p].kind = "logout" THEN Leave3 ELSE Gate1

LoginMove(p) ==
  /\ job[p].kind = "login"
  /\ UNCHANGED <<denied, bucket, granted>>
  /\ \/ Opens(p) /\ plan'[p] = Store1 /\ Mint(p, job[p].user) /\ UNCHANGED tokenRow
     \/ Does(p) /\ Stores(p) /\ UNCHANGED minted
     \/ Fails(p) /\ UNCHANGED <<tokenRow, minted>>
RefreshMove(p) ==
  /\ job[p].kind = "refresh"
  /\ UNCHANGED <<denied, bucket, granted>>
  /\ \/ /\ Opens(p) /\ plan'[p] = Exchange3 /\ UNCHANGED <<tokenRow, minted>>
        /\ Held(p) /\ tokenRow[Pair(p)] = "active"
     \/ /\ Goes(p) /\ plan[p] = Exchange3 /\ plan'[p] = Mint2 /\ UNCHANGED minted
        /\ \/ Revokes(p)
           \/ faults' # faults /\ UNCHANGED tokenRow
     \/ Goes(p) /\ plan[p] = Mint2 /\ plan'[p] = Store1 /\ Mint(p, Pair(p).of) /\ UNCHANGED tokenRow
     \/ Does(p) /\ plan[p] = Store1 /\ Stores(p) /\ UNCHANGED minted
     \/ Fails(p) /\ UNCHANGED <<tokenRow, minted>>
LogoutMove(p) ==
  /\ job[p].kind = "logout"
  /\ UNCHANGED <<minted, bucket, granted>>
  /\ \/ /\ Goes(p) /\ plan[p] = Deny2 /\ plan'[p] = Revoke1 /\ UNCHANGED tokenRow
        /\ \/ Denies(p)
           \/ (~Valid(Pair(p), Sent(p)) \/ faults' # faults) /\ UNCHANGED denied
     \/ /\ Does(p) /\ plan[p] = Revoke1 /\ UNCHANGED denied
        /\ \/ Revokes(p)
           \/ faults' # faults /\ UNCHANGED tokenRow
GateMove(p) ==
  /\ job[p].kind \in Gated
  /\ UNCHANGED <<tokenRow, denied, minted>>
  /\ \/ /\ fate[p] = "new"
        /\ bucket' = [tokens |-> TokenBucket(p).tokens, last |-> TokenBucket(p).last]
        /\ \/ Opens(p) /\ Held(p) /\ plan'[p] = Entry(p) /\ granted' = granted \cup {p} /\ TokenBucket(p).allowed
           \/ Fails(p) /\ UNCHANGED granted /\ ~TokenBucket(p).allowed
     \/ Opens(p) /\ Held(p) /\ plan'[p] = Entry(p) /\ UNCHANGED <<bucket, granted>>
     \/ /\ Goes(p) /\ plan[p] \in {Gate2, Leave4} /\ plan'[p] = Inside(p) /\ UNCHANGED <<bucket, granted>>
        /\ Valid(Pair(p), Sent(p)) /\ now >= denied[Pair(p)][Sent(p)]
     \/ /\ job[p].kind = "request" /\ Does(p) /\ plan[p] = Gate1 /\ UNCHANGED <<bucket, granted>>
     \/ /\ job[p].kind = "logout" /\ Goes(p) /\ plan[p] = Leave3 /\ plan'[p] = Deny2
        /\ UNCHANGED <<bucket, granted>>
     \/ Fails(p) /\ UNCHANGED <<bucket, granted>>
SessionMove(p) == LoginMove(p) \/ RefreshMove(p) \/ LogoutMove(p) \/ GateMove(p)

\* None of the plans is empty; what each begins with and what follows.
LEMMA SessionPlans ==
  /\ Head(Store1) = "storeToken" /\ Tail(Store1) = <<>> /\ Store1 # <<>>
  /\ Head(Mint2) = "mint" /\ Tail(Mint2) = Store1 /\ Mint2 # <<>>
  /\ Head(Exchange3) = "revoke" /\ Tail(Exchange3) = Mint2 /\ Exchange3 # <<>>
  /\ Head(Revoke1) = "revoke" /\ Tail(Revoke1) = <<>> /\ Revoke1 # <<>>
  /\ Head(Deny2) = "deny" /\ Tail(Deny2) = Revoke1 /\ Deny2 # <<>>
  /\ Head(Gate1) = "checkBan" /\ Tail(Gate1) = <<>> /\ Gate1 # <<>>
  /\ Head(Gate2) = "authenticate" /\ Tail(Gate2) = Gate1 /\ Gate2 # <<>>
  /\ Head(Leave3) = "checkBan" /\ Tail(Leave3) = Deny2 /\ Leave3 # <<>>
  /\ Head(Leave4) = "authenticate" /\ Tail(Leave4) = Leave3 /\ Leave4 # <<>>
  /\ Mint2 # Exchange3 /\ Store1 # Exchange3 /\ Store1 # Mint2 /\ Gate1 # Gate2
  /\ Deny2 # Revoke1 /\ Leave3 # Deny2 /\ Leave3 # Revoke1 /\ Leave3 # Gate1
  /\ Leave4 \notin {Leave3, Deny2, Revoke1, Gate1} /\ Gate2 \notin {Leave3, Deny2, Revoke1, Gate1}
  /\ {Mint2, Store1} \cap {Leave4, Leave3, Deny2, Revoke1} = {}
<1>1. /\ Head(Store1) = "storeToken" /\ Tail(Store1) = <<>> /\ Store1 # <<>>
      /\ Head(Mint2) = "mint" /\ Tail(Mint2) = Store1 /\ Mint2 # <<>>
      /\ Head(Exchange3) = "revoke" /\ Tail(Exchange3) = Mint2 /\ Exchange3 # <<>>
  BY DEF Store1, Mint2, Exchange3
<1>2. /\ Head(Revoke1) = "revoke" /\ Tail(Revoke1) = <<>> /\ Revoke1 # <<>>
      /\ Head(Deny2) = "deny" /\ Tail(Deny2) = Revoke1 /\ Deny2 # <<>>
      /\ Head(Gate1) = "checkBan" /\ Tail(Gate1) = <<>> /\ Gate1 # <<>>
      /\ Head(Gate2) = "authenticate" /\ Tail(Gate2) = Gate1 /\ Gate2 # <<>>
  BY DEF Revoke1, Deny2, Gate1, Gate2
<1>3. /\ Head(Leave3) = "checkBan" /\ Tail(Leave3) = Deny2 /\ Leave3 # <<>>
      /\ Head(Leave4) = "authenticate" /\ Tail(Leave4) = Leave3 /\ Leave4 # <<>>
  BY DEF Leave3, Leave4, Deny2
<1>4. Len(Leave3) = 3 /\ Len(Gate1) = 1
  BY DEF Leave3, Gate1
<1>5. /\ Mint2 # Exchange3 /\ Store1 # Exchange3 /\ Store1 # Mint2 /\ Gate1 # Gate2
      /\ Deny2 # Revoke1 /\ Leave3 # Deny2 /\ Leave3 # Revoke1 /\ Leave3 # Gate1
      /\ Leave4 \notin {Leave3, Deny2, Revoke1, Gate1} /\ Gate2 \notin {Leave3, Deny2, Revoke1, Gate1}
      /\ {Mint2, Store1} \cap {Leave4, Leave3, Deny2, Revoke1} = {}
  BY <1>1, <1>2, <1>3, <1>4
<1> QED BY <1>1, <1>2, <1>3, <1>5

\* Which call has come to a statement of the sessions, and what it runs next.
LEMMA SessionAt ==
  ASSUME SessionPlanInv, NEW p \in Kinds(SessionKinds), fate[p] = "running"
  PROVE  /\ Head(plan[p]) = "storeToken" =>
              plan[p] = Store1 /\ Tail(plan[p]) = <<>> /\ job[p].kind \in {"login", "refresh"}
         /\ Head(plan[p]) = "mint" => plan[p] = Mint2 /\ Tail(plan[p]) = Store1 /\ job[p].kind = "refresh"
         /\ Head(plan[p]) = "revoke" =>
              \/ plan[p] = Exchange3 /\ Tail(plan[p]) = Mint2 /\ job[p].kind = "refresh"
              \/ plan[p] = Revoke1 /\ Tail(plan[p]) = <<>> /\ job[p].kind = "logout"
         /\ Head(plan[p]) = "deny" => plan[p] = Deny2 /\ Tail(plan[p]) = Revoke1 /\ job[p].kind = "logout"
         /\ Head(plan[p]) = "authenticate" =>
              \/ plan[p] = Gate2 /\ Tail(plan[p]) = Gate1 /\ job[p].kind = "request"
              \/ plan[p] = Leave4 /\ Tail(plan[p]) = Leave3 /\ job[p].kind = "logout"
         /\ Head(plan[p]) = "checkBan" =>
              \/ plan[p] = Gate1 /\ Tail(plan[p]) = <<>> /\ job[p].kind = "request"
              \/ plan[p] = Leave3 /\ Tail(plan[p]) = Deny2 /\ job[p].kind = "logout"
         /\ Head(plan[p]) \in {"storeToken", "mint", "revoke", "deny", "authenticate", "checkBan"}
<1>1. \/ job[p].kind = "login" /\ plan[p] = Store1
      \/ job[p].kind = "refresh" /\ plan[p] = Exchange3
      \/ job[p].kind = "refresh" /\ plan[p] = Mint2
      \/ job[p].kind = "refresh" /\ plan[p] = Store1
      \/ job[p].kind = "logout" /\ plan[p] = Leave4
      \/ job[p].kind = "logout" /\ plan[p] = Leave3
      \/ job[p].kind = "logout" /\ plan[p] = Deny2
      \/ job[p].kind = "logout" /\ plan[p] = Revoke1
      \/ job[p].kind = "request" /\ plan[p] = Gate2
      \/ job[p].kind = "request" /\ plan[p] = Gate1
  BY DEF SessionPlanInv
<1> QED BY <1>1, SessionPlans

\* A step of a session is one of the moves above.
LEMMA SessionStepIsMove ==
  ASSUME CallInv, SessionPlanInv, NEW p \in Kinds(SessionKinds), RestOf(p), SessionStep(p)
  PROVE  SessionMove(p)
<1> USE DEF Opens, Goes, Does, Fails, Asked, At, Begin, Refuse, Return, Go, Hold, Continue, Stop
<1>1. p \in Proc
  BY DEF Kinds
<1>2. ASSUME NEW s, NEW v, Follow(p, s, v) PROVE plan'[p] = s /\ fate'[p] = IF s = <<>> THEN "done" ELSE "running"
  BY <1>1, <1>2, FollowFate
<1>3. Break(p) => fate'[p] = "failed"
  BY <1>1, BreakFate
<1>4. CASE GiveUp(p)
  BY <1>3, <1>4 DEF GiveUp, RefreshMove, LogoutMove, GateMove, SessionMove, sessionVars, Gated
<1>5. CASE Login(p)
  BY <1>2, <1>3, <1>5, SessionPlans DEF Login, LoginMove, SessionMove, Store1
<1>6. CASE StoreToken(p)
  BY <1>2, <1>6, SessionAt DEF StoreToken, Stores, LoginMove, RefreshMove, SessionMove
<1>7. CASE RefreshToken(p)
  BY <1>2, <1>3, <1>7, SessionPlans DEF RefreshToken, RefreshMove, SessionMove, sessionVars, Exchange3
<1>8. CASE Revoke(p)
  BY <1>2, <1>8, SessionAt, SessionPlans DEF Revoke, Revokes, RefreshMove, LogoutMove, SessionMove
<1>9. CASE GenerateTokenPair(p)
  BY <1>2, <1>9, SessionAt, SessionPlans DEF GenerateTokenPair, RefreshMove, SessionMove
<1>10. CASE Deny(p)
  <2>1. Denies(p) \/ (~Valid(Pair(p), Sent(p)) /\ UNCHANGED denied)
    BY <1>10 DEF Deny, Denies
  <2> QED BY <1>2, <1>10, <2>1, SessionAt, SessionPlans DEF Deny, LogoutMove, SessionMove
<1>11. Route(p) = Entry(p) /\ Entry(p) # <<>>
  BY SessionPlans DEF Route, Entry, Leave4, Gate2
<1>12. ASSUME Arrived(p) PROVE job[p].kind \in Gated /\ fate[p] = "new" /\ Held(p)
  BY <1>12 DEF Arrived
<1>13. CASE RateLimit(p)
  <2>1. /\ bucket' = [tokens |-> TokenBucket(p).tokens, last |-> TokenBucket(p).last]
        /\ \/ TokenBucket(p).allowed /\ granted' = granted \cup {p} /\ Begin(p, Route(p), Nothing)
           \/ ~TokenBucket(p).allowed /\ Refuse(p) /\ UNCHANGED granted
        /\ UNCHANGED <<tokenRow, denied, minted>> /\ Arrived(p)
    BY <1>13 DEF RateLimit
  <2> QED BY <1>2, <1>3, <1>11, <1>12, <2>1 DEF GateMove, SessionMove
<1>14. CASE LimiterDown(p)
  BY <1>2, <1>11, <1>12, <1>14 DEF LimiterDown, GateMove, SessionMove, sessionVars
<1>15. CASE Authenticate(p)
  <2>1. job[p].kind \in Gated /\ plan[p] \in {Gate2, Leave4} /\ Tail(plan[p]) = Inside(p) /\ Inside(p) # <<>>
    BY <1>15, SessionAt, SessionPlans DEF Authenticate, Inside, Gated
  <2> QED BY <1>2, <1>3, <1>15, <2>1 DEF Authenticate, GateMove, SessionMove, sessionVars
<1>16. CASE CheckBan(p)
  <2>1. job[p].kind \in Gated
    BY <1>16, SessionAt DEF CheckBan, Gated
  <2>2. CASE Break(p)
    BY <1>3, <1>16, <2>1, <2>2 DEF CheckBan, GateMove, SessionMove, sessionVars
  <2>3. CASE Follow(p, Tail(plan[p]), seen[p])
    BY <1>2, <1>16, <2>1, <2>3, SessionAt, SessionPlans DEF CheckBan, GateMove, SessionMove, sessionVars
  <2> QED BY <1>16, <2>2, <2>3 DEF CheckBan
<1> QED BY <1>4, <1>5, <1>6, <1>7, <1>8, <1>9, <1>10, <1>13, <1>14, <1>15, <1>16 DEF SessionStep

\* A fault too.
LEMMA SessionFaultIsMove ==
  ASSUME CallInv, SessionPlanInv, NEW p \in Kinds(SessionKinds), RestOf(p), Fault(p, Ignored(p)),
         UNCHANGED sessionVars
  PROVE  SessionMove(p)
<1> USE DEF SessionMove, Opens, Goes, Does, Fails, sessionVars
<1>1. p \in Proc /\ job[p].kind \in SessionKinds
  BY DEF Kinds
<1>2. fate[p] = "running" /\ faults' # faults
  BY DEF Fault, CallInv, CallTypeOK
<1>3. CASE Break(p)
  BY <1>1, <1>2, <1>3, BreakFate DEF LoginMove, RefreshMove, LogoutMove, GateMove, SessionKinds, Gated
<1>4. CASE Head(plan[p]) \in Ignored(p) /\ Follow(p, Tail(plan[p]), seen[p])
  <2>1. Head(plan[p]) \notin {"storeToken", "mint", "authenticate"}
    BY <1>4 DEF Ignored, IgnoredProfile, IgnoredVerification, IgnoredSession, IgnoredModeration,
                IgnoredPayout, IgnoredChat, IgnoredRoom, IgnoredMedia
  <2>2. Head(plan[p]) \in {"revoke", "deny", "checkBan"}
    BY <1>2, <2>1, SessionAt
  <2>3. CASE Head(plan[p]) = "revoke"
    BY <1>1, <1>2, <1>4, <2>3, SessionAt, SessionPlans, FollowFate DEF RefreshMove, LogoutMove
  <2>4. CASE Head(plan[p]) = "deny"
    BY <1>1, <1>2, <1>4, <2>4, SessionAt, SessionPlans, FollowFate DEF LogoutMove
  <2>5. CASE Head(plan[p]) = "checkBan"
    BY <1>1, <1>2, <1>4, <2>5, SessionAt, SessionPlans, FollowFate DEF GateMove, Gated
  <2> QED BY <2>2, <2>3, <2>4, <2>5
<1> QED BY <1>3, <1>4 DEF Fault

\* Nothing happens to the sessions nor to a call of theirs; others may end,
\* and the clock go on.
SessionsRest == /\ UNCHANGED <<sessionVars, job>>
                /\ faults <= faults' /\ now <= now'
                /\ \A q \in Kinds(SessionKinds) : fate'[q] = fate[q] /\ plan'[q] = plan[q] /\ past'[q] = past[q]
                /\ \A q \in Proc : Done(q) => Done(q)'

\* A step of another call, or of none, leaves the sessions.
LEMMA SessionsOrRest ==
  ASSUME CallInv, SessionPlanInv, [Next]_vars
  PROVE  \/ \E p \in Kinds(SessionKinds) : RestOf(p) /\ SessionMove(p)
         \/ SessionsRest
<1>1. faults \in Nat /\ now \in Nat
  BY DEF CallInv, CallTypeOK
<1>2. ASSUME NEW p \in Proc, Step(p) PROVE job[p].kind \in SessionKinds \/ UNCHANGED sessionVars
  BY <1>2, RequestKinds, KindsApart DEF Step, AccountStep, ContentStep, accountVars
<1>3. ASSUME NEW p \in Proc, Step(p), job[p].kind \in SessionKinds
      PROVE  SessionStep(p) \/ (Fault(p, Ignored(p)) /\ UNCHANGED sessionVars)
  BY <1>3, RequestKinds, KindsApart DEF Step, AccountStep, ContentStep, accountVars
<1>4. ASSUME NEW p \in Proc, Step(p), RestOf(p)
      PROVE  SessionsRest \/ \E q \in Kinds(SessionKinds) : RestOf(q) /\ SessionMove(q)
  <2>1. CASE job[p].kind \in SessionKinds
    BY <1>3, <1>4, <2>1, SessionStepIsMove, SessionFaultIsMove DEF Kinds
  <2>2. CASE job[p].kind \notin SessionKinds
    <3>1. UNCHANGED <<sessionVars, job>> /\ faults <= faults' /\ now <= now'
      BY <1>1, <1>2, <1>4, <2>2 DEF RestOf
    <3>2. \A q \in Kinds(SessionKinds) : fate'[q] = fate[q] /\ plan'[q] = plan[q] /\ past'[q] = past[q]
      BY <1>4, <2>2 DEF Kinds, RestOf
    <3>3. \A q \in Proc : Done(q) => Done(q)'
      BY <1>4 DEF RestOf, Done, Closed
    <3> QED BY <3>1, <3>2, <3>3 DEF SessionsRest
  <2> QED BY <2>1, <2>2
<1>5. ASSUME NEW p \in Proc, Tidies(p) PROVE SessionsRest
  BY <1>1, <1>5 DEF Tidies, SessionsRest, callVars, accountVars, Done
<1>6. ASSUME Rest, now <= now', UNCHANGED <<accountVars, contentVars>> PROVE SessionsRest
  BY <1>1, <1>6 DEF Rest, SessionsRest, accountVars, Done, Kinds
<1> QED BY <1>4, <1>5, <1>6, CallSteps

-----------------------------------------------------------------------------
\* Who exchanges, leaves or sends with a pair holds one that its call has made;
\* and a pair was made before now, by a login or an exchange.
TokenInv ==
  /\ \A p \in Proc : minted[p] # NoToken => minted[p].at <= now
  /\ \A p \in Kinds({"refresh", "logout", "request"}) :
       fate[p] \in {"running", "done"} => Held(p)

\* A token that has been exchanged or logged out has been revoked, or an equal
\* one stored by another call.
Exchanged(p) == Done(p) \/ (fate[p] = "running" /\ plan[p] \in {Mint2, Store1})
Remade(p) == \E m \in Proc : m # job[p].of /\ Makes(m, Pair(p)) /\ ~Before(m, p) /\ Done(m)
Giving == {"refresh", "logout"}
ExchangeInv ==
  faults = 0 =>
    /\ \A p \in Kinds(Giving) : Exchanged(p) => tokenRow[Pair(p)] # "active" \/ Remade(p)
    /\ \A p \in Kinds(Giving), q \in Kind("refresh") :
         (Done(p) /\ fate[q] \in {"running", "done"} /\ Before(p, q) /\ Pair(p) = Pair(q)) => Remade(p)

\* An access token that has been logged out is denied for as long as it is
\* valid, and lets nobody in.
Access(p) == Sent(p) = "access"
Spent(t) == t.at + AccessLife <= denied[t]["access"] \/ t.at + AccessLife <= now
Left(p) == Done(p) \/ (fate[p] = "running" /\ plan[p] = Revoke1)
Admitted(p) == Done(p) \/ (fate[p] = "running" /\ plan[p] \in {Gate1, Leave3, Deny2, Revoke1})
LogoutInv ==
  faults = 0 =>
    /\ \A p \in Kind("logout") : Left(p) /\ Access(p) => Spent(Pair(p))
    /\ \A p \in Kind("logout"), q \in Kinds(Gated) :
         (Done(p) /\ Before(p, q) /\ Pair(p) = Pair(q) /\ Access(p) /\ Access(q)) => ~Admitted(q)

\* What the bucket holds and has given away, against what it has received.
Filled == bucket.tokens = Capacity /\ granted = {}
BucketInv ==
  /\ \A p \in granted : p \in Kinds(Gated) /\ fate[p] # "new"
  /\ bucket.last <= now + Skew
  /\ \/ Filled
     \/ bucket.tokens + Cardinality(granted) + Rate * Skew
          <= Capacity + Rate * (bucket.last + Skew * Cardinality(SlowRequests))

SessionsInv == /\ CallInv /\ SessionTypeOK /\ SessionPlanInv /\ TokenInv
               /\ ExchangeInv /\ LogoutInv /\ BucketInv

-----------------------------------------------------------------------------
\* A request about a session names what it is about.
LEMMA SessionJobs ==
  ASSUME CallInv, NEW p \in Kinds(SessionKinds)
  PROVE  /\ p \in Proc
         /\ job[p].kind = "login" => job[p].user \in User
         /\ job[p].kind \in {"refresh", "logout", "request"} => job[p].of \in Proc
         /\ job[p].kind \in Gated => job[p].ahead \in Nat /\ job[p].bearer \in Bearer
<1>1. p \in Proc /\ job[p].kind \in SessionKinds /\ job \in Jobs
  BY DEF Kinds, CallInv
<1>2. job[p] \in SessionRequests
  BY <1>1, JobAssumption, RequestKinds, KindsApart
<1> QED BY <1>1, <1>2 DEF SessionRequests, LoginRequest, RefreshRequest, GatedRequest, Gated

\* A finite set of numbers has a greatest one.
LEMMA GreatestExists ==
  ASSUME NEW S, IsFiniteSet(S), S # {}, S \subseteq Nat
  PROVE  Max(S) \in S /\ \A y \in S : y <= Max(S)
<1> DEFINE G == {T \in SUBSET S : T = {} \/ \E m \in T : \A y \in T : m >= y}
<1>1. \A T \in SUBSET S : (\A U \in SUBSET T : U # T => U \in G) => T \in G
  <2> SUFFICES ASSUME NEW T \in SUBSET S, \A U \in SUBSET T : U # T => U \in G, T # {}
               PROVE  \E m \in T : \A y \in T : m >= y
    OBVIOUS
  <2>1. PICK x \in T : TRUE
    OBVIOUS
  <2>2. T \ {x} \in G
    BY <2>1
  <2>3. CASE T \ {x} = {}
    <3>1. \A y \in T : x >= y
      BY <2>3
    <3> QED BY <2>1, <3>1
  <2>4. CASE T \ {x} # {}
    <3>1. PICK m \in T \ {x} : \A y \in T \ {x} : m >= y
      BY <2>2, <2>4
    <3>2. m \in Nat /\ x \in Nat /\ T \subseteq Nat
      OBVIOUS
    <3>3. CASE m >= x
      BY <3>1, <3>2, <3>3
    <3>4. CASE ~ (m >= x)
      <4>1. \A y \in T : x >= y
        BY <3>1, <3>2, <3>4
      <4> QED BY <2>1, <4>1
    <3> QED BY <3>3, <3>4
  <2> QED BY <2>3, <2>4
<1>2. S \in G
  <2> HIDE DEF G
  <2> QED BY <1>1, SubsetInduction
<1>3. \E m \in S : \A y \in S : m >= y
  BY <1>2
<1>4. Max(S) \in S /\ \A y \in S : Max(S) >= y
  BY <1>3 DEF Max
<1> QED BY <1>4

\* The less of two numbers.
LEMMA LessOfTwo ==
  ASSUME NEW a \in Nat, NEW b \in Nat
  PROVE  Min({a, b}) \in Nat /\ Min({a, b}) <= a /\ Min({a, b}) <= b
<1>1. \E x \in {a, b} : \A y \in {a, b} : x =< y
  <2>1. CASE a <= b
    BY <2>1
  <2>2. CASE ~ (a <= b)
    BY <2>2
  <2> QED BY <2>1, <2>2
<1>2. Min({a, b}) \in {a, b} /\ \A y \in {a, b} : Min({a, b}) =< y
  BY <1>1 DEF Min
<1> QED BY <1>2

\* What the bucket gives a request.
LEMMA BucketGives ==
  ASSUME SessionTypeOK, NEW p, now \in Nat, job[p].ahead \in Nat
  PROVE  LET b == TokenBucket(p)
             time == now + job[p].ahead
         IN /\ b.last = time /\ b.tokens \in 0..Capacity
            /\ \E full \in 0..Capacity :
                 /\ b.tokens = IF b.allowed THEN full - 1 ELSE full
                 /\ b.allowed => full >= 1
                 /\ \/ time > bucket.last /\ full <= bucket.tokens + Rate * (time - bucket.last)
                    \/ ~ (time > bucket.last) /\ full <= bucket.tokens
<1>0. \A a, b, c \in Nat : a * b \in Nat /\ c + a * b \in Nat
  OBVIOUS
<1> USE SessionAssumption DEF SessionTypeOK
<1> DEFINE time == now + job[p].ahead
           delta == IF time > bucket.last THEN time - bucket.last ELSE 0
           full == Min({Capacity, bucket.tokens + Rate * delta})
<1>1. time \in Nat /\ bucket.last \in Nat /\ bucket.tokens \in Nat /\ delta \in Nat /\ Capacity \in Nat /\ Rate \in Nat
  OBVIOUS
<1>2. Rate * delta \in Nat /\ bucket.tokens + Rate * delta \in Nat
  <2> HIDE DEF delta
  <2> QED BY <1>0, <1>1
<1>3. full \in 0..Capacity /\ full <= bucket.tokens + Rate * delta
  <2> HIDE DEF delta
  <2> QED BY <1>1, <1>2, LessOfTwo
<1>4. TokenBucket(p) = [allowed |-> full >= 1, tokens |-> IF full >= 1 THEN full - 1 ELSE full, last |-> time]
  BY DEF TokenBucket
<1>5. /\ TokenBucket(p).allowed = (full >= 1) /\ TokenBucket(p).last = time
      /\ TokenBucket(p).tokens = IF full >= 1 THEN full - 1 ELSE full
  <2> HIDE DEF full, time
  <2> QED BY <1>4
<1>6. \/ time > bucket.last /\ full <= bucket.tokens + Rate * (time - bucket.last)
      \/ ~ (time > bucket.last) /\ full <= bucket.tokens
  <2>1. CASE time > bucket.last
    <3>1. delta = time - bucket.last
      BY <2>1
    <3> HIDE DEF full, delta, time
    <3> QED BY <1>3, <2>1, <3>1
  <2>2. CASE ~ (time > bucket.last)
    <3>1. delta = 0
      BY <2>2
    <3> HIDE DEF full, delta, time
    <3>2. Rate * delta = 0
      BY <1>1, <3>1
    <3> QED BY <1>1, <1>3, <2>2, <3>2
  <2> HIDE DEF full, delta, time
  <2> QED BY <2>1, <2>2
<1>7. /\ TokenBucket(p).last = time
      /\ TokenBucket(p).tokens \in 0..Capacity
      /\ TokenBucket(p).tokens = IF TokenBucket(p).allowed THEN full - 1 ELSE full
      /\ TokenBucket(p).allowed => full >= 1
  <2> HIDE DEF full, time
  <2>1. CASE full >= 1
    <3>1. TokenBucket(p).allowed /\ TokenBucket(p).tokens = full - 1
      BY <1>5, <2>1
    <3> QED BY <1>1, <1>3, <1>5, <2>1, <3>1
  <2>2. CASE ~ (full >= 1)
    <3>1. ~TokenBucket(p).allowed /\ TokenBucket(p).tokens = full
      BY <1>5, <2>2
    <3> QED BY <1>1, <1>3, <1>5, <2>2, <3>1
  <2> QED BY <2>1, <2>2
<1> HIDE DEF full
<1> QED BY <1>3, <1>6, <1>7

\* No clock is further ahead than Skew.
LEMMA SkewBounds ==
  ASSUME CallInv
  PROVE  Skew \in Nat /\ \A p \in Proc : Ahead(p) \in Nat /\ Ahead(p) <= Skew
<1> DEFINE S == {Ahead(p) : p \in Proc}
<1>1. \A p \in Proc : Ahead(p) \in Nat
  BY SessionJobs DEF Ahead, Kinds, SessionKinds, Gated
<1>2. IsFiniteSet(S)
  <2> DEFINE f == [p \in Proc |-> Ahead(p)]
  <2>1. f \in Surjection(Proc, S)
    BY DEF Surjection
  <2> HIDE DEF f, S
  <2> QED BY <2>1, SessionAssumption, FS_Surjection
<1>3. S # {} /\ S \subseteq Nat
  BY <1>1, SessionAssumption
<1>4. Max(S) \in S /\ \A y \in S : y <= Max(S)
  <2> HIDE DEF S
  <2> QED BY <1>2, <1>3, GreatestExists
<1> QED BY <1>1, <1>3, <1>4 DEF Skew

\* What a step of p leaves of the calls, for the lemmas below.
LEMMA SessionOthers ==
  ASSUME CallInv, NEW p \in Kinds(SessionKinds), RestOf(p)
  PROVE  /\ p \in Proc /\ job' = job /\ now' = now /\ now \in Nat /\ faults \in Nat /\ faults <= faults'
         /\ \A k : Kind(k)' = Kind(k) /\ Kind(k) \subseteq Proc
         /\ \A q \in Proc \ {p} : fate'[q] = fate[q] /\ plan'[q] = plan[q] /\ past'[q] = past[q]
         /\ fate[p] = "new" => past'[p] = Ended
         /\ fate[p] # "new" => past'[p] = past[p]
         /\ fate[p] \notin Closed /\ fate'[p] # "new"
         /\ \A q, r \in Proc : Before(q, r) => fate[q] \in Closed
         /\ \A q, r \in Proc : fate[r] # "new" => (Before(q, r)' <=> Before(q, r))
         /\ \A q \in Proc : ~Before(p, q)'
         /\ \A q \in Proc : Done(q) => Done(q)'
         /\ \A q \in Proc : Done(q) => q # p
<1>1. faults \in Nat /\ faults' \in Nat /\ faults <= faults' /\ now \in Nat
  BY CallAssumption DEF CallInv, CallTypeOK, RestOf
<1>2. p \in Proc
  BY DEF Kinds
<1> QED BY <1>1, <1>2 DEF RestOf, Kind, Before, CallInv, CallTypeOK, Done, Closed, Ended

\* A call comes to the statements of its kind, one after the other.
LEMMA SessionPlanKept ==
  ASSUME SessionPlanInv, CallInv, NEW p \in Kinds(SessionKinds), RestOf(p), SessionMove(p)
  PROVE  SessionPlanInv'
<1>1. Kinds(SessionKinds)' = Kinds(SessionKinds) /\ Kinds(SessionKinds) \subseteq Proc
  BY SessionOthers DEF Kinds
<1>2. fate'[p] = "running" =>
        \/ job[p].kind = "login" /\ plan'[p] = Store1
        \/ job[p].kind = "refresh" /\ plan'[p] \in {Exchange3, Mint2, Store1}
        \/ job[p].kind = "logout" /\ plan'[p] \in {Leave4, Leave3, Deny2, Revoke1}
        \/ job[p].kind = "request" /\ plan'[p] \in {Gate2, Gate1}
  BY SessionPlans DEF SessionMove, LoginMove, RefreshMove, LogoutMove, GateMove, Gated, Entry, Inside, Opens, Goes, Does, Fails
<1> QED BY <1>1, <1>2, SessionOthers DEF SessionPlanInv

\* The rows and the bucket keep their form.
LEMMA SessionTypeKept ==
  ASSUME SessionTypeOK, TokenInv, CallInv, NEW p \in Kinds(SessionKinds), RestOf(p), SessionMove(p)
  PROVE  SessionTypeOK'
<1> USE SessionOthers, SessionAssumption DEF SessionTypeOK
<1>1. now \in 0..MaxTime
  BY DEF CallInv, CallTypeOK
<1>2. Stores(p) \/ Revokes(p) \/ tokenRow' = tokenRow
  BY DEF SessionMove, LoginMove, RefreshMove, LogoutMove, GateMove
<1>3. tokenRow' \in [Token -> {"none", "active", "revoked"}]
  BY <1>2 DEF Stores, Revokes
<1>4. denied' \in [Token -> [Bearer -> Nat]]
  <2>1. denied' = denied \/ Denies(p)
    BY DEF SessionMove, LoginMove, RefreshMove, LogoutMove, GateMove
  <2>2. now + AccessLife \in Nat
    BY <1>1
  <2>3. ASSUME NEW t, NEW b, NEW n \in Nat PROVE [denied EXCEPT ![t][b] = n] \in [Token -> [Bearer -> Nat]]
    OBVIOUS
  <2> QED BY <2>1, <2>2, <2>3 DEF Denies
<1>5. minted' \in [Proc -> Token \cup {NoToken}]
  <2>1. ASSUME NEW u \in User, Mint(p, u) PROVE minted' \in [Proc -> Token \cup {NoToken}]
    <3>1. [of |-> u, at |-> now] \in Token
      BY <1>1 DEF Token
    <3> QED BY <2>1, <3>1 DEF Mint
  <2>2. job[p].kind = "login" => job[p].user \in User
    BY SessionJobs
  <2>3. job[p].kind = "refresh" /\ fate[p] = "running" => Pair(p).of \in User
    <3>1. job[p].kind = "refresh" => job[p].of \in Proc
      BY SessionJobs
    <3>2. \A t \in Token : t.of \in User
      BY DEF Token
    <3> QED BY <3>1, <3>2 DEF TokenInv, Held, Pair, Kinds
  <2> QED BY <2>1, <2>2, <2>3 DEF SessionMove, LoginMove, RefreshMove, LogoutMove, GateMove, Goes
<1>6. granted' \subseteq Proc
  BY DEF SessionMove, LoginMove, RefreshMove, LogoutMove, GateMove
<1>7. bucket' \in [tokens : 0..Capacity, last : Nat]
  <2>1. CASE bucket' = [tokens |-> TokenBucket(p).tokens, last |-> TokenBucket(p).last] /\ job[p].kind \in Gated
    <3>1. job[p].ahead \in Nat
      BY <2>1, SessionJobs
    <3>2. TokenBucket(p).tokens \in 0..Capacity /\ TokenBucket(p).last = now + job[p].ahead
      BY <3>1, BucketGives
    <3> QED BY <2>1, <3>1, <3>2
  <2>2. CASE bucket' = bucket
    BY <2>2
  <2> QED BY <2>1, <2>2 DEF SessionMove, LoginMove, RefreshMove, LogoutMove, GateMove
<1> QED BY <1>3, <1>4, <1>5, <1>6, <1>7

\* Pairs that have been made stay, and calls hold theirs.
LEMMA TokensKept ==
  ASSUME TokenInv, CallInv, NEW p \in Kinds(SessionKinds), RestOf(p), SessionMove(p), SessionTypeOK
  PROVE  /\ TokenInv'
         /\ \A q \in Proc : Done(q) => minted'[q] = minted[q]
         /\ \A q \in Proc \ {p} : minted'[q] = minted[q]
         /\ \A q \in Kinds({"refresh", "logout", "request"}) :
              fate'[q] \in {"running", "done"} =>
                /\ job[q].of \in Proc /\ Pair(q)' = Pair(q) /\ Held(q) /\ Pair(q) \in Token /\ Pair(q).at <= now
<1> USE SessionOthers DEF SessionTypeOK
<1>1. \A q \in Proc \ {p} : minted'[q] = minted[q]
  BY DEF SessionMove, LoginMove, RefreshMove, LogoutMove, GateMove, Mint
<1>2. minted'[p] = minted[p] \/ minted'[p].at = now
  BY DEF SessionMove, LoginMove, RefreshMove, LogoutMove, GateMove, Mint
<1>3. \A q \in Proc : minted'[q] # NoToken => minted'[q].at <= now
  <2> SUFFICES ASSUME NEW q \in Proc, minted'[q] # NoToken PROVE minted'[q].at <= now
    OBVIOUS
  <2>1. CASE minted'[q] = minted[q]
    BY <2>1 DEF TokenInv
  <2>2. CASE minted'[q].at = now
    BY <2>2
  <2> QED BY <1>1, <1>2, <2>1, <2>2
<1>4. Kinds({"refresh", "logout", "request"}) \subseteq Kinds(SessionKinds)
  BY DEF Kinds, SessionKinds
<1>5. ASSUME NEW q \in Kinds({"refresh", "logout", "request"}), fate'[q] \in {"running", "done"}
      PROVE  /\ job[q].of \in Proc /\ Pair(q)' = Pair(q) /\ Held(q) /\ Held(q)' /\ Pair(q) \in Token /\ Pair(q).at <= now
  <2>1. job[q].of \in Proc /\ q \in Proc
    BY <1>4, SessionJobs DEF Kinds
  <2>2. Held(q)
    <3>1. CASE fate[q] \in {"running", "done"}
      BY <3>1 DEF TokenInv
    <3>2. CASE fate[q] \notin {"running", "done"}
      <4>1. q = p /\ job[p].kind \in {"refresh", "logout", "request"}
        BY <1>5, <2>1, <3>2 DEF Kinds
      <4>2. (fate[p] = "new" /\ Fails(p)) \/ Held(p)
        BY <1>5, <3>2, <4>1 DEF SessionMove, LoginMove, RefreshMove, LogoutMove, GateMove, Opens, Goes, Does, Fails
      <4> QED BY <1>5, <4>1, <4>2 DEF Fails
    <3> QED BY <3>1, <3>2
  <2>3. Pair(q)' = Pair(q)
    BY <1>1, <2>1, <2>2 DEF Pair, Held
  <2>4. Pair(q) \in Token /\ Pair(q).at <= now
    BY <2>1, <2>2 DEF Pair, Held, TokenInv
  <2> QED BY <2>1, <2>2, <2>3, <2>4 DEF Held
<1>6. TokenInv'
  <2>1. Kinds({"refresh", "logout", "request"})' = Kinds({"refresh", "logout", "request"})
    BY DEF Kinds
  <2> QED BY <1>3, <1>5, <2>1 DEF TokenInv
<1>7. \A q \in Proc : Done(q) => minted'[q] = minted[q]
  BY <1>1
<1> QED BY <1>1, <1>5, <1>6, <1>7

\* A token is active again only if a call has stored an equal one.
LEMMA ExchangesKept ==
  ASSUME ExchangeInv, TokenInv, SessionPlanInv, SessionTypeOK, CallInv,
         NEW p \in Kinds(SessionKinds), RestOf(p), SessionMove(p)
  PROVE  ExchangeInv'
<1> USE SessionOthers
<1>1. SUFFICES ASSUME faults' = 0
               PROVE  /\ \A q \in Kinds(Giving) : Exchanged(q)' => tokenRow'[Pair(q)'] # "active" \/ Remade(q)'
                      /\ \A q \in Kinds(Giving), r \in Kind("refresh") :
                           (Done(q)' /\ fate'[r] \in {"running", "done"} /\ Before(q, r)' /\ Pair(q)' = Pair(r)')
                             => Remade(q)'
  <2>1. Kinds(Giving)' = Kinds(Giving) /\ Kind("refresh")' = Kind("refresh")
    BY DEF Kinds
  <2> QED BY <2>1 DEF ExchangeInv
<1>2. faults = 0 /\ faults' = faults
  BY <1>1
<1>3. /\ \A q \in Proc : Done(q) => minted'[q] = minted[q]
      /\ \A q \in Proc \ {p} : minted'[q] = minted[q]
      /\ \A q \in Kinds({"refresh", "logout", "request"}) :
           fate'[q] \in {"running", "done"} =>
             job[q].of \in Proc /\ Pair(q)' = Pair(q) /\ Held(q) /\ Pair(q) \in Token
  BY TokensKept
<1>4. /\ \A q \in Kinds(Giving) : q \in Proc /\ q \in Kinds({"refresh", "logout", "request"})
      /\ \A q \in Kind("refresh") : q \in Proc /\ q \in Kinds(Giving)
  BY DEF Kind, Kinds, Giving
<1>5. ASSUME NEW q \in Kinds(Giving), fate'[q] \in {"running", "done"}, fate[q] # "new", Remade(q) PROVE Remade(q)'
  <2>1. PICK m \in Proc : m # job[q].of /\ Makes(m, Pair(q)) /\ ~Before(m, q) /\ Done(m)
    BY <1>5 DEF Remade
  <2>2. Pair(q)' = Pair(q) /\ minted'[m] = minted[m]
    BY <1>3, <1>4, <1>5, <2>1
  <2>3. ~Before(m, q)'
    BY <1>4, <1>5, <2>1
  <2>4. Makes(m, Pair(q))'
    BY <2>1, <2>2 DEF Makes
  <2>5. Done(m)'
    BY <2>1
  <2> QED BY <2>1, <2>3, <2>4, <2>5 DEF Remade
<1>6. ASSUME NEW q \in Kinds(Giving), Exchanged(q)' PROVE tokenRow'[Pair(q)'] # "active" \/ Remade(q)'
  <2>1. \/ fate'[q] \in {"running", "done"} /\ fate[q] = "running"
        \/ fate[q] = "done" /\ fate'[q] = "done"
    <3>1. CASE q = p
      <4>1. job[p].kind \in {"refresh", "logout"}
        BY <3>1 DEF Kinds, Giving
      <4>2. CASE job[p].kind = "refresh"
        BY <1>6, <3>1, <4>2, SessionPlans
           DEF Exchanged, Done, SessionMove, LoginMove, RefreshMove, LogoutMove, GateMove, Gated, Opens, Goes, Does, Fails
      <4>3. CASE job[p].kind = "logout"
        <5>1. Done(p)'
          BY <1>6, <3>1, <4>3, SessionPlanKept, SessionPlans DEF Exchanged, SessionPlanInv, Kinds, SessionKinds
        <5> QED BY <3>1, <4>3, <5>1
                DEF Done, SessionMove, LoginMove, RefreshMove, LogoutMove, GateMove, Opens, Goes, Does, Fails
      <4> QED BY <4>1, <4>2, <4>3
    <3>2. CASE q # p
      BY <1>4, <1>6, <3>2 DEF Exchanged, Done
    <3> QED BY <3>1, <3>2
  <2>2. Pair(q)' = Pair(q) /\ Held(q) /\ Pair(q) \in Token
    BY <1>3, <1>4, <2>1
  <2>3. tokenRow \in [Token -> {"none", "active", "revoked"}]
    BY DEF SessionTypeOK
  <2>4. CASE Exchanged(q)
    <3>1. CASE Remade(q)
      BY <1>5, <2>1, <3>1
    <3>2. CASE tokenRow[Pair(q)] # "active"
      <4>1. CASE Stores(p) /\ minted[p] = Pair(q)
        <5>1. fate[p] = "running" /\ fate'[p] = "done" /\ job[p].kind \in {"login", "refresh"} /\ minted' = minted
          <6>1. tokenRow' # tokenRow
            BY <2>2, <2>3, <3>2, <4>1 DEF Stores
          <6>2. \/ Does(p) /\ Stores(p) /\ minted' = minted /\ job[p].kind \in {"login", "refresh"}
                \/ Revokes(p)
            BY <6>1 DEF SessionMove, LoginMove, RefreshMove, LogoutMove, GateMove
          <6>3. ~Revokes(p)
            <7>1. tokenRow'[Pair(q)] = "active"
              BY <2>2, <2>3, <4>1 DEF Stores
            <7>2. Revokes(p) => tokenRow'[Pair(q)] # "active"
              BY <2>2, <2>3, <3>2 DEF Revokes
            <7> QED BY <7>1, <7>2
          <6> QED BY <6>2, <6>3 DEF Does
        <5>2. Makes(p, Pair(q))' /\ Done(p)' /\ ~Before(p, q)'
          BY <1>4, <2>2, <4>1, <5>1 DEF Makes, Done
        <5>3. p # job[q].of
          BY <2>2 DEF Held
        <5> QED BY <5>2, <5>3 DEF Remade
      <4>2. CASE ~ (Stores(p) /\ minted[p] = Pair(q))
        <5>1. tokenRow' = tokenRow \/ Stores(p) \/ Revokes(p)
          BY DEF SessionMove, LoginMove, RefreshMove, LogoutMove, GateMove
        <5>2. tokenRow'[Pair(q)] # "active"
          BY <2>2, <2>3, <3>2, <4>2, <5>1 DEF Stores, Revokes
        <5> QED BY <2>2, <5>2
      <4> QED BY <4>1, <4>2
    <3> QED BY <1>2, <2>4, <3>1, <3>2 DEF ExchangeInv
  <2>5. CASE ~Exchanged(q)
    <3>1. q = p /\ job[p].kind \in {"refresh", "logout"}
      BY <1>4, <1>6, <2>5 DEF Exchanged, Done, Kinds, Giving
    <3>2. Revokes(p)
      <4>1. CASE job[p].kind = "refresh"
        BY <1>2, <1>6, <2>1, <2>5, <3>1, <4>1, SessionPlans
           DEF Exchanged, Done, SessionMove, LoginMove, RefreshMove, LogoutMove, GateMove, Gated, Opens, Goes, Does, Fails
      <4>2. CASE job[p].kind = "logout"
        <5>1. Done(p)'
          BY <1>6, <3>1, <4>2, SessionPlanKept, SessionPlans DEF Exchanged, SessionPlanInv, Kinds, SessionKinds
        <5> QED BY <1>2, <2>5, <3>1, <4>2, <5>1
                DEF Exchanged, Done, SessionMove, LoginMove, RefreshMove, LogoutMove, GateMove, Opens, Goes, Does, Fails
      <4> QED BY <3>1, <4>1, <4>2
    <3>3. tokenRow'[Pair(q)] # "active"
      BY <2>2, <2>3, <3>1, <3>2 DEF Revokes
    <3> QED BY <2>2, <3>3
  <2> QED BY <2>4, <2>5
<1>7. ASSUME NEW q \in Kinds(Giving), NEW r \in Kind("refresh"), Done(q)', fate'[r] \in {"running", "done"},
             Before(q, r)', Pair(q)' = Pair(r)'
      PROVE  Remade(q)'
  <2>1. Pair(q)' = Pair(q) /\ Pair(r)' = Pair(r)
    BY <1>3, <1>4, <1>7 DEF Done
  <2>2. Done(q)
    <3>1. q # p
      BY <1>4, <1>7
    <3> QED BY <1>4, <1>7, <3>1 DEF Done
  <2>3. CASE fate[r] # "new"
    <3>1. fate[r] \in {"running", "done"} /\ Before(q, r)
      BY <1>4, <1>7, <2>3 DEF Closed, CallInv, CallTypeOK
    <3>2. Remade(q)
      BY <1>2, <1>7, <2>1, <2>2, <3>1 DEF ExchangeInv
    <3> QED BY <1>5, <1>7, <2>2, <3>2 DEF Done
  <2>4. CASE fate[r] = "new"
    <3>1. r = p /\ job[p].kind = "refresh"
      BY <1>4, <1>7, <2>4 DEF Kind
    <3>2. tokenRow[Pair(r)] = "active"
      BY <1>7, <2>4, <3>1 DEF SessionMove, LoginMove, RefreshMove, LogoutMove, GateMove, Gated, Opens, Goes, Does, Fails
    <3>3. Remade(q)
      BY <1>2, <1>7, <2>1, <2>2, <3>2 DEF ExchangeInv, Exchanged
    <3> QED BY <1>5, <1>7, <2>2, <3>3 DEF Done
  <2> QED BY <2>3, <2>4
<1> QED BY <1>6, <1>7

\* A pair that has been logged out is over.
LEMMA LogoutsKept ==
  ASSUME LogoutInv, TokenInv, SessionPlanInv, SessionTypeOK, CallInv,
         NEW p \in Kinds(SessionKinds), RestOf(p), SessionMove(p)
  PROVE  LogoutInv'
<1> USE SessionOthers, SessionAssumption
<1>1. SUFFICES ASSUME faults' = 0
               PROVE  /\ \A q \in Kind("logout") :
                           Left(q)' /\ Access(q) => Spent(Pair(q))'
                      /\ \A q \in Kind("logout"), r \in Kinds(Gated) :
                           (Done(q)' /\ Before(q, r)' /\ Pair(q)' = Pair(r)' /\ Access(q) /\ Access(r)) => ~Admitted(r)'
  <2>1. Kinds(Gated)' = Kinds(Gated) /\ Kind("logout")' = Kind("logout")
    BY DEF Kinds
  <2>2. \A q : Access(q)' <=> Access(q)
    BY DEF Access, Sent
  <2> QED BY <2>1, <2>2 DEF LogoutInv
<1>2. faults = 0 /\ faults' = faults
  BY <1>1
<1>3. \A q \in Kinds({"refresh", "logout", "request"}) :
        fate'[q] \in {"running", "done"} =>
          job[q].of \in Proc /\ Pair(q)' = Pair(q) /\ Held(q) /\ Pair(q) \in Token /\ Pair(q).at <= now
  BY TokensKept
<1>4. /\ \A q \in Kind("logout") : q \in Proc /\ q \in Kinds({"refresh", "logout", "request"})
      /\ \A q \in Kinds(Gated) : q \in Proc /\ q \in Kinds({"refresh", "logout", "request"})
  BY DEF Kind, Kinds, Gated
<1>5. /\ \A t \in Token : t.at \in Nat
      /\ denied \in [Token -> [Bearer -> Nat]] /\ AccessLife \in Nat /\ now \in Nat
      /\ \A t \in Token : denied[t]["access"] \in Nat
  <2>1. \A t \in Token : t.at \in Nat
    BY CallAssumption DEF Token
  <2>2. "access" \in Bearer /\ denied \in [Token -> [Bearer -> Nat]] /\ now \in Nat
    BY DEF Bearer, SessionTypeOK
  <2>3. \A t \in Token : denied[t] \in [Bearer -> Nat]
    BY <2>2
  <2> QED BY <2>1, <2>2, <2>3
<1>6. ASSUME NEW t \in Token, t.at <= now, Spent(t) PROVE Spent(t)'
  <2>1. denied' = denied \/ Denies(p)
    BY DEF SessionMove, LoginMove, RefreshMove, LogoutMove, GateMove
  <2>2. denied'[t]["access"] = denied[t]["access"] \/ denied'[t]["access"] = now + AccessLife
    BY <1>5, <2>1 DEF Denies, Bearer
  <2>3. t.at \in Nat /\ denied[t]["access"] \in Nat
    BY <1>5
  <2> QED BY <1>5, <1>6, <2>2, <2>3 DEF Spent
<1>7. ASSUME NEW q \in Kind("logout"), Left(q)', Access(q) PROVE Spent(Pair(q))'
  <2>1. Pair(q)' = Pair(q) /\ Pair(q) \in Token /\ Pair(q).at <= now
    BY <1>3, <1>4, <1>7 DEF Left, Done
  <2>2. CASE Left(q)
    <3>1. Spent(Pair(q))
      BY <1>2, <1>7, <2>2 DEF LogoutInv
    <3>2. \A t \in Token : t.at <= now /\ Spent(t) => Spent(t)'
      BY <1>6
    <3> QED BY <2>1, <3>1, <3>2 DEF Spent
  <2>3. CASE ~Left(q)
    <3>1. q = p /\ job[p].kind = "logout"
      BY <1>4, <1>7, <2>3 DEF Left, Done, Kind
    <3>2. ~Valid(Pair(p), Sent(p)) \/ Denies(p)
      BY <1>2, <1>7, <2>3, <3>1, SessionPlans
         DEF Left, Done, SessionMove, LoginMove, RefreshMove, LogoutMove, GateMove, Entry, Inside, Opens, Goes, Does, Fails
    <3>3. Sent(p) = "access" /\ Life("access") = AccessLife
      BY <1>7, <3>1 DEF Access, Life
    <3>4. Pair(q).at \in Nat
      BY <1>5, <2>1
    <3>5. CASE ~Valid(Pair(p), Sent(p))
      <4>1. Pair(q).at + AccessLife <= now
        BY <1>5, <3>1, <3>3, <3>4, <3>5 DEF Valid
      <4> QED BY <2>1, <4>1 DEF Spent
    <3>6. CASE Denies(p)
      <4>1. denied'[Pair(q)]["access"] = now + AccessLife
        BY <1>5, <2>1, <3>1, <3>3, <3>6 DEF Denies, Bearer
      <4> QED BY <1>5, <2>1, <3>4, <4>1 DEF Spent
    <3> QED BY <3>2, <3>5, <3>6
  <2> QED BY <2>2, <2>3
<1>8. ASSUME NEW q \in Kind("logout"), NEW r \in Kinds(Gated), Done(q)', Before(q, r)', Pair(q)' = Pair(r)',
             Access(q), Access(r), Admitted(r)'
      PROVE  FALSE
  <2>1. Pair(q)' = Pair(q) /\ Pair(r)' = Pair(r) /\ Pair(q) \in Token /\ Pair(q).at <= now
    BY <1>3, <1>4, <1>8 DEF Admitted, Done
  <2>2. Done(q)
    <3>1. q # p
      BY <1>4, <1>8
    <3> QED BY <1>4, <1>8, <3>1 DEF Done
  <2>5. Done(q) /\ Before(q, r) => ~Admitted(r)
    <3>1. Pair(q) = Pair(r)
      BY <1>8, <2>1
    <3> QED BY <1>2, <1>8, <3>1 DEF LogoutInv
  <2>3. CASE r # p
    <3>1. Before(q, r) /\ Admitted(r)
      BY <1>4, <1>8, <2>3 DEF Admitted, Done, Before
    <3> QED BY <1>4, <2>2, <2>5, <3>1
  <2>4. CASE r = p
    <3>1. job[p].kind \in Gated
      BY <2>4 DEF Kinds
    <3>2. \/ fate[p] = "running" /\ Admitted(p)
          \/ Goes(p) /\ Valid(Pair(p), Sent(p)) /\ now >= denied[Pair(p)][Sent(p)]
      BY <1>8, <2>4, <3>1, SessionPlans
         DEF Admitted, Done, SessionMove, LoginMove, RefreshMove, LogoutMove, GateMove, Gated, Entry, Inside,
             Opens, Goes, Does, Fails
    <3>3. Before(q, r)
      BY <1>4, <1>8, <2>4, <3>2 DEF Goes
    <3>4. ~Admitted(p)
      BY <2>2, <2>4, <2>5, <3>3
    <3>5. Spent(Pair(q))
      BY <1>2, <1>8, <2>2 DEF LogoutInv, Left
    <3>6. now < Pair(q).at + AccessLife /\ now >= denied[Pair(q)]["access"]
      <4>1. Sent(p) = "access" /\ Life("access") = AccessLife
        BY <1>8, <2>4 DEF Access, Life
      <4> QED BY <1>8, <2>1, <2>4, <3>2, <3>4, <4>1 DEF Valid
    <3>7. Pair(q).at \in Nat /\ denied[Pair(q)]["access"] \in Nat
      BY <1>5, <2>1
    <3> QED BY <1>5, <3>5, <3>6, <3>7 DEF Spent
  <2> QED BY <2>3, <2>4
<1> QED BY <1>7, <1>8

\* Multiplication keeps the order; and distributes.
LEMMA Times ==
  /\ \A a, b, c \in Nat : a <= b => c * a <= c * b
  /\ \A a, b, c \in Nat : c * (a + b) = c * a + c * b
  /\ \A a, b \in Nat : a * b \in Nat
  /\ \A a \in Nat : a * 0 = 0 /\ a * 1 = a
<1>1. ASSUME NEW a \in Nat, NEW b \in Nat, NEW c \in Nat, a <= b PROVE c * a <= c * b
  <2>1. PICK d \in Nat : b = a + d
    BY <1>1
  <2>2. c * b = c * a + c * d
    BY <2>1
  <2>3. c * d \in Nat /\ c * a \in Nat
    OBVIOUS
  <2> QED BY <2>2, <2>3
<1> QED BY <1>1

\* A request whose server is as far ahead as any, or one more that is not.
LEMMA SlowCount ==
  ASSUME CallInv, CallInv', NEW p \in Kinds(SessionKinds), RestOf(p)
  PROVE  /\ Cardinality(SlowRequests) \in Nat /\ Cardinality(SlowRequests)' \in Nat
         /\ Cardinality(SlowRequests) <= Cardinality(SlowRequests)'
         /\ (job[p].kind \in Gated /\ fate[p] = "new" /\ Ahead(p) < Skew) =>
              Cardinality(SlowRequests)' = Cardinality(SlowRequests) + 1
<1> DEFINE S == SlowRequests  T == SlowRequests'
<1>1. Skew' = Skew /\ \A q : Ahead(q)' = Ahead(q)
  <2>1. job' = job
    BY SessionOthers
  <2> QED BY <2>1 DEF Skew, Ahead
<1>2. S \subseteq T /\ T \subseteq S \cup {p} /\ T \subseteq Proc /\ S \subseteq Proc
  BY <1>1, SessionOthers DEF SlowRequests, Kinds
<1>3. IsFiniteSet(S) /\ IsFiniteSet(T)
  BY <1>2, SessionAssumption, FS_Subset
<1>4. Cardinality(S) \in Nat /\ Cardinality(T) \in Nat /\ Cardinality(S) <= Cardinality(T)
  BY <1>2, <1>3, FS_CardinalityType, FS_Subset
<1>5. ASSUME job[p].kind \in Gated, fate[p] = "new", Ahead(p) < Skew
      PROVE  Cardinality(T) = Cardinality(S) + 1
  <2>1. p \notin S /\ T = S \cup {p}
    BY <1>1, <1>2, <1>5, SessionOthers DEF SlowRequests, Kinds
  <2> HIDE DEF S, T
  <2> QED BY <1>3, <2>1, FS_AddElement
<1> QED BY <1>4, <1>5

\* The arithmetic of a request: t is its time, d the ticks that it adds, at most
\* k; g the requests granted so far and n the slow ones.
LEMMA BucketSum ==
  ASSUME NEW C \in Nat, NEW R \in Nat, NEW k \in Nat, NEW now0 \in Nat, NEW a \in Nat, a <= k,
         NEW last \in Nat, last <= now0 + k, NEW tokens \in 0..C, NEW full \in 0..C,
         NEW g \in Nat, NEW n \in Nat, NEW m \in Nat, n <= m, a < k => m = n + 1,
         \/ now0 + a > last /\ full <= tokens + R * ((now0 + a) - last)
         \/ ~ (now0 + a > last) /\ full <= tokens,
         \/ tokens = C /\ g = 0
         \/ tokens + g + R * k <= C + R * (last + k * n)
  PROVE  full + g + R * k <= C + R * ((now0 + a) + k * m)
<1> DEFINE t == now0 + a
<1>1. t \in Nat /\ k * n \in Nat /\ k * m \in Nat /\ k * n <= k * m /\ R * k \in Nat
  BY Times
<1>2. a < k => k * m = k * n + k
  BY Times
<1>3. last <= t + k /\ (a = k => last <= t) /\ (a = k \/ a < k)
  OBVIOUS
<1>4. k <= t + k * m
  <2>1. CASE a = k
    BY <1>1, <2>1
  <2>2. CASE a < k
    BY <1>1, <1>2, <2>2
  <2> QED BY <1>3, <2>1, <2>2
<1> HIDE DEF t
<1>5. CASE tokens = C /\ g = 0
  <2>1. R * k <= R * (t + k * m)
    BY <1>1, <1>4, Times
  <2>2. R * (t + k * m) \in Nat
    BY <1>1, Times
  <2>3. full + g <= C
    BY <1>5
  <2> QED BY <1>1, <2>1, <2>2, <2>3 DEF t
<1>6. CASE tokens + g + R * k <= C + R * (last + k * n)
  <2>1. CASE t > last /\ full <= tokens + R * (t - last)
    <3>1. R * (last + k * n) + R * (t - last) = R * (t + k * n)
      <4>1. t - last \in Nat /\ last + k * n \in Nat /\ (last + k * n) + (t - last) = t + k * n
        BY <1>1, <2>1
      <4> QED BY <4>1, Times
    <3>2. R * (t + k * n) <= R * (t + k * m)
      <4>1. t + k * n \in Nat /\ t + k * m \in Nat /\ t + k * n <= t + k * m
        BY <1>1
      <4> QED BY <4>1, Times
    <3>3. R * (t - last) \in Nat /\ R * (last + k * n) \in Nat /\ R * (t + k * n) \in Nat /\ R * (t + k * m) \in Nat
      <4>1. t - last \in Nat /\ last + k * n \in Nat /\ t + k * n \in Nat /\ t + k * m \in Nat
        BY <1>1, <2>1
      <4> QED BY <4>1, Times
    <3> QED BY <1>1, <1>6, <2>1, <3>1, <3>2, <3>3 DEF t
  <2>2. CASE ~ (t > last) /\ full <= tokens
    <3>1. last + k * n <= t + k * m
      <4>1. CASE a = k
        BY <1>1, <1>3, <4>1
      <4>2. CASE a < k
        BY <1>1, <1>2, <1>3, <4>2
      <4> QED BY <1>3, <4>1, <4>2
    <3>2. last + k * n \in Nat /\ t + k * m \in Nat
      BY <1>1
    <3>3. R * (last + k * n) <= R * (t + k * m) /\ R * (last + k * n) \in Nat /\ R * (t + k * m) \in Nat
      BY <3>1, <3>2, Times
    <3> QED BY <1>1, <1>6, <2>2, <3>3 DEF t
  <2> QED BY <2>1, <2>2 DEF t
<1> QED BY <1>5, <1>6

\* The requests granted are a finite set.
LEMMA GrantedCount ==
  ASSUME SessionTypeOK
  PROVE  IsFiniteSet(granted) /\ Cardinality(granted) \in Nat /\ (granted = {} => Cardinality(granted) = 0)
<1>1. granted \subseteq Proc
  BY DEF SessionTypeOK
<1>2. IsFiniteSet(granted) /\ Cardinality(granted) \in Nat
  BY <1>1, SessionAssumption, FS_Subset, FS_CardinalityType
<1> QED BY <1>2, FS_EmptySet

\* A request takes a token from what has come in.
LEMMA BucketKept ==
  ASSUME BucketInv, SessionTypeOK, SessionTypeOK', CallInv, CallInv',
         NEW p \in Kinds(SessionKinds), RestOf(p), SessionMove(p)
  PROVE  BucketInv'
<1> USE SessionAssumption
<1>1. /\ p \in Proc /\ job' = job /\ now' = now /\ now \in Nat /\ fate'[p] # "new"
      /\ \A k : Kind(k)' = Kind(k) /\ Kind(k) \subseteq Proc
      /\ \A q \in Proc \ {p} : fate'[q] = fate[q]
  BY SessionOthers
<1>2. Skew \in Nat /\ Skew' = Skew
  BY <1>1, SkewBounds DEF Skew, Ahead
<1>3. /\ Cardinality(SlowRequests) \in Nat /\ Cardinality(SlowRequests)' \in Nat
      /\ Cardinality(SlowRequests) <= Cardinality(SlowRequests)'
      /\ (job[p].kind \in Gated /\ fate[p] = "new" /\ Ahead(p) < Skew) =>
           Cardinality(SlowRequests)' = Cardinality(SlowRequests) + 1
  BY SlowCount
<1>4. /\ bucket.tokens \in 0..Capacity /\ bucket.last \in Nat
      /\ IsFiniteSet(granted) /\ Cardinality(granted) \in Nat /\ (granted = {} => Cardinality(granted) = 0)
  BY GrantedCount DEF SessionTypeOK
<1>5. \A q \in granted' : q \in Kinds(Gated)' /\ fate'[q] # "new"
  <2>1. granted' = granted \/ (granted' = granted \cup {p} /\ job[p].kind \in Gated)
    BY DEF SessionMove, LoginMove, RefreshMove, LogoutMove, GateMove
  <2> QED BY <1>1, <2>1 DEF BucketInv, Kinds
<1>6. CASE bucket' = bucket /\ granted' = granted
  <2>1. CASE Filled
    BY <1>1, <1>2, <1>5, <1>6, <2>1 DEF BucketInv, Filled
  <2>2. CASE ~Filled
    <3> DEFINE n == Cardinality(SlowRequests)  m == Cardinality(SlowRequests)'
    <3>1. Skew * n <= Skew * m /\ Skew * n \in Nat /\ Skew * m \in Nat
      <4> HIDE DEF n, m
      <4> QED BY <1>2, <1>3, Times DEF n, m
    <3>2. bucket.last + Skew * n <= bucket.last + Skew * m
          /\ bucket.last + Skew * n \in Nat /\ bucket.last + Skew * m \in Nat
      <4> HIDE DEF n, m
      <4> QED BY <1>4, <3>1
    <3>3. Rate * (bucket.last + Skew * n) <= Rate * (bucket.last + Skew * m)
          /\ Rate * (bucket.last + Skew * n) \in Nat /\ Rate * (bucket.last + Skew * m) \in Nat
      <4> HIDE DEF n, m
      <4> QED BY <3>2, Times
    <3>4. bucket.tokens + Cardinality(granted) + Rate * Skew <= Capacity + Rate * (bucket.last + Skew * n)
      BY <2>2 DEF BucketInv
    <3>5. Rate * Skew \in Nat
      BY <1>2, Times
    <3>6. bucket.tokens + Cardinality(granted) + Rate * Skew <= Capacity + Rate * (bucket.last + Skew * m)
      <4> HIDE DEF n, m
      <4> QED BY <1>4, <3>3, <3>4, <3>5
    <3>7. bucket.last <= now + Skew
      BY DEF BucketInv
    <3> HIDE DEF n
    <3> QED BY <1>1, <1>2, <1>5, <1>6, <3>6, <3>7 DEF BucketInv
  <2> QED BY <2>1, <2>2
<1>7. CASE ~ (bucket' = bucket /\ granted' = granted)
  <2>1. /\ job[p].kind \in Gated /\ fate[p] = "new"
        /\ bucket' = [tokens |-> TokenBucket(p).tokens, last |-> TokenBucket(p).last]
        /\ \/ granted' = granted \cup {p} /\ TokenBucket(p).allowed
           \/ granted' = granted /\ ~TokenBucket(p).allowed
    BY <1>7 DEF SessionMove, LoginMove, RefreshMove, LogoutMove, GateMove
  <2> DEFINE a == job[p].ahead  g == Cardinality(granted)
             n == Cardinality(SlowRequests)  m == Cardinality(SlowRequests)'
  <2>2. Ahead(p) = a /\ a \in Nat /\ a <= Skew
    BY <1>1, <2>1, SkewBounds DEF Ahead
  <2>3. PICK full \in 0..Capacity :
          /\ TokenBucket(p).tokens = IF TokenBucket(p).allowed THEN full - 1 ELSE full
          /\ TokenBucket(p).allowed => full >= 1
          /\ \/ now + a > bucket.last /\ full <= bucket.tokens + Rate * ((now + a) - bucket.last)
             \/ ~ (now + a > bucket.last) /\ full <= bucket.tokens
    BY <1>1, <2>2, BucketGives
  <2>4. bucket'.tokens = TokenBucket(p).tokens /\ bucket'.last = now + a
    BY <1>1, <2>1, <2>2, BucketGives
  <2>5. bucket.last <= now + Skew /\ \/ bucket.tokens = Capacity /\ g = 0
                                     \/ bucket.tokens + g + Rate * Skew <= Capacity + Rate * (bucket.last + Skew * n)
    BY <1>4 DEF BucketInv, Filled
  <2>6. n \in Nat /\ m \in Nat /\ g \in Nat /\ n <= m /\ (a < Skew => m = n + 1)
    BY <1>3, <1>4, <2>1, <2>2
  <2>7. full + g + Rate * Skew <= Capacity + Rate * ((now + a) + Skew * m)
    <3> HIDE DEF a, g, n, m
    <3> QED BY <1>1, <1>2, <1>4, <2>2, <2>3, <2>5, <2>6, BucketSum
  <2>8. p \notin granted
    BY <2>1 DEF BucketInv
  <2>9. bucket'.tokens + Cardinality(granted') = full + g
    <3>1. CASE granted' = granted \cup {p} /\ TokenBucket(p).allowed
      <4>1. Cardinality(granted') = g + 1
        BY <1>4, <2>8, <3>1, FS_AddElement
      <4>2. bucket'.tokens = full - 1
        BY <2>3, <2>4, <3>1
      <4> HIDE DEF g
      <4> QED BY <2>6, <4>1, <4>2
    <3>2. CASE granted' = granted /\ ~TokenBucket(p).allowed
      BY <2>3, <2>4, <3>2
    <3> QED BY <2>1, <3>1, <3>2
  <2>10. bucket'.tokens + Cardinality(granted') + Rate * Skew <= Capacity + Rate * (bucket'.last + Skew * m)
    BY <2>4, <2>7, <2>9
  <2>11. bucket'.last <= now + Skew
    BY <1>1, <1>2, <2>2, <2>4
  <2> QED BY <1>1, <1>2, <1>5, <2>10, <2>11 DEF BucketInv
<1> QED BY <1>6, <1>7

\* A step of other calls, and the clock, keep it all.
LEMMA SessionsRestKept ==
  ASSUME SessionsInv, CallInv', SessionsRest
  PROVE  SessionsInv'
<1> USE DEF SessionsInv, SessionsRest, sessionVars
<1>1. /\ job' = job /\ faults \in Nat /\ faults' \in Nat /\ now \in Nat /\ now' \in Nat
      /\ \A k : Kind(k)' = Kind(k) /\ Kind(k) \subseteq Proc
      /\ \A S : Kinds(S)' = Kinds(S) /\ Kinds(S) \subseteq Proc
  BY CallAssumption DEF Kind, Kinds, CallInv, CallTypeOK
<1>2. /\ Kinds({"refresh", "logout", "request"}) \subseteq Kinds(SessionKinds)
      /\ \A k \in SessionKinds : Kind(k) \subseteq Kinds(SessionKinds)
      /\ {"login", "refresh", "logout", "request"} \subseteq SessionKinds
  BY DEF Kind, Kinds, SessionKinds
<1>3. \A q \in Kinds(SessionKinds) : fate'[q] = fate[q] /\ plan'[q] = plan[q] /\ past'[q] = past[q]
  OBVIOUS
<1>4. \A q : Pair(q)' = Pair(q)
  BY <1>1 DEF Pair
<1>5. SessionTypeOK' /\ SessionPlanInv'
  BY <1>1, <1>3 DEF SessionTypeOK, SessionPlanInv
<1>6. \A q \in Kinds({"refresh", "logout", "request"}) : fate[q] \in {"running", "done"} => Held(q)' /\ Pair(q) \in Token /\ Pair(q).at <= now
  <2> SUFFICES ASSUME NEW q \in Kinds({"refresh", "logout", "request"}), fate[q] \in {"running", "done"}
               PROVE  Held(q)' /\ Pair(q) \in Token /\ Pair(q).at <= now
    OBVIOUS
  <2>1. job[q].of \in Proc
    BY <1>2, SessionJobs DEF Kinds
  <2>2. Held(q)
    BY DEF TokenInv
  <2>3. Held(q)'
    BY <1>1, <1>4, <2>1, <2>2 DEF Held
  <2>4. Pair(q) \in Token /\ Pair(q).at <= now
    BY <2>1, <2>2 DEF Held, Pair, TokenInv, SessionTypeOK
  <2> QED BY <2>3, <2>4
<1>7. TokenInv'
  <2>1. \A p \in Proc : minted[p] # NoToken => minted[p].at \in Nat
    BY DEF SessionTypeOK, Token
  <2>2. \A p \in Proc : minted'[p] # NoToken => minted'[p].at <= now'
    BY <1>1, <2>1 DEF TokenInv
  <2> QED BY <1>1, <1>2, <1>3, <1>6, <2>2 DEF TokenInv
<1>8. ExchangeInv'
  <2>1. \A p \in Kinds(SessionKinds) : Remade(p) => Remade(p)'
    <3> SUFFICES ASSUME NEW p \in Kinds(SessionKinds), Remade(p) PROVE Remade(p)'
      OBVIOUS
    <3>1. PICK m \in Proc : m # job[p].of /\ Makes(m, Pair(p)) /\ ~Before(m, p) /\ Done(m)
      BY DEF Remade
    <3>2. Makes(m, Pair(p))' /\ ~Before(m, p)' /\ Done(m)'
      BY <1>1, <1>3, <1>4, <3>1 DEF Makes, Before
    <3> QED BY <1>1, <3>1, <3>2 DEF Remade
  <2>2. \A p \in Kinds(SessionKinds) : (Exchanged(p)' <=> Exchanged(p)) /\ (Done(p)' <=> Done(p))
    BY <1>3 DEF Exchanged, Done
  <2>3. \A p, q \in Kinds(SessionKinds) : Before(p, q)' <=> Before(p, q)
    BY <1>3 DEF Before
  <2>4. /\ Kind("refresh") \subseteq Kinds(SessionKinds) /\ Kinds(Giving) \subseteq Kinds(SessionKinds)
        /\ faults' = 0 => faults = 0
    BY <1>1, <1>2 DEF Kinds, Giving, SessionKinds
  <2> QED BY <1>1, <1>3, <1>4, <2>1, <2>2, <2>3, <2>4 DEF ExchangeInv
<1>9. LogoutInv'
  <2>1. \A t \in Token : Spent(t) => Spent(t)'
    BY <1>1, SessionAssumption DEF Spent, SessionTypeOK, Token
  <2>2. \A p \in Kind("logout") : Left(p) => Pair(p) \in Token
    BY <1>6 DEF Left, Done, Kind, Kinds
  <2>3. \A p \in Kinds(SessionKinds) : (Left(p)' <=> Left(p)) /\ (Admitted(p)' <=> Admitted(p)) /\ (Done(p)' <=> Done(p))
    BY <1>3 DEF Left, Admitted, Done
  <2>4. \A p, q \in Kinds(SessionKinds) : Before(p, q)' <=> Before(p, q)
    BY <1>3 DEF Before
  <2>5. /\ Kind("logout") \subseteq Kinds(SessionKinds) /\ Kinds(Gated) \subseteq Kinds(SessionKinds)
        /\ faults' = 0 => faults = 0
        /\ \A p : Access(p)' <=> Access(p)
    BY <1>1, <1>2 DEF Kinds, Gated, SessionKinds, Access, Sent
  <2>6. ASSUME faults' = 0, NEW p \in Kind("logout"), Left(p)', Access(p)
        PROVE  Spent(Pair(p))'
    <3>1. Left(p)
      BY <2>3, <2>5, <2>6
    <3>2. Spent(Pair(p)) /\ Pair(p) \in Token
      BY <2>2, <2>5, <2>6, <3>1 DEF LogoutInv
    <3> QED BY <1>4, <2>1, <3>2 DEF Spent
  <2>7. ASSUME faults' = 0, NEW p \in Kind("logout"), NEW q \in Kinds(Gated),
               Done(p)', Before(p, q)', Pair(p)' = Pair(q)', Access(p), Access(q)
        PROVE  ~Admitted(q)'
    <3>1. Done(p) /\ Before(p, q) /\ Pair(p) = Pair(q) /\ faults = 0
      BY <1>4, <2>3, <2>4, <2>5, <2>7
    <3>2. ~Admitted(q)
      BY <2>7, <3>1 DEF LogoutInv
    <3> QED BY <2>3, <2>5, <3>2
  <2> QED BY <1>1, <2>5, <2>6, <2>7 DEF LogoutInv
<1>10. BucketInv'
  <2>1. Skew \in Nat /\ Skew' = Skew
    BY <1>1, SkewBounds DEF Skew, Ahead
  <2>2. SlowRequests' = SlowRequests
    <3>1. \A p : Ahead(p)' = Ahead(p)
      BY <1>1 DEF Ahead
    <3>2. Kinds(Gated)' = Kinds(Gated) /\ \A q \in Kinds(Gated) : fate'[q] = fate[q]
      BY <1>1, <1>3 DEF Kinds, Gated, SessionKinds
    <3> QED BY <2>1, <3>1, <3>2 DEF SlowRequests
  <2>3. bucket.last \in Nat
    BY DEF SessionTypeOK
  <2>4. /\ \A q \in granted' : q \in Kinds(Gated)' /\ fate'[q] # "new"
        /\ bucket' = bucket /\ granted' = granted
    BY <1>1, <1>3 DEF BucketInv, Kinds, Gated, SessionKinds
  <2> QED BY <1>1, <2>1, <2>2, <2>3, <2>4 DEF BucketInv, Filled
<1> QED BY <1>5, <1>7, <1>8, <1>9, <1>10

\* The invariant of the sessions implies what is said of them.
LEMMA SessionsFollow ==
  ASSUME SessionsInv
  PROVE  SessionsHold
<1> USE DEF SessionsInv
<1>1. ExchangedOnce
  <2> SUFFICES ASSUME NEW p \in Kinds(Giving), NEW q \in Kind("refresh"),
                      Done(p), Done(q), Before(p, q), Pair(p) = Pair(q), ~ (faults > 0)
               PROVE  \E m \in Proc : m # job[p].of /\ Makes(m, Pair(p)) /\ ~Before(m, p)
    BY DEF ExchangedOnce, Giving
  <2>1. faults = 0
    BY DEF CallInv, CallTypeOK
  <2> QED BY <2>1 DEF ExchangeInv, Remade, Done
<1>2. LoggedOutIsOut
  BY DEF LogoutInv, LoggedOutIsOut, Admitted, Access
<1>3. GrantsWithinRate
  <2> DEFINE g == Cardinality(granted)  n == Cardinality(SlowRequests)
  <2>1. /\ Skew \in Nat /\ now \in Nat /\ g \in Nat /\ (granted = {} => g = 0)
        /\ bucket.tokens \in Nat /\ bucket.last \in Nat /\ bucket.last <= now + Skew
        /\ Capacity \in Nat /\ Rate \in Nat
    BY SkewBounds, GrantedCount, SessionAssumption DEF BucketInv, SessionTypeOK, CallInv, CallTypeOK
  <2>2. n \in Nat
    <3>1. SlowRequests \subseteq Proc
      BY DEF SlowRequests, Kinds
    <3> QED BY <3>1, SessionAssumption, FS_Subset, FS_CardinalityType
  <2>3. \/ g = 0
        \/ bucket.tokens + g + Rate * Skew <= Capacity + Rate * (bucket.last + Skew * n)
    BY <2>1 DEF BucketInv, Filled
  <2> HIDE DEF g, n
  <2>4. Skew * n \in Nat /\ Rate * Skew \in Nat
    BY <2>1, <2>2, Times
  <2>5. now + Skew * n \in Nat /\ bucket.last + Skew * n \in Nat
        /\ bucket.last + Skew * n <= (now + Skew * n) + Skew
    BY <2>1, <2>4
  <2>6. Rate * (bucket.last + Skew * n) <= Rate * ((now + Skew * n) + Skew)
    BY <2>1, <2>5, Times
  <2>7. Rate * ((now + Skew * n) + Skew) = Rate * (now + Skew * n) + Rate * Skew
    BY <2>1, <2>5, Times
  <2>8. Rate * (now + Skew * n) \in Nat /\ Rate * (bucket.last + Skew * n) \in Nat
    BY <2>1, <2>5, Times
  <2>9. g <= Capacity + Rate * (now + Skew * n)
    BY <2>1, <2>3, <2>4, <2>6, <2>7, <2>8
  <2> QED BY <2>9 DEF GrantsWithinRate, g, n
<1> QED BY <1>1, <1>2, <1>3 DEF SessionsHold, TokensKeepTheirWord

(***************************************************************************)
(* A refresh token is exchanged once and not after a logout, an access     *)
(* token that has been logged out lets nobody in, and a client gets no     *)
(* more requests through than its bucket (auth.go, jwt.go, limiter.go):    *)
(* for any number of calls, users, ticks and tokens.                       *)
(***************************************************************************)
\* SessionsHold, of auth.go, jwt.go and limiter.go.
THEOREM SessionsDoHold == Spec => []SessionsHold
<1>1. Init => SessionsInv
  <2> SUFFICES ASSUME Init PROVE SessionsInv
    OBVIOUS
  <2>1. CallInv /\ now = 0
    BY CallAssumption DEF Init, CallInit, CallInv, CallTypeOK
  <2>2. \A p \in Kinds(SessionKinds) : fate[p] = "new"
    BY KindsApart DEF Init, CallInit, Kinds
  <2>3. \A k \in SessionKinds : \A p \in Kind(k) : fate[p] = "new" /\ p \in Proc
    BY <2>2 DEF Kind, Kinds
  <2>4. {"login", "refresh", "logout", "request"} \subseteq SessionKinds
    BY DEF SessionKinds
  <2>5. SessionTypeOK
    BY SessionAssumption DEF Init, SessionInit, SessionTypeOK
  <2>6. SessionPlanInv /\ TokenInv
    BY <2>2 DEF Init, SessionInit, SessionPlanInv, TokenInv, Kinds, SessionKinds
  <2>7. ExchangeInv /\ LogoutInv
    <3>1. \A p \in Kinds(Giving) \cup Kinds(Gated) : fate[p] = "new" /\ p \in Proc
      BY <2>2, <2>4 DEF Kinds, Giving, Gated
    <3> QED BY <2>3, <2>4, <3>1 DEF ExchangeInv, LogoutInv, Exchanged, Left, Admitted, Done
  <2>8. BucketInv
    BY <2>1, SkewBounds DEF Init, SessionInit, BucketInv, Filled
  <2> QED BY <2>1, <2>5, <2>6, <2>7, <2>8 DEF SessionsInv
<1>2. SessionsInv /\ CallInv' /\ [Next]_vars => SessionsInv'
  <2> SUFFICES ASSUME SessionsInv, CallInv', [Next]_vars PROVE SessionsInv'
    OBVIOUS
  <2>1. ASSUME NEW p \in Kinds(SessionKinds), RestOf(p), SessionMove(p) PROVE SessionsInv'
    <3>1. SessionTypeOK'
      BY <2>1, SessionTypeKept DEF SessionsInv
    <3> QED BY <2>1, <3>1, SessionPlanKept, TokensKept, ExchangesKept, LogoutsKept, BucketKept DEF SessionsInv
  <2> QED BY <2>1, SessionsRestKept, SessionsOrRest DEF SessionsInv
<1>3. SessionsInv => SessionsHold
  BY SessionsFollow
<1> QED BY <1>1, <1>2, <1>3, CallsHold, PTL DEF Spec
=============================================================================
