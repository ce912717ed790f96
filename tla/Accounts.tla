------------------------------ MODULE Accounts ------------------------------
(***************************************************************************)
(* What surrounds a user: the account and its sessions, verification and   *)
(* bans, chat moderation, payout methods and agencies; and what users      *)
(* write and publish: chats, rooms and media.  On one clock.               *)
(***************************************************************************)
EXTENDS Users, Moderation, Payouts, Agencies, Chats, Rooms, Media

ASSUME JobAssumption ==
  \A j \in Jobs, p \in Proc :
    \/ j[p] = [kind |-> "none"]
    \/ j[p] \in ProfileRequests \/ j[p] \in VerificationRequests \/ j[p] \in SessionRequests
    \/ j[p] \in ModerationRequests \/ j[p] \in PayoutRequests \/ j[p] \in AgencyRequests
    \/ j[p] \in ChatRequests \/ j[p] \in RoomRequests \/ j[p] \in MediaRequests

\* A voice room has the id that its creation has generated.
ASSUME FreshAssumption ==
  \A j \in Jobs, p, q \in Proc :
    (j[p].kind = "createVoice" /\ j[q].kind = "createVoice" /\ j[p].room = j[q].room) => p = q

userVars == <<profileVars, verificationVars>>
accountVars == <<userVars, sessionVars, moderationVars, payoutVars, agencyVars>>
contentVars == <<chatVars, roomVars, mediaVars>>
vars == <<callVars, accountVars, contentVars>>

TypeOK == /\ CallTypeOK /\ ProfileTypeOK /\ VerificationTypeOK /\ SessionTypeOK
          /\ ModerationTypeOK /\ PayoutTypeOK /\ AgencyTypeOK
          /\ ChatTypeOK /\ RoomTypeOK /\ MediaTypeOK

Init == /\ CallInit /\ ProfileInit /\ VerificationInit /\ SessionInit
        /\ ModerationInit /\ PayoutInit /\ AgencyInit
        /\ ChatInit /\ RoomInit /\ MediaInit

Ignored(p) == IgnoredProfile \cup IgnoredVerification(p) \cup IgnoredSession
              \cup IgnoredModeration(p) \cup IgnoredPayout
              \cup IgnoredChat \cup IgnoredRoom \cup IgnoredMedia

AccountStep(p) ==
  \/ /\ job[p] \in ProfileRequests /\ ProfileStep(p)
     /\ UNCHANGED <<verificationVars, sessionVars, moderationVars, payoutVars, agencyVars>>
  \/ job[p] \in VerificationRequests /\ VerificationStep(p)
     /\ UNCHANGED <<sessionVars, moderationVars, payoutVars, agencyVars>>
  \/ job[p] \in SessionRequests /\ SessionStep(p)
     /\ UNCHANGED <<userVars, moderationVars, payoutVars, agencyVars>>
  \/ job[p] \in ModerationRequests /\ ModerationStep(p)
     /\ UNCHANGED <<userVars, sessionVars, payoutVars, agencyVars>>
  \/ job[p] \in PayoutRequests /\ PayoutStep(p)
     /\ UNCHANGED <<userVars, sessionVars, moderationVars, agencyVars>>
  \/ job[p] \in AgencyRequests /\ AgencyStep(p)
     /\ UNCHANGED <<userVars, sessionVars, moderationVars, payoutVars>>

ContentStep(p) ==
  \/ job[p] \in ChatRequests /\ ChatStep(p)
     /\ UNCHANGED <<roomVars, mediaVars>>
  \/ job[p] \in RoomRequests /\ RoomStep(p)
     /\ UNCHANGED <<chatVars, mediaVars>>
  \/ job[p] \in MediaRequests /\ MediaStep(p)
     /\ UNCHANGED <<chatVars, roomVars>>

Step(p) ==
  \/ AccountStep(p) /\ UNCHANGED contentVars
  \/ ContentStep(p) /\ UNCHANGED accountVars
  \/ Fault(p, Ignored(p)) /\ UNCHANGED <<accountVars, contentVars>>

\* Only these read the clock: without one of them to come it need not go on.
Timed == Kinds({"login", "refresh", "logout", "request", "chat", "override", "appeal",
                "syncStates", "view", "expireMessages", "send", "muteUser",
                "segment", "cleanVideos", "depositAddress"})

Next == \/ \E p \in Proc : Step(p)
        \/ Timed \ Ended # {} /\ Tick /\ UNCHANGED <<accountVars, contentVars>>
        \/ Quiet /\ UNCHANGED vars

Spec == Init /\ [][Next]_vars

-----------------------------------------------------------------------------
(***************************************************************************)
(* What the use cases check before they write holds for calls that run one *)
(* at a time: the limits and the primary payout method, one agency for a   *)
(* host, and a cached profile that is the row.  A deposit address on a     *)
(* chain belongs to one user, and a crypto withdrawal is completed by its  *)
(* confirmations.                                                          *)
(***************************************************************************)
ChecksHoldAlone == /\ PayoutLimits /\ PrimaryKept /\ HostsBelong /\ CacheFollowsRow
                   /\ CryptoHolds

(* A token works for whom and as long as it says, and a client gets no more  *)
(* requests through than its bucket holds.                                   *)
SessionsHold == TokensKeepTheirWord /\ GrantsWithinRate

(* A ban, a warning or a decision stands until it is lifted.                 *)
RulingsStand == BansHold /\ ModerationStands

(* A conversation is what its two users see of it, and what should disappear *)
(* from it does.                                                             *)
MessagesHold == ChatsHold /\ Disappears

(* A video is shown as its owner set it, and counts count.                   *)
MediaHold == VideosHold /\ LikesHold
=============================================================================
