------------------------------- MODULE Chats -------------------------------
(***************************************************************************)
(* What users write to each other: private conversations with messages     *)
(* that disappear (internal/usecase/private_chat_usecase.go).              *)
(***************************************************************************)
EXTENDS Calls

CONSTANTS Party,
          Conversation, Message,    \* ids; a request brings the id of the row it would insert
          OldChats,                 \* OldChats[c]: the row of conversation c at the start
          Emoji, EmojiWhitelist, MaxReactions,
          Lasting,                  \* how long a message of mode "timed" is shown
          Endless,                  \* a mute with no end
          NoRow

ASSUME ChatAssumption == /\ EmojiWhitelist \subseteq Emoji
                         /\ {MaxReactions, Lasting, Endless} \subseteq Nat
                         /\ Lasting > 0 /\ MaxTime < Endless

VARIABLES
  conversation,  \* conversation[c]: who began it and with whom
  message,       \* message[m]: the row of messages
  unread,        \* unread[c][u]: unread_count of participant u
  unreadKey,     \* Redis chat:unread:<c>:<u>
  reactions, views,
  blocks,        \* <<a, b>>: a has blocked b
  mutes,         \* mutes[a][b]: until when a has muted b
  preference,    \* preference[u]: a key, a private profile, screenshots and pinned conversations
  covered,       \* history: what u was shown of c when u last marked it as read
  wiped          \* history: the messages whose text was wiped
messageVars == <<message, reactions, views, wiped>>
countVars == <<unread, unreadKey, covered>>
partyVars == <<blocks, mutes, preference>>
chatVars == <<conversation, messageVars, countVars, partyVars>>

Mode == {"none", "view_once", "timed"}
PrivateMessage == [conv : Conversation, sender : Party, mode : Mode, text : BOOLEAN,
                   disappearAt : Nat, viewed : BOOLEAN, expired : BOOLEAN]
Preference == [e2ee : BOOLEAN, private : BOOLEAN, screenshots : Nat, pinned : SUBSET Conversation]

ChatTypeOK ==
  /\ \A c \in Conversation : conversation[c] # NoRow =>
                              conversation[c] \in [initiator : Party, recipient : Party]
  /\ \A m \in Message : message[m] # NoRow => message[m] \in PrivateMessage
  /\ {unread, unreadKey} \subseteq [Conversation -> [Party -> Nat]]
  /\ reactions \subseteq [message : Message, user : Party, emoji : EmojiWhitelist]
  /\ views \subseteq Message \X Party
  /\ blocks \subseteq Party \X Party
  /\ mutes \in [Party -> [Party -> Nat]]
  /\ \A u \in Party : preference[u] \in Preference
  /\ covered \in [Conversation -> [Party -> SUBSET Message]]
  /\ wiped \subseteq Message

ChatInit ==
  /\ conversation = OldChats
  /\ message = [m \in Message |-> NoRow]
  /\ unread = [c \in Conversation |-> [u \in Party |-> 0]]
  /\ unreadKey = unread
  /\ reactions = {} /\ views = {} /\ blocks = {}
  /\ mutes = [u \in Party |-> [v \in Party |-> 0]]
  /\ preference = [u \in Party |->
       [e2ee |-> FALSE, private |-> FALSE, screenshots |-> 0, pinned |-> {}]]
  /\ covered = [c \in Conversation |-> [u \in Party |-> {}]]
  /\ wiped = {}

StartRequest == [kind : {"startChat"}, user : Party, other : Party, conv : Conversation]
SendRequest == [kind : {"send"}, user : Party, conv : Conversation, message : Message, mode : Mode]
ReadRequest == [kind : {"markRead"}, user : Party, conv : Conversation]
PinRequest == [kind : {"pin"}, user : Party, conv : Conversation]
ScreenshotRequest == [kind : {"screenshot"}, user : Party, conv : Conversation]
ReactRequest == [kind : {"react"}, user : Party, message : Message, emoji : Emoji]
ViewRequest == [kind : {"view"}, user : Party, message : Message]
BlockRequest == [kind : {"block"}, user : Party, other : Party]
UnmuteRequest == [kind : {"unmute"}, user : Party, other : Party]
MuteRequest == [kind : {"muteUser"}, user : Party, other : Party, lasts : Nat]
KeyRequest == [kind : {"e2eeKey"}, user : Party]
PrivacyRequest == [kind : {"privacy"}, user : Party]
ExpiryJob == [kind : {"expireMessages"}]
ChatRequests == StartRequest \cup SendRequest \cup ReadRequest \cup PinRequest \cup ScreenshotRequest
                \cup ReactRequest \cup ViewRequest \cup BlockRequest \cup UnmuteRequest
                \cup MuteRequest \cup KeyRequest \cup PrivacyRequest \cup ExpiryJob

-----------------------------------------------------------------------------
(* Conversations and blocks.                                                 *)

Participants(c) == {u \in Party : conversation[c] # NoRow
                                  /\ u \in {conversation[c].initiator, conversation[c].recipient}}
ConversationsOf(u, v) == {c \in Conversation : Participants(c) = {u, v}}
IsBlocked(u, v) == <<u, v>> \in blocks \/ <<v, u>> \in blocks

\* The user p writes to.
OtherUser(p) == IF job[p].kind = "startChat" THEN job[p].other
                ELSE LET c == conversation[job[p].conv] IN
                     IF c.initiator = job[p].user THEN c.recipient ELSE c.initiator

StartConversation(p) ==
  /\ Asked(p, "startChat")
  /\ IF ConversationsOf(job[p].user, job[p].other) # {} THEN Return(p)
     ELSE Begin(p, <<"checkBlocks", "createConversation">>, Nothing)
  /\ UNCHANGED chatVars

CheckBlocks(p) ==
  /\ At(p, "checkBlocks")
  /\ IF IsBlocked(job[p].user, OtherUser(p)) THEN Stop(p) ELSE Continue(p)
  /\ UNCHANGED chatVars

\* UNIQUE (initiator_id, recipient_id): the other direction is another row.
\* Nobody can be both participants.
CreateConversation(p) ==
  /\ At(p, "createConversation")
  /\ LET row == [initiator |-> job[p].user, recipient |-> job[p].other] IN
       IF row.initiator = row.recipient \/ \E c \in Conversation : conversation[c] = row
       THEN Stop(p) /\ UNCHANGED conversation
       ELSE conversation' = [conversation EXCEPT ![job[p].conv] = row] /\ Continue(p)
  /\ UNCHANGED <<messageVars, countVars, partyVars>>

BlockUser(p) ==
  /\ Asked(p, "block")
  /\ blocks' = blocks \cup {<<job[p].user, job[p].other>>}
  /\ Return(p)
  /\ UNCHANGED <<conversation, mutes, preference, messageVars, countVars>>

MuteUser(p) ==
  /\ Asked(p, "muteUser")
  /\ mutes' = [mutes EXCEPT ![job[p].user][job[p].other] =
                 IF job[p].lasts > 0 THEN now + job[p].lasts ELSE Endless]
  /\ Return(p)
  /\ UNCHANGED <<conversation, blocks, preference, messageVars, countVars>>

UnmuteUser(p) ==
  /\ Asked(p, "unmute")
  /\ mutes' = [mutes EXCEPT ![job[p].user][job[p].other] = 0]
  /\ Return(p)
  /\ UNCHANGED <<conversation, blocks, preference, messageVars, countVars>>

\* A row of the user's own is overwritten.
Prefer(p, own) ==
  /\ preference' = [preference EXCEPT ![job[p].user] = own]
  /\ Return(p)
  /\ UNCHANGED <<conversation, blocks, mutes, messageVars, countVars>>

RegisterE2EEKey(p) ==
  /\ Asked(p, "e2eeKey")
  /\ Prefer(p, [preference[job[p].user] EXCEPT !.e2ee = TRUE])

UpdateUserPrivacy(p) ==
  /\ Asked(p, "privacy")
  /\ Prefer(p, [preference[job[p].user] EXCEPT !.private = TRUE])

\* Of a participant; for anybody else no row is changed.
UpdateSettings(p) ==
  /\ Asked(p, "pin")
  /\ Prefer(p, [preference[job[p].user] EXCEPT
                  !.pinned = @ \cup {c \in {job[p].conv} : job[p].user \in Participants(c)}])

NotifyScreenshot(p) ==
  /\ Asked(p, "screenshot")
  /\ Prefer(p, [preference[job[p].user] EXCEPT !.screenshots = @ + 1])

-----------------------------------------------------------------------------
(* Messages.                                                                 *)

SendMessage(p) ==
  /\ Asked(p, "send")
  /\ IF job[p].user \in Participants(job[p].conv)
     THEN Begin(p, <<"checkBlocks", "isMuted", "createMessage", "incrUnread">>, [muted |-> FALSE])
     ELSE Refuse(p)
  /\ UNCHANGED chatVars

\* A mute that cannot be read is none.
IsMuted(p) ==
  /\ At(p, "isMuted")
  /\ Hold(p, [muted |-> mutes[OtherUser(p)][job[p].user] > now])
  /\ UNCHANGED chatVars

\* One transaction; a muted sender is not counted in Redis.
CreateMessage(p) ==
  /\ At(p, "createMessage")
  /\ message' = [message EXCEPT ![job[p].message] =
       [conv |-> job[p].conv, sender |-> job[p].user, mode |-> job[p].mode, text |-> TRUE,
        disappearAt |-> 0, viewed |-> FALSE, expired |-> FALSE]]
  /\ unread' = [unread EXCEPT ![job[p].conv][OtherUser(p)] = @ + 1]
  /\ Go(p, IF seen[p].muted THEN <<>> ELSE Tail(plan[p]), seen[p])
  /\ UNCHANGED <<conversation, unreadKey, reactions, views, covered, wiped, partyVars>>

IncrUnread(p) ==
  /\ At(p, "incrUnread")
  /\ unreadKey' = [unreadKey EXCEPT ![job[p].conv][OtherUser(p)] = @ + 1]
  /\ Continue(p)
  /\ UNCHANGED <<conversation, unread, covered, messageVars, partyVars>>

SentIn(c) == {m \in Message : message[m] # NoRow /\ message[m].conv = c}
ListMessages(c) == {m \in SentIn(c) : ~message[m].expired}

\* Mutant: the key in Redis stays.
MarkOnlyTheRow(p) ==
  /\ Asked(p, "markRead")
  /\ IF ListMessages(job[p].conv) = {} THEN Return(p)
     ELSE Begin(p, <<"markAsRead">>, [upTo |-> SentIn(job[p].conv)])
  /\ UNCHANGED chatVars

\* Nothing is marked in a conversation whose messages have all expired.
MarkConversationRead(p) ==
  /\ Asked(p, "markRead")
  /\ IF ListMessages(job[p].conv) = {} THEN Return(p)
     ELSE Begin(p, <<"markAsRead", "delUnread">>, [upTo |-> SentIn(job[p].conv)])
  /\ UNCHANGED chatVars

MarkAsRead(p) ==
  /\ At(p, "markAsRead")
  /\ IF job[p].user \in Participants(job[p].conv)
     THEN /\ unread' = [unread EXCEPT ![job[p].conv][job[p].user] = 0]
          /\ covered' = [covered EXCEPT ![job[p].conv][job[p].user] = @ \cup seen[p].upTo]
     ELSE UNCHANGED <<unread, covered>>
  /\ Continue(p)
  /\ UNCHANGED <<conversation, unreadKey, messageVars, partyVars>>

DelUnread(p) ==
  /\ At(p, "delUnread")
  /\ unreadKey' = [unreadKey EXCEPT ![job[p].conv][job[p].user] = 0]
  /\ Continue(p)
  /\ UNCHANGED <<conversation, unread, covered, messageVars, partyVars>>

-----------------------------------------------------------------------------
(* Reactions.                                                                *)

GetReactions(m, u) == {r \in reactions : r.message = m /\ r.user = u}
Reaction(p) == [message |-> job[p].message, user |-> job[p].user, emoji |-> job[p].emoji]

\* Mutant: any number of reactions.
ReactFreely(p) ==
  /\ Asked(p, "react")
  /\ LET mine == GetReactions(job[p].message, job[p].user) IN
       IF job[p].emoji \notin EmojiWhitelist THEN Refuse(p)
       ELSE IF Reaction(p) \in mine THEN Begin(p, <<"deleteReaction">>, Nothing)
       ELSE Begin(p, <<"addReaction">>, Nothing)
  /\ UNCHANGED chatVars

ToggleReaction(p) ==
  /\ Asked(p, "react")
  /\ LET mine == GetReactions(job[p].message, job[p].user) IN
       IF job[p].emoji \notin EmojiWhitelist THEN Refuse(p)
       ELSE IF Reaction(p) \in mine THEN Begin(p, <<"deleteReaction">>, Nothing)
       ELSE IF Cardinality(mine) >= MaxReactions THEN Refuse(p)
       ELSE Begin(p, <<"addReaction">>, Nothing)
  /\ UNCHANGED chatVars

\* The message must exist, and the reaction not.
AddReaction(p) ==
  /\ At(p, "addReaction")
  /\ IF message[job[p].message] # NoRow /\ Reaction(p) \notin reactions
     THEN reactions' = reactions \cup {Reaction(p)} /\ Continue(p)
     ELSE Stop(p) /\ UNCHANGED reactions
  /\ UNCHANGED <<conversation, message, views, wiped, countVars, partyVars>>

DeleteReaction(p) ==
  /\ At(p, "deleteReaction")
  /\ reactions' = reactions \ {Reaction(p)}
  /\ Continue(p)
  /\ UNCHANGED <<conversation, message, views, wiped, countVars, partyVars>>

-----------------------------------------------------------------------------
(* Messages that disappear: a viewer reads the whole row and writes it back. *)

Viewed(m) ==
  CASE m.mode = "none"      -> [m EXCEPT !.viewed = TRUE]
    [] m.mode = "view_once" -> [m EXCEPT !.viewed = TRUE, !.expired = TRUE, !.disappearAt = now + 1]
    [] m.mode = "timed"     -> [m EXCEPT !.viewed = TRUE, !.disappearAt = now + Lasting]

GetMessageByID(i) == message[i]

MarkAsViewed(p) ==
  /\ Asked(p, "view")
  /\ LET m == GetMessageByID(job[p].message) IN
       IF m = NoRow THEN Refuse(p)
       ELSE IF m.viewed \/ m.expired THEN Return(p)
       ELSE Begin(p, <<"updateMessage", "trackView">>, Viewed(m))
  /\ UNCHANGED chatVars

UpdateMessage(p) ==
  /\ At(p, "updateMessage")
  /\ message' = [message EXCEPT ![job[p].message] = seen[p]]
  /\ Continue(p)
  /\ UNCHANGED <<conversation, reactions, views, wiped, countVars, partyVars>>

TrackView(p) ==
  /\ At(p, "trackView")
  /\ views' = views \cup {<<job[p].message, job[p].user>>}
  /\ Continue(p)
  /\ UNCHANGED <<conversation, message, reactions, wiped, countVars, partyVars>>

\* Every 5 seconds.
Due == {m \in Message : message[m] # NoRow /\ message[m].disappearAt \in 1..now /\ ~message[m].expired}

ProcessExpiredMessages(p) ==
  /\ Asked(p, "expireMessages")
  /\ IF Due = {} THEN Return(p) ELSE Begin(p, [i \in 1..Cardinality(Due) |-> "wipe"], [left |-> Due])
  /\ UNCHANGED chatVars

\* Mutant: the text stays.
WipeNothing(p) ==
  /\ At(p, "wipe")
  /\ \E m \in seen[p].left :
       /\ message' = [message EXCEPT ![m].expired = TRUE, ![m].disappearAt = 0, ![m].viewed = FALSE]
       /\ wiped' = wiped \cup {m}
       /\ Hold(p, [left |-> seen[p].left \ {m}])
  /\ UNCHANGED <<conversation, reactions, views, countVars, partyVars>>

\* The list has neither the deadline nor the view: they are written as none.
Wipe(p) ==
  /\ At(p, "wipe")
  /\ \E m \in seen[p].left :
       /\ message' = [message EXCEPT ![m].text = FALSE, ![m].expired = TRUE,
                                     ![m].disappearAt = 0, ![m].viewed = FALSE]
       /\ wiped' = wiped \cup {m}
       /\ Hold(p, [left |-> seen[p].left \ {m}])
  /\ UNCHANGED <<conversation, reactions, views, countVars, partyVars>>

-----------------------------------------------------------------------------
ChatStep(p) ==
  \/ StartConversation(p) \/ CheckBlocks(p) \/ CreateConversation(p)
  \/ BlockUser(p) \/ MuteUser(p) \/ UnmuteUser(p)
  \/ RegisterE2EEKey(p) \/ UpdateUserPrivacy(p) \/ UpdateSettings(p) \/ NotifyScreenshot(p)
  \/ SendMessage(p) \/ IsMuted(p) \/ CreateMessage(p) \/ IncrUnread(p)
  \/ MarkConversationRead(p) \/ MarkAsRead(p) \/ DelUnread(p)
  \/ ToggleReaction(p) \/ AddReaction(p) \/ DeleteReaction(p)
  \/ MarkAsViewed(p) \/ UpdateMessage(p) \/ TrackView(p)
  \/ ProcessExpiredMessages(p) \/ Wipe(p)

IgnoredChat == {"isMuted", "incrUnread", "delUnread", "trackView", "wipe"}

-----------------------------------------------------------------------------
On(k, c) == {p \in Kind(k) : job[p].conv = c}
Overlapping(S, T) == \E p \in S, q \in T : Overlap(p, q)

(***************************************************************************)
(* Two users have one conversation, unless both began one at once: the     *)
(* constraint knows only the direction.  Nobody reacts to a message more   *)
(* often than allowed but by reactions that overlapped.                    *)
(***************************************************************************)
ConversationsAreOne ==
  \A c, d \in Conversation :
    (c # d /\ conversation[c] # NoRow /\ Participants(c) = Participants(d)) =>
      /\ conversation[c].initiator = conversation[d].recipient
      /\ Overlapping(On("startChat", c), On("startChat", d))
ReactionsWithinLimit ==
  \A m \in Message, u \in Party :
    LET mine == {p \in Kind("react") : job[p].message = m /\ job[p].user = u} IN
      Cardinality(GetReactions(m, u)) > MaxReactions => Overlapping(mine, mine)

(***************************************************************************)
(* The row counts what was sent to a user since they last marked the       *)
(* conversation as read, and never more; it is less only if a message came *)
(* while they did.  The key in Redis counts the same, without what muted   *)
(* senders sent, when no statement failed.                                 *)
(***************************************************************************)
UnreadIsExact ==
  \A c \in Conversation : \A u \in Participants(c) :
    LET new == {m \in SentIn(c) : message[m].sender # u} \ covered[c][u]
        apart == ~Overlapping(On("send", c), On("markRead", c))
        quiet == \A p \in On("send", c) \cup On("markRead", c) : fate[p] # "running"
    IN /\ unread[c][u] <= Cardinality(new)
       /\ apart => unread[c][u] = Cardinality(new)
       /\ (apart /\ quiet /\ faults = 0) =>
            /\ unreadKey[c][u] <= unread[c][u]
            /\ Kind("muteUser") = {} => unreadKey[c][u] = unread[c][u]

(***************************************************************************)
(* The text of a message that was wiped is gone, and the message is shown  *)
(* no more, unless two of its views overlapped: the later one writes back  *)
(* the row it has read.  A message to be viewed once is shown no more      *)
(* after a view.                                                           *)
(***************************************************************************)
Disappears ==
  /\ \A m \in wiped :
       \/ ~message[m].text /\ message[m].expired
       \/ LET those == {p \in Kind("view") : job[p].message = m} IN Overlapping(those, those)
  /\ \A v \in views : message[v[1]].mode = "view_once" => message[v[1]].expired

(***************************************************************************)
(* After a block nobody of the two begins a message or a conversation.     *)
(***************************************************************************)
BlocksHold ==
  \A q \in Kind("block"), p \in Kinds({"send", "startChat"}) :
    LET two == {job[q].user, job[q].other} IN
    Done(q) /\ Before(q, p) =>
      /\ (job[p].kind = "startChat" /\ {job[p].user, job[p].other} = two)
         => conversation[job[p].conv] = NoRow
      /\ (job[p].kind = "send" /\ Participants(job[p].conv) = two)
         => message[job[p].message] = NoRow

ChatsHold == /\ ConversationsAreOne /\ ReactionsWithinLimit /\ UnreadIsExact /\ BlocksHold
=============================================================================
