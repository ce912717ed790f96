----------------------------- MODULE Moderation -----------------------------
(***************************************************************************)
(* Chat moderation, strikes and bans, and the queue of images              *)
(* (internal/usecase/moderation.go, moderation_report.go and the tickers   *)
(* of internal/worker/moderation_worker.go).  A user's state is one row    *)
(* that every writer reads, changes and writes back whole; mutes and bans  *)
(* have a key in Redis besides.                                            *)
(***************************************************************************)
EXTENDS Calls

CONSTANTS Chatter,
          ModRule,   \* ModRule[r]: action, lasts, strikes and the rule it escalates to
          NoRule,
          MuteTime, BanTime,  \* the automatic mute and ban without a rule
          Image, Forever      \* Forever: the year of a permanent ban's key

ASSUME ModerationAssumption ==
  /\ \A r \in DOMAIN ModRule :
       ModRule[r] \in [action : {"warn", "block", "mute", "kick", "ban_temp", "ban_perm"},
                       lasts : Nat, strikes : Nat, next : DOMAIN ModRule \cup {NoRule}]
  /\ NoRule \notin DOMAIN ModRule
  /\ {MuteTime, BanTime, Forever} \subseteq Nat \ {0}

VARIABLES state,    \* state[u]: the row in user_moderation_state
          muteKey,  \* muteKey[u]: when mod:mute:<u> expires
          banKey,   \* banKey[u]: when jwt:blacklist:<u> expires
          kicked,   \* the users with a room:kick key
          modLog,   \* modLog[p]: the action p has logged, and when
          appeals,  \* the calls whose log row is appealed
          image     \* image[i]: the row in image_moderation_queue
moderationVars == <<state, muteKey, banKey, kicked, modLog, appeals, image>>

\* A time is 0 where the column is NULL.
State == [muted : BOOLEAN, mutedUntil : Nat, banned : BOOLEAN, bannedUntil : Nat,
          strikes : Nat, struckAt : Nat]
NewState == [muted |-> FALSE, mutedUntil |-> 0, banned |-> FALSE, bannedUntil |-> 0,
             strikes |-> 0, struckAt |-> 0]
ImageRow == [status : {"none", "queued", "scanning", "completed", "failed"},
             action : {"", "pass", "block", "blur_image", "flag_review"}]

ModerationTypeOK ==
  /\ state \in [Chatter -> State]
  /\ muteKey \in [Chatter -> Nat] /\ banKey \in [Chatter -> Nat]
  /\ kicked \subseteq Chatter
  /\ DOMAIN modLog = Proc /\ appeals \subseteq Proc
  /\ image \in [Image -> ImageRow]

ModerationInit == /\ state = [u \in Chatter |-> NewState]
                  /\ muteKey = [u \in Chatter |-> 0] /\ banKey = [u \in Chatter |-> 0]
                  /\ kicked = {} /\ appeals = {}
                  /\ modLog = [p \in Proc |-> [action |-> "none", at |-> 0]]
                  /\ image = [i \in Image |-> [status |-> "none", action |-> ""]]

\* A message: the rule it matches, the severity of the word in it, its spam.
ChatMessage == [kind : {"chat"}, user : Chatter, rule : DOMAIN ModRule \cup {NoRule},
                severity : 0..3, spam : {"none", "mentions", "emoji"}]
OverrideRequest == [kind : {"override"}, user : Chatter,
                    action : {"mute", "unmute", "ban_perm", "unban"}]
AppealRequest == [kind : {"appeal"}, of : Proc]
ImageRequest == [kind : {"enqueue", "approveImage", "rejectImage"}, image : Image]
ModerationRequests == ChatMessage \cup OverrideRequest \cup AppealRequest \cup ImageRequest
                      \cup [kind : {"syncStates", "scanNext"}]

Speaker(p) == job[p].user
Log(p, a) == modLog' = [modLog EXCEPT ![p] = [action |-> a, at |-> now]]
NotLogged == UNCHANGED <<modLog, appeals, image>>

\* What a decision does to the row of the user.
Apply(s, a, lasts) ==
  CASE a = "mute"     -> [s EXCEPT !.muted = TRUE, !.mutedUntil = now + lasts]
    [] a = "ban_temp" -> [s EXCEPT !.banned = TRUE, !.bannedUntil = now + lasts]
    [] a = "ban_perm" -> [s EXCEPT !.banned = TRUE]
    [] a = "unmute"   -> [s EXCEPT !.muted = FALSE, !.mutedUntil = 0]
    [] a = "unban"    -> [s EXCEPT !.banned = FALSE, !.bannedUntil = 0]
    [] OTHER          -> s

\* Of a message: the mute that stands, then its rule, its word, its spam.
Outcome(p) ==
  IF job[p].rule # NoRule THEN <<"strike">>
  ELSE IF job[p].severity = 2 THEN <<"logAuto", "autoMute">>
  ELSE IF job[p].severity = 3 THEN <<"logAuto", "autoBan">>
  ELSE IF job[p].severity = 0 /\ job[p].spam = "mentions" THEN <<"autoMute">>
  ELSE <<>>

EvaluateChatMessage(p) ==
  /\ Asked(p, "chat")
  /\ IF now < muteKey[Speaker(p)] THEN Return(p) ELSE Begin(p, Outcome(p), Nothing)
  /\ UNCHANGED moderationVars

\* The rule of the last strike is overwritten before it is compared: the
\* count is one of strikes within a day (here: a tick) by any rule.
ApplyStrikeEscalation(p) ==
  /\ At(p, "strike")
  /\ LET old == state[Speaker(p)]
         count == (IF old.struckAt + 1 < now THEN 0 ELSE old.strikes) + 1
         rule == ModRule[job[p].rule]
         used == IF count >= rule.strikes /\ rule.next # NoRule THEN ModRule[rule.next] ELSE rule
         row == [Apply(old, used.action, used.lasts) EXCEPT !.strikes = count, !.struckAt = now]
     IN Go(p, <<"setKey", "saveState", "kick">>,
           [row |-> row, action |-> used.action, lasts |-> used.lasts])
  /\ UNCHANGED moderationVars

\* The row could not be read: the rule's own action, and no strike.
StrikeUnread(p) == /\ At(p, "strike")
                   /\ faults < Faults /\ faults' = faults + 1
                   /\ Follow(p, <<"kick">>, [action |-> ModRule[job[p].rule].action])
                   /\ UNCHANGED past
                   /\ UNCHANGED moderationVars

\* The keys in Redis: set before the row is saved.
SetKey(p) ==
  /\ At(p, "setKey")
  /\ LET u == Speaker(p)  a == seen[p].action IN
       /\ muteKey' = CASE a = "mute" -> [muteKey EXCEPT ![u] = now + seen[p].lasts]
                       [] a = "unmute" -> [muteKey EXCEPT ![u] = 0]
                       [] OTHER -> muteKey
       /\ banKey' = CASE a = "ban_temp" -> [banKey EXCEPT ![u] = now + seen[p].lasts]
                      [] a = "ban_perm" -> [banKey EXCEPT ![u] = now + Forever]
                      [] a = "unban" -> [banKey EXCEPT ![u] = 0]
                      [] OTHER -> banKey
  /\ Continue(p)
  /\ UNCHANGED <<state, kicked>> /\ NotLogged

SaveUserModerationState(p) ==
  /\ At(p, "saveState")
  /\ state' = [state EXCEPT ![Speaker(p)] = seen[p].row]
  /\ Continue(p)
  /\ UNCHANGED <<muteKey, banKey, kicked>> /\ NotLogged

ExecuteSyncChatAction(p) ==
  /\ At(p, "kick")
  /\ kicked' = IF seen[p].action \in {"kick", "ban_temp", "ban_perm"} THEN kicked \cup {Speaker(p)}
               ELSE kicked
  /\ Continue(p)
  /\ UNCHANGED <<state, muteKey, banKey>> /\ NotLogged

LogAuto(p) == /\ At(p, "logAuto")
              /\ Log(p, IF job[p].severity = 2 THEN "mute" ELSE "ban_temp")
              /\ Continue(p)
              /\ UNCHANGED <<state, muteKey, banKey, kicked, appeals, image>>

\* Without a rule only Redis is written.
AutoMute(p) == /\ At(p, "autoMute")
               /\ muteKey' = [muteKey EXCEPT ![Speaker(p)] = now + MuteTime]
               /\ Continue(p)
               /\ UNCHANGED <<state, banKey, kicked>> /\ NotLogged

AutoBan(p) == /\ At(p, "autoBan")
              /\ banKey' = [banKey EXCEPT ![Speaker(p)] = now + BanTime]
              /\ Go(p, <<"kick">>, [action |-> "ban_temp"])
              /\ UNCHANGED <<state, muteKey, kicked>> /\ NotLogged

ManualOverride(p) ==
  /\ Asked(p, "override")
  /\ Begin(p, <<"setKey", "saveState", "logManual">>,
           [row |-> Apply(state[Speaker(p)], job[p].action, 1),
            action |-> job[p].action, lasts |-> 1])
  /\ UNCHANGED moderationVars

LogManual(p) == /\ At(p, "logManual")
                /\ Log(p, job[p].action)
                /\ Continue(p)
                /\ UNCHANGED <<state, muteKey, banKey, kicked, appeals, image>>

GetModerationLogByID(l) == modLog[l]

\* Within the window of the action: a ban's is longer than all the model's time.
SubmitAppeal(p) ==
  /\ Asked(p, "appeal")
  /\ LET log == GetModerationLogByID(job[p].of) IN
       IF log.action = "none" \/ (log.action \notin {"ban_temp", "ban_perm"} /\ now > log.at)
       THEN Refuse(p) /\ UNCHANGED appeals
       ELSE appeals' = appeals \cup {job[p].of} /\ Return(p)
  /\ UNCHANGED <<state, muteKey, banKey, kicked, modLog, image>>

(***************************************************************************)
(* The ticker that lifts what has ended                                    *)
(***************************************************************************)
Over(until) == until # 0 /\ now > until

\* Mutant: every ban is lifted.
LiftAll(s) == Apply(s, "unban", 0)

\* The row as the ticker leaves it.
Lifted(s) ==
  LET unmuted == IF s.muted /\ Over(s.mutedUntil) THEN Apply(s, "unmute", 0) ELSE s IN
    IF s.banned /\ Over(s.bannedUntil) THEN Apply(unmuted, "unban", 0) ELSE unmuted

SyncUserModerationStates(p) ==
  /\ Asked(p, "syncStates")
  /\ LET due == {u \in Chatter : /\ state[u].banned \/ state[u].muted
                                 /\ Lifted(state[u]) # state[u]} IN
       IF due = {} THEN Return(p)
       ELSE Begin(p, <<"lift">>, [u \in due |-> state[u]])
  /\ UNCHANGED moderationVars

\* The keys of one of the users go, then its row, as it was read.
LiftKeys(p) ==
  /\ At(p, "lift")
  /\ \E u \in DOMAIN seen[p] :
       LET was == seen[p][u]  is == Lifted(was) IN
         /\ muteKey' = IF was.muted /\ ~is.muted THEN [muteKey EXCEPT ![u] = 0] ELSE muteKey
         /\ banKey' = IF was.banned /\ ~is.banned THEN [banKey EXCEPT ![u] = 0] ELSE banKey
         /\ Go(p, <<"saveLifted">>, [row |-> is, user |-> u,
                                     others |-> [v \in DOMAIN seen[p] \ {u} |-> seen[p][v]]])
  /\ UNCHANGED <<state, kicked>> /\ NotLogged

SaveLifted(p) ==
  /\ At(p, "saveLifted")
  /\ state' = [state EXCEPT ![seen[p].user] = seen[p].row]
  /\ Go(p, IF DOMAIN seen[p].others = {} THEN <<>> ELSE <<"lift">>, seen[p].others)
  /\ UNCHANGED <<muteKey, banKey, kicked>> /\ NotLogged

(***************************************************************************)
(* The image queue                                                         *)
(***************************************************************************)
OnlyImages == UNCHANGED <<state, muteKey, banKey, kicked, modLog, appeals>>

EnqueueImage(i) == image' = [image EXCEPT ![i].status = "queued"]
ImageJob(i) == image[i].status # "none"

EnqueueImageScan(p) ==
  /\ Asked(p, "enqueue")
  /\ IF ImageJob(job[p].image) THEN Refuse(p) /\ UNCHANGED image
     ELSE EnqueueImage(job[p].image) /\ Return(p)
  /\ OnlyImages

\* ApproveImage and RejectImage, whatever the status.
DecideImage(p) ==
  /\ \/ Asked(p, "approveImage")
     \/ Asked(p, "rejectImage")
  /\ IF ~ImageJob(job[p].image) THEN Refuse(p)
     ELSE Begin(p, <<"updateImage">>,
                [at |-> job[p].image,
                 row |-> [status |-> "completed",
                          action |-> IF job[p].kind = "approveImage" THEN "pass" ELSE "block"]])
  /\ UNCHANGED moderationVars

Pending == {i \in Image : image[i].status = "queued"}

\* Mutant: whatever is in the queue is scanned.
ScanAny(p) ==
  /\ Asked(p, "scanNext")
  /\ \E i \in Image : /\ image[i].status # "none"
                      /\ Begin(p, <<"scanning", "scan", "updateImage">>, [at |-> i])
  /\ UNCHANGED moderationVars

ProcessNextImageInQueue(p) ==
  /\ Asked(p, "scanNext")
  /\ IF Pending = {} THEN Return(p)
     ELSE \E i \in Pending : Begin(p, <<"scanning", "scan", "updateImage">>, [at |-> i])
  /\ UNCHANGED moderationVars

MarkScanning(p) ==
  /\ At(p, "scanning")
  /\ image' = [image EXCEPT ![seen[p].at] = [status |-> "scanning", action |-> ""]]
  /\ Continue(p)
  /\ OnlyImages

\* By the score of one scanner or of the other; or there is no score at all.
Verdict == {"pass", "blur_image", "block"}

Scan(p) ==
  /\ At(p, "scan")
  /\ \/ \E a \in Verdict :
          Hold(p, [at |-> seen[p].at, row |-> [status |-> "completed", action |-> a]])
     \/ Hold(p, [at |-> seen[p].at, row |-> [status |-> "failed", action |-> "flag_review"]])
  /\ UNCHANGED moderationVars

UpdateImageJob(p) ==
  /\ At(p, "updateImage")
  /\ image' = [image EXCEPT ![seen[p].at] = seen[p].row]
  /\ Continue(p)
  /\ OnlyImages

ModerationStep(p) ==
  \/ EvaluateChatMessage(p) \/ ApplyStrikeEscalation(p) \/ StrikeUnread(p) \/ SetKey(p)
  \/ SaveUserModerationState(p) \/ ExecuteSyncChatAction(p)
  \/ LogAuto(p) \/ AutoMute(p) \/ AutoBan(p) \/ ManualOverride(p) \/ LogManual(p) \/ SubmitAppeal(p)
  \/ SyncUserModerationStates(p) \/ LiftKeys(p) \/ SaveLifted(p)
  \/ EnqueueImageScan(p) \/ DecideImage(p) \/ ProcessNextImageInQueue(p) \/ MarkScanning(p)
  \/ Scan(p) \/ UpdateImageJob(p)

\* The statements of p whose errors the code ignores.
IgnoredModeration(p) == {"setKey", "logAuto", "autoMute", "scanning"}
                        \cup IF job[p].kind = "override" THEN {} ELSE {"saveState"}

-----------------------------------------------------------------------------
Overrides(u, a) == {p \in Kind("override") : Speaker(p) = u /\ job[p].action = a}
\* The calls that write the row of u.
Writers(u) == {p \in Kinds({"chat", "override"}) : Speaker(p) = u} \cup Kind("syncStates")

\* The strikes that leave an end of the ban in the row.
BansForATime(r) ==
  r # NoRule /\ \E x \in {r, ModRule[r].next} \ {NoRule} : ModRule[x].action = "ban_temp"

(***************************************************************************)
(* A ban by an admin stands until an admin lifts it, although strikes and  *)
(* the ticker keep writing the same row: unless a writer of the row        *)
(* overlapped, or a temporary ban has left its end in the row.             *)
(***************************************************************************)
BansStand ==
  \A u \in Chatter : \A p \in Overrides(u, "ban_perm") :
    Done(p) =>
      \/ state[u].banned
      \/ \E q \in Overrides(u, "unban") : fate[q] # "new" /\ ~Before(q, p)
      \/ \E q, r \in Writers(u) : Overlap(q, r) /\ ~(Before(q, p) /\ Before(r, p))
      \/ \E q \in Kind("chat") : Speaker(q) = u /\ fate[q] # "new" /\ BansForATime(job[q].rule)

(***************************************************************************)
(* What an admin decides about an image stands, whatever the scanner finds *)
(* later: unless the scan had begun, or another admin decides after.       *)
(***************************************************************************)
DecisionsStand ==
  \A p \in Kinds({"approveImage", "rejectImage"}) :
    Done(p) =>
      \/ image[job[p].image].action = IF job[p].kind = "approveImage" THEN "pass" ELSE "block"
      \/ \E q \in Kind("scanNext") : Overlap(p, q)
      \/ \E q \in Kinds({"approveImage", "rejectImage"}) :
           q # p /\ fate[q] # "new" /\ job[q].image = job[p].image /\ ~Before(q, p)

ModerationStands == BansStand /\ DecisionsStand
=============================================================================
