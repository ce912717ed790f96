------------------------------- MODULE Media -------------------------------
(***************************************************************************)
(* What users publish and what is said about it: videos, their transcoding *)
(* and protected playback (internal/usecase/vod.go, drm.go), short videos, *)
(* comments and likes.                                                     *)
(***************************************************************************)
EXTENDS Calls

CONSTANTS Fan, Creator,        \* who looks on, and who uploads
          Video, OldVideos,    \* OldVideos: the videos that are ready at the start
          Short, Comment, Content,
          Visibility, Public,
          TokenLife, MarkLife, KeepFor,  \* of a playback token, a watermarked file, a package
          NoVideo

ASSUME MediaAssumption == /\ Creator \in Fan /\ Public \in Visibility /\ OldVideos \subseteq Video
                          /\ {TokenLife, MarkLife, KeepFor} \subseteq Nat

VARIABLES
  vod,           \* vod[v]: the row of vod_media
  files,         \* files[v]: what the storage has of it
  playKey,       \* vod_drm_keys
  progress,      \* Redis vod:job:<v>:progress
  vodCache       \* Redis vod:detail:<v>
vodVars == <<vod, files, playKey, progress, vodCache>>

VARIABLES
  playToken,     \* playToken[p]: the token p was given
  marked,        \* marked[u]: of which video u's watermarked segment is
  leftover,      \* leftover[p]: when the file p has made is removed
  served         \* history: served[p], the video p was served a segment of
playVars == <<playToken, marked, leftover, served>>

VARIABLES short, shortLikes, shortComments   \* the row, its likes and comments
shortVars == <<short, shortLikes, shortComments>>

VARIABLES
  comment, commentLikes,
  contentLikes, likeKey     \* likes and Redis likes:count:<type>:<content>; NoVideo: not set
likeVars == <<comment, commentLikes, contentLikes, likeKey>>
mediaVars == <<vodVars, playVars, shortVars, likeVars>>

VodRow == [status : {"processing", "ready", "failed"}, visibility : Visibility, hls : BOOLEAN,
           deleted : BOOLEAN]
VodFiles == [original : BOOLEAN, hls : BOOLEAN, since : Nat]
ShortRow == [deleted : BOOLEAN, likes : Nat, comments : Nat, shares : Nat, views : Nat]

MediaTypeOK ==
  /\ \A v \in Video : /\ vod[v] # NoVideo => vod[v] \in VodRow
                      /\ vodCache[v] # NoVideo => vodCache[v] \in VodRow
  /\ files \in [Video -> VodFiles]
  /\ playKey \subseteq Video
  /\ progress \in [Video -> 0..100]
  /\ \A p \in Proc : playToken[p] # NoVideo => playToken[p] \in [user : Fan, until : Nat]
  /\ marked \in [Fan -> Video \cup {NoVideo}]
  /\ leftover \in [Proc -> Nat]
  /\ served \in [Proc -> Video \cup {NoVideo}]
  /\ \A s \in Short : short[s] # NoVideo => short[s] \in ShortRow
  /\ shortLikes \subseteq Short \X Fan
  /\ shortComments \in [Short -> Nat]
  /\ \A c \in Comment : comment[c] # NoVideo => comment[c] \in [deleted : BOOLEAN, likes : Nat]
  /\ commentLikes \subseteq Comment \X Fan
  /\ contentLikes \subseteq Content \X Fan
  /\ \A c \in Content : likeKey[c] # NoVideo => likeKey[c] \in [count : Nat]

OldRow == [status |-> "ready", visibility |-> Public, hls |-> TRUE, deleted |-> FALSE]

MediaInit ==
  /\ vod = [v \in Video |-> IF v \in OldVideos THEN OldRow ELSE NoVideo]
  /\ files = [v \in Video |-> [original |-> FALSE, hls |-> v \in OldVideos, since |-> 0]]
  /\ playKey = OldVideos
  /\ progress = [v \in Video |-> 0]
  /\ vodCache = [v \in Video |-> NoVideo]
  /\ playToken = [p \in Proc |-> NoVideo]
  /\ marked = [u \in Fan |-> NoVideo]
  /\ leftover = [p \in Proc |-> 0]
  /\ served = [p \in Proc |-> NoVideo]
  /\ short = [s \in Short |-> NoVideo]
  /\ shortLikes = {}
  /\ shortComments = [s \in Short |-> 0]
  /\ comment = [c \in Comment |-> NoVideo]
  /\ commentLikes = {} /\ contentLikes = {}
  /\ likeKey = [c \in Content |-> NoVideo]

UploadRequest == [kind : {"upload"}, video : Video, visibility : Visibility]
TranscodeJob == [kind : {"transcode"}, of : Proc]
CleanupJob == [kind : {"cleanVideos"}]
WatchRequest == [kind : {"watch"}, video : Video]
VisibilityRequest == [kind : {"publish"}, user : Fan, video : Video, visibility : Visibility]
RemoveRequest == [kind : {"removeVideo"}, user : Fan, video : Video]
TokenRequest == [kind : {"playToken"}, user : Fan, video : Video]
SegmentRequest == [kind : {"segment"}, of : Proc, video : Video]
ShortUpload == [kind : {"uploadShort"}, user : Fan, short : Short]
ShortLike == [kind : {"likeShort", "unlikeShort"}, user : Fan, short : Short]
ShortComment == [kind : {"commentShort"}, user : Fan, short : Short]
ShortCount == [kind : {"viewShort", "shareShort"}, user : Fan, short : Short]
ShortDelete == [kind : {"deleteShort"}, user : Fan, short : Short]
CommentRequest == [kind : {"comment"}, user : Fan, comment : Comment]
CommentEdit == [kind : {"editComment"}, user : Fan, comment : Comment]
CommentDelete == [kind : {"deleteComment"}, user : Fan, comment : Comment]
CommentLike == [kind : {"likeComment", "unlikeComment"}, user : Fan, comment : Comment]
LikeRequest == [kind : {"like", "unlike"}, user : Fan, content : Content]
CountRequest == [kind : {"countLikes"}, user : Fan, content : Content]
VideoRequests == UploadRequest \cup TranscodeJob \cup CleanupJob \cup WatchRequest
                 \cup VisibilityRequest \cup RemoveRequest \cup TokenRequest \cup SegmentRequest
ShortRequests == ShortUpload \cup ShortLike \cup ShortComment \cup ShortCount \cup ShortDelete
LikeRequests == CommentRequest \cup CommentEdit \cup CommentDelete \cup CommentLike
                \cup LikeRequest \cup CountRequest
MediaRequests == VideoRequests \cup ShortRequests \cup LikeRequests

-----------------------------------------------------------------------------
(* Videos.  A write puts back the whole row that was read, unless the video  *)
(* has been deleted meanwhile.                                               *)

There(v) == vod[v] # NoVideo /\ ~vod[v].deleted
VideoOf(p) == IF job[p].kind = "transcode" THEN job[job[p].of].video ELSE job[p].video
Restore(row, v) == IF There(v) THEN vod' = [vod EXCEPT ![v] = row] ELSE UNCHANGED vod
Show(p, n) == progress' = [progress EXCEPT ![VideoOf(p)] = n]

UploadVideo(p) ==
  /\ Asked(p, "upload")
  /\ files' = [files EXCEPT ![job[p].video].original = TRUE]
  /\ Begin(p, <<"createVOD", "submit">>, Nothing)
  /\ UNCHANGED <<vod, playKey, progress, vodCache>>

\* What was stored is deleted again when the row cannot be.
CreateVOD(p) ==
  /\ At(p, "createVOD")
  /\ \/ /\ vod' = [vod EXCEPT ![job[p].video] =
             [status |-> "processing", visibility |-> job[p].visibility, hls |-> FALSE, deleted |-> FALSE]]
        /\ Continue(p)
        /\ UNCHANGED files
     \/ /\ faults < Faults
        /\ faults' = faults + 1 /\ Break(p) /\ UNCHANGED past
        /\ files' = [files EXCEPT ![job[p].video].original = FALSE]
        /\ UNCHANGED vod
  /\ UNCHANGED <<playKey, progress, vodCache>>

\* To the queue, or to a goroutine if the queue does not take it.
SubmitTranscode(p) ==
  /\ At(p, "submit")
  /\ Show(p, 5)
  /\ Continue(p)
  /\ UNCHANGED <<vod, files, playKey, vodCache>>

\* The file that was uploaded is on this machine until the first attempt ends.
ProcessVideo(p) ==
  /\ Asked(p, "transcode")
  /\ job[p].of \in Ended
  /\ IF There(VideoOf(p))
     THEN Begin(p, <<"transcode", "saveKey", "package", "dropOriginal", "saveReady">>, vod[VideoOf(p)])
     ELSE Refuse(p)
  /\ Show(p, IF There(VideoOf(p)) THEN 10 ELSE progress[VideoOf(p)])
  /\ UNCHANGED <<vod, files, playKey, vodCache>>

\* Metadata and thumbnails; whatever fails marks the video as failed, and
\* every further attempt fails for want of the file.
Transcode(p) ==
  /\ At(p, "transcode")
  /\ Show(p, 20)
  /\ Continue(p)
  /\ UNCHANGED <<vod, files, playKey, vodCache>>

SavePlayKey(p) ==
  /\ At(p, "saveKey")
  /\ playKey' = playKey \cup {VideoOf(p)}
  /\ Show(p, 25)
  /\ Continue(p)
  /\ UNCHANGED <<vod, files, vodCache>>

\* Encrypted with the key of the row; files that cannot be stored are left out.
Package(p) ==
  /\ At(p, "package")
  /\ \/ /\ files' = [files EXCEPT ![VideoOf(p)].hls = TRUE, ![VideoOf(p)].since = now]
        /\ Hold(p, [seen[p] EXCEPT !.hls = TRUE])
     \/ /\ faults < Faults
        /\ faults' = faults + 1
        /\ Follow(p, Tail(plan[p]), seen[p])
        /\ UNCHANGED <<past, files>>
  /\ Show(p, 90)
  /\ UNCHANGED <<vod, playKey, vodCache>>

DropOriginal(p) ==
  /\ At(p, "dropOriginal")
  /\ files' = [files EXCEPT ![VideoOf(p)].original = FALSE]
  /\ Show(p, 95)
  /\ Continue(p)
  /\ UNCHANGED <<vod, playKey, vodCache>>

\* A video that has been deleted ends the attempt with an error.
SaveReady(p) ==
  /\ At(p, "saveReady")
  /\ Restore([seen[p] EXCEPT !.status = "ready"], VideoOf(p))
  /\ IF There(VideoOf(p)) THEN Show(p, 100) /\ Continue(p) ELSE UNCHANGED progress /\ Stop(p)
  /\ UNCHANGED <<files, playKey, vodCache>>

\* A statement fails.
FailTranscode(p) ==
  /\ fate[p] = "running" /\ job[p].kind = "transcode"
  /\ faults < Faults
  /\ faults' = faults + 1
  /\ \/ Head(plan[p]) \in {"transcode", "saveKey", "package"}
        /\ Follow(p, <<"markFailed", "retry">>, seen[p])
     \/ Head(plan[p]) = "saveReady" /\ Follow(p, <<"retry">>, seen[p])
  /\ UNCHANGED <<past, vodVars>>

MarkAsFailed(p) ==
  /\ At(p, "markFailed")
  /\ Restore([seen[p] EXCEPT !.status = "failed"], VideoOf(p))
  /\ Show(p, 0)
  /\ IF Tail(plan[p]) = <<>> THEN Stop(p) ELSE Continue(p)
  /\ UNCHANGED <<files, playKey, vodCache>>

\* The last attempt stands for all that follow the first.
RetryTranscode(p) ==
  /\ At(p, "retry")
  /\ IF There(VideoOf(p)) THEN Go(p, <<"markFailed">>, vod[VideoOf(p)]) ELSE Stop(p)
  /\ UNCHANGED vodVars

\* Once a day, on the files alone.
CleanVideos(p) ==
  /\ Asked(p, "cleanVideos")
  /\ files' = [v \in Video |-> IF files[v].hls /\ files[v].since + KeepFor < now
                               THEN [files[v] EXCEPT !.original = FALSE, !.hls = FALSE] ELSE files[v]]
  /\ Return(p)
  /\ UNCHANGED <<vod, playKey, progress, vodCache>>

Watching(v) == {q \in Kind("watch") : job[q].video = v /\ fate[q] = "running"}

\* From the cache, from a call on its way to the same row, or from the row.
GetVODDetail(p) ==
  /\ Asked(p, "watch")
  /\ IF vodCache[job[p].video] # NoVideo THEN Return(p)
     ELSE \/ Watching(job[p].video) # {} /\ Return(p)
          \/ ~There(job[p].video) /\ Refuse(p)
          \/ There(job[p].video) /\ Begin(p, <<"cacheVOD">>, vod[job[p].video])
  /\ UNCHANGED vodVars

CacheVOD(p) ==
  /\ At(p, "cacheVOD")
  /\ vodCache' = [vodCache EXCEPT ![job[p].video] = seen[p]]
  /\ Continue(p)
  /\ UNCHANGED <<vod, files, playKey, progress>>

\* Mutant: the cached row stays.
KeepCached(p) ==
  /\ Asked(p, "publish")
  /\ IF There(job[p].video) /\ job[p].user = Creator
     THEN Begin(p, <<"saveVisibility">>, vod[job[p].video]) ELSE Refuse(p)
  /\ UNCHANGED vodVars

UpdateVisibility(p) ==
  /\ Asked(p, "publish")
  /\ IF There(job[p].video) /\ job[p].user = Creator
     THEN Begin(p, <<"saveVisibility", "dropVOD">>, vod[job[p].video]) ELSE Refuse(p)
  /\ UNCHANGED vodVars

SaveVisibility(p) ==
  /\ At(p, "saveVisibility")
  /\ Restore([seen[p] EXCEPT !.visibility = job[p].visibility], job[p].video)
  /\ IF There(job[p].video) THEN Continue(p) ELSE Stop(p)
  /\ UNCHANGED <<files, playKey, progress, vodCache>>

DeleteVOD(p) ==
  /\ Asked(p, "removeVideo")
  /\ IF There(job[p].video) /\ job[p].user = Creator
     THEN Begin(p, <<"deleteVOD", "dropVOD">>, Nothing) ELSE Refuse(p)
  /\ UNCHANGED vodVars

SoftDeleteVOD(p) ==
  /\ At(p, "deleteVOD")
  /\ vod' = [vod EXCEPT ![job[p].video].deleted = TRUE]
  /\ Continue(p)
  /\ UNCHANGED <<files, playKey, progress, vodCache>>

DropVOD(p) ==
  /\ At(p, "dropVOD")
  /\ vodCache' = [vodCache EXCEPT ![job[p].video] = NoVideo]
  /\ Continue(p)
  /\ UNCHANGED <<vod, files, playKey, progress>>

-----------------------------------------------------------------------------
(* Protected playback.  The watermarked segment of a user is one file,       *)
(* whichever video it is of, and goes some time after it was made.           *)

GeneratePlaybackToken(p) ==
  /\ Asked(p, "playToken")
  /\ IF There(job[p].video)
     THEN playToken' = [playToken EXCEPT ![p] = [user |-> job[p].user, until |-> now + TokenLife]] /\ Return(p)
     ELSE UNCHANGED playToken /\ Refuse(p)
  /\ UNCHANGED <<marked, leftover, served>>

MayPlay(p) == /\ playToken[job[p].of] # NoVideo /\ now <= playToken[job[p].of].until
Viewer(p) == playToken[job[p].of].user

\* Whatever video the token was given for.
ServeSegment(p) ==
  /\ Asked(p, "segment")
  /\ job[p].of \in Ended
  /\ IF MayPlay(p) /\ files[job[p].video].hls THEN Begin(p, <<"watermark", "serve">>, [marked |-> TRUE])
     ELSE Refuse(p)
  /\ UNCHANGED playVars

\* Without a watermark the segment itself is served.
WatermarkSegment(p) ==
  /\ At(p, "watermark")
  /\ \/ /\ files[job[p].video].hls
        /\ marked' = [marked EXCEPT ![Viewer(p)] = job[p].video]
        /\ leftover' = [leftover EXCEPT ![p] = now + MarkLife]
        /\ Continue(p)
     \/ /\ ~files[job[p].video].hls
        /\ Hold(p, [marked |-> FALSE])
        /\ UNCHANGED <<marked, leftover>>
     \/ /\ faults < Faults
        /\ faults' = faults + 1
        /\ Follow(p, Tail(plan[p]), [marked |-> FALSE])
        /\ UNCHANGED <<past, marked, leftover>>
  /\ UNCHANGED <<playToken, served>>

ServeLocalFile(p) ==
  /\ At(p, "serve")
  /\ LET file == IF seen[p].marked THEN marked[Viewer(p)]
                 ELSE IF files[job[p].video].hls THEN job[p].video ELSE NoVideo
     IN /\ served' = [served EXCEPT ![p] = file]
        /\ IF file = NoVideo THEN Stop(p) ELSE Continue(p)
  /\ UNCHANGED <<playToken, marked, leftover>>

\* The goroutine of p, some time after.
RemoveMarked(p) ==
  /\ leftover[p] # 0 /\ leftover[p] <= now
  /\ leftover' = [leftover EXCEPT ![p] = 0]
  /\ marked' = [marked EXCEPT ![Viewer(p)] = NoVideo]
  /\ UNCHANGED <<callVars, playToken, served>>

-----------------------------------------------------------------------------
(* Short videos.  A like is a row and a count, one after the other.          *)

Add(field, s) == short' = [short EXCEPT ![s][field] = @ + 1]

UploadShort(p) ==
  /\ Asked(p, "uploadShort")
  /\ short' = [short EXCEPT ![job[p].short] =
       [deleted |-> FALSE, likes |-> 0, comments |-> 0, shares |-> 0, views |-> 0]]
  /\ Return(p)
  /\ UNCHANGED <<shortLikes, shortComments>>

\* A view or a share is a count alone; of no row if there is none.
CountShort(p) ==
  /\ Asked(p, "viewShort") \/ Asked(p, "shareShort")
  /\ IF short[job[p].short] = NoVideo THEN UNCHANGED short
     ELSE Add(IF job[p].kind = "viewShort" THEN "views" ELSE "shares", job[p].short)
  /\ Return(p)
  /\ UNCHANGED <<shortLikes, shortComments>>

GetShortByID(s) == short[s]

DeleteShort(p) ==
  /\ Asked(p, "deleteShort")
  /\ IF GetShortByID(job[p].short) # NoVideo /\ job[p].user = Creator
     THEN short' = [short EXCEPT ![job[p].short].deleted = TRUE] /\ Return(p)
     ELSE UNCHANGED short /\ Refuse(p)
  /\ UNCHANGED <<shortLikes, shortComments>>

\* A like that is there is counted again.
LikeShort(p) ==
  /\ Asked(p, "likeShort")
  /\ IF short[job[p].short] = NoVideo THEN Refuse(p) /\ UNCHANGED shortLikes
     ELSE /\ shortLikes' = shortLikes \cup {<<job[p].short, job[p].user>>}
          /\ Begin(p, <<"countShortLike">>, Nothing)
  /\ UNCHANGED <<short, shortComments>>

CountShortLike(p) ==
  /\ At(p, "countShortLike")
  /\ Add("likes", job[p].short)
  /\ Continue(p)
  /\ UNCHANGED <<shortLikes, shortComments>>

\* Mutant: what was not there is taken off the count too.
UnlikeAnyShort(p) ==
  /\ Asked(p, "unlikeShort")
  /\ shortLikes' = shortLikes \ {<<job[p].short, job[p].user>>}
  /\ IF short[job[p].short] = NoVideo THEN Return(p) ELSE Begin(p, <<"uncountShortLike">>, Nothing)
  /\ UNCHANGED <<short, shortComments>>

UnlikeShort(p) ==
  /\ Asked(p, "unlikeShort")
  /\ shortLikes' = shortLikes \ {<<job[p].short, job[p].user>>}
  /\ IF <<job[p].short, job[p].user>> \in shortLikes THEN Begin(p, <<"uncountShortLike">>, Nothing)
     ELSE Return(p)
  /\ UNCHANGED <<short, shortComments>>

UncountShortLike(p) ==
  /\ At(p, "uncountShortLike")
  /\ short' = [short EXCEPT ![job[p].short].likes = IF @ > 0 THEN @ - 1 ELSE 0]
  /\ Continue(p)
  /\ UNCHANGED <<shortLikes, shortComments>>

CommentShort(p) ==
  /\ Asked(p, "commentShort")
  /\ IF short[job[p].short] = NoVideo THEN Refuse(p) /\ UNCHANGED shortComments
     ELSE /\ shortComments' = [shortComments EXCEPT ![job[p].short] = @ + 1]
          /\ Begin(p, <<"countShortComment">>, Nothing)
  /\ UNCHANGED <<short, shortLikes>>

CountShortComment(p) ==
  /\ At(p, "countShortComment")
  /\ Add("comments", job[p].short)
  /\ Continue(p)
  /\ UNCHANGED <<shortLikes, shortComments>>

-----------------------------------------------------------------------------
(* Comments and likes.  An edit puts back the row that it has read; no count *)
(* goes down.                                                                *)

Commented(c) == comment[c] # NoVideo /\ ~comment[c].deleted

CreateComment(p) ==
  /\ Asked(p, "comment")
  /\ comment' = [comment EXCEPT ![job[p].comment] = [deleted |-> FALSE, likes |-> 0]]
  /\ Return(p)
  /\ UNCHANGED <<commentLikes, contentLikes, likeKey>>

EditComment(p) ==
  /\ Asked(p, "editComment")
  /\ IF Commented(job[p].comment) THEN Begin(p, <<"updateComment">>, Nothing) ELSE Refuse(p)
  /\ UNCHANGED likeVars

UpdateComment(p) ==
  /\ At(p, "updateComment")
  /\ comment' = [comment EXCEPT ![job[p].comment].deleted = FALSE]
  /\ Continue(p)
  /\ UNCHANGED <<commentLikes, contentLikes, likeKey>>

DeleteComment(p) ==
  /\ Asked(p, "deleteComment")
  /\ IF comment[job[p].comment] = NoVideo THEN UNCHANGED comment
     ELSE comment' = [comment EXCEPT ![job[p].comment].deleted = TRUE]
  /\ Return(p)
  /\ UNCHANGED <<commentLikes, contentLikes, likeKey>>

\* Mutant: who has liked it likes it again.
LikeCommentAgain(p) ==
  /\ Asked(p, "likeComment")
  /\ Begin(p, <<"insertLike", "countLike">>, Nothing)
  /\ UNCHANGED likeVars

LikeComment(p) ==
  /\ Asked(p, "likeComment")
  /\ IF <<job[p].comment, job[p].user>> \in commentLikes THEN Refuse(p)
     ELSE Begin(p, <<"insertLike", "countLike">>, Nothing)
  /\ UNCHANGED likeVars

LikeContent(p) ==
  /\ Asked(p, "like")
  /\ IF <<job[p].content, job[p].user>> \in contentLikes THEN Refuse(p)
     ELSE Begin(p, <<"insertLike", "countLike">>, Nothing)
  /\ UNCHANGED likeVars

\* A comment must exist; a like that is there is no error.
InsertLike(p) ==
  /\ At(p, "insertLike")
  /\ \/ /\ job[p].kind = "like"
        /\ contentLikes' = contentLikes \cup {<<job[p].content, job[p].user>>}
        /\ Continue(p)
        /\ UNCHANGED commentLikes
     \/ /\ job[p].kind = "likeComment" /\ comment[job[p].comment] # NoVideo
        /\ commentLikes' = commentLikes \cup {<<job[p].comment, job[p].user>>}
        /\ Continue(p)
        /\ UNCHANGED contentLikes
     \/ /\ job[p].kind = "likeComment" /\ comment[job[p].comment] = NoVideo
        /\ Stop(p)
        /\ UNCHANGED <<commentLikes, contentLikes>>
  /\ UNCHANGED <<comment, likeKey>>

CountLike(p) ==
  /\ At(p, "countLike")
  /\ \/ /\ job[p].kind = "likeComment"
        /\ comment' = [comment EXCEPT ![job[p].comment].likes = @ + 1]
        /\ UNCHANGED likeKey
     \/ /\ job[p].kind = "like"
        /\ LET key == likeKey[job[p].content] IN
             likeKey' = [likeKey EXCEPT ![job[p].content] =
                           [count |-> (IF key = NoVideo THEN 0 ELSE key.count) + 1]]
        /\ UNCHANGED comment
  /\ Continue(p)
  /\ UNCHANGED <<commentLikes, contentLikes>>

Unlike(p) ==
  /\ \/ Asked(p, "unlikeComment") /\ commentLikes' = commentLikes \ {<<job[p].comment, job[p].user>>}
        /\ UNCHANGED contentLikes
     \/ Asked(p, "unlike") /\ contentLikes' = contentLikes \ {<<job[p].content, job[p].user>>}
        /\ UNCHANGED commentLikes
  /\ Return(p)
  /\ UNCHANGED <<comment, likeKey>>

LikesOf(c, S) == Cardinality({l \in S : l[1] = c})

GetLikeCount(p) ==
  /\ Asked(p, "countLikes")
  /\ IF likeKey[job[p].content] # NoVideo THEN Return(p)
     ELSE Begin(p, <<"setLikes">>, [count |-> LikesOf(job[p].content, contentLikes)])
  /\ UNCHANGED likeVars

SetLikes(p) ==
  /\ At(p, "setLikes")
  /\ likeKey' = [likeKey EXCEPT ![job[p].content] = seen[p]]
  /\ Continue(p)
  /\ UNCHANGED <<comment, commentLikes, contentLikes>>

-----------------------------------------------------------------------------
MediaStep(p) ==
  \/ /\ \/ UploadVideo(p) \/ CreateVOD(p) \/ SubmitTranscode(p) \/ ProcessVideo(p) \/ Transcode(p)
        \/ SavePlayKey(p) \/ Package(p) \/ DropOriginal(p) \/ SaveReady(p)
        \/ FailTranscode(p) \/ MarkAsFailed(p) \/ RetryTranscode(p)
        \/ CleanVideos(p) \/ GetVODDetail(p) \/ CacheVOD(p)
        \/ UpdateVisibility(p) \/ SaveVisibility(p) \/ DeleteVOD(p) \/ SoftDeleteVOD(p) \/ DropVOD(p)
     /\ UNCHANGED <<playVars, shortVars, likeVars>>
  \/ /\ \/ GeneratePlaybackToken(p) \/ ServeSegment(p) \/ WatermarkSegment(p) \/ ServeLocalFile(p)
        \/ RemoveMarked(p)
     /\ UNCHANGED <<vodVars, shortVars, likeVars>>
  \/ /\ \/ UploadShort(p) \/ CountShort(p) \/ DeleteShort(p) \/ LikeShort(p) \/ CountShortLike(p)
        \/ UnlikeShort(p) \/ UncountShortLike(p) \/ CommentShort(p) \/ CountShortComment(p)
     /\ UNCHANGED <<vodVars, playVars, likeVars>>
  \/ /\ \/ CreateComment(p) \/ EditComment(p) \/ UpdateComment(p) \/ DeleteComment(p)
        \/ LikeComment(p) \/ LikeContent(p) \/ InsertLike(p) \/ CountLike(p) \/ Unlike(p)
        \/ GetLikeCount(p) \/ SetLikes(p)
     /\ UNCHANGED <<vodVars, playVars, shortVars>>

\* What the code goes on after.  A content's count in Redis is not waited for.
IgnoredMedia == {"cacheVOD", "dropVOD", "dropOriginal", "countLike", "setLikes"}

-----------------------------------------------------------------------------
OfVideo(k, v) == {p \in Kind(k) : VideoOf(p) = v /\ fate[p] # "new"}
Meets(S, T) == \E p \in S, q \in T : Overlap(p, q)

(***************************************************************************)
(* The visibility that was answered stands until another call for it       *)
(* begins, unless the transcoding overlapped; a video that has become      *)
(* ready stays so, unless a change of visibility overlapped the            *)
(* transcoding.                                                            *)
(***************************************************************************)
VisibilityStands ==
  \A p \in Kind("publish") :
    (Done(p) /\ vod[job[p].video].visibility # job[p].visibility) =>
      \/ \E q \in OfVideo("publish", job[p].video) \ {p} : ~Before(q, p)
      \/ Meets({p}, OfVideo("transcode", job[p].video))
TranscodeStands ==
  \A p \in Kind("transcode") :
    (Done(p) /\ vod[VideoOf(p)].status # "ready") => Meets({p}, OfVideo("publish", VideoOf(p)))

(***************************************************************************)
(* A video somebody has not deleted is in the storage: as it was uploaded  *)
(* or as the package that its row names, with the key to play it.  Not so  *)
(* after a statement that failed, the age at which a package is removed,   *)
(* or a change of visibility while it was transcoded.                      *)
(***************************************************************************)
VideosKept ==
  \A v \in Video : There(v) =>
    \/ files[v].original
    \/ vod[v].hls /\ files[v].hls /\ v \in playKey
    \/ files[v].hls /\ \E p \in OfVideo("transcode", v) : fate[p] = "running"
    \/ faults > 0 \/ Kind("cleanVideos") # {}
    \/ Meets(OfVideo("publish", v), OfVideo("transcode", v))

(***************************************************************************)
(* The cached video is the row, unless it was read while the row was being *)
(* changed, the transcoding ended since, or a statement failed.            *)
(***************************************************************************)
VideoCacheFollows ==
  \A v \in Video :
    (vodCache[v] # NoVideo /\ vodCache[v] # vod[v]) =>
      LET writers == OfVideo("publish", v) \cup OfVideo("removeVideo", v) IN
      \/ faults > 0
      \/ Meets(OfVideo("watch", v), writers)
      \/ \E q \in writers : fate[q] = "running"
      \/ \E q \in OfVideo("transcode", v), r \in OfVideo("watch", v) : ~Before(q, r)

(***************************************************************************)
(* A viewer is served a segment of the video they asked for, unless they   *)
(* asked for one of another video at the same time.                        *)
(***************************************************************************)
ServedIsAsked ==
  \A p \in Kind("segment") :
    (served[p] \notin {NoVideo, job[p].video}) =>
      \E q \in Kind("segment") \ {p} :
        /\ Overlap(p, q) /\ Viewer(q) = Viewer(p) /\ job[q].video = served[p]

VideosHold == /\ VisibilityStands /\ TranscodeStands /\ VideosKept
              /\ VideoCacheFollows /\ ServedIsAsked

(***************************************************************************)
(* A comment that was there when it was deleted stays deleted unless an    *)
(* edit overlapped.                                                        *)
(***************************************************************************)
CommentsStand ==
  \A p \in Kind("deleteComment") :
    (Done(p) /\ Commented(job[p].comment)) =>
      \/ \E q \in Kind("editComment") : job[q].comment = job[p].comment /\ Overlap(p, q)
      \/ \E q \in Kind("comment") : job[q].comment = job[p].comment /\ ~Before(q, p)

(***************************************************************************)
(* When nothing is under way and nothing has failed, no count is less than *)
(* the likes or comments it counts, unless a content's count was read      *)
(* while it was liked; and it is more only after one user's like was       *)
(* repeated, met another call for it, or, for comments and contents, was   *)
(* taken back.                                                             *)
(***************************************************************************)
ByOne(kinds, f, x) ==
  \E p, q \in Kinds(kinds) : /\ p # q /\ fate[p] # "new" /\ fate[q] # "new"
                             /\ job[p].user = job[q].user /\ job[p][f] = x /\ job[q][f] = x
Together(k, l, f, x) ==
  \E p \in Kind(k), q \in Kind(l) : Overlap(p, q) /\ job[p][f] = x /\ job[q][f] = x
LikesCounted ==
  (faults = 0 /\ \A p \in Proc : fate[p] # "running") =>
    /\ \A s \in Short : short[s] # NoVideo =>
         LET rows == LikesOf(s, shortLikes) IN
         /\ short[s].likes >= rows
         /\ short[s].likes > rows =>
              ByOne({"likeShort"}, "short", s) \/ Together("likeShort", "unlikeShort", "short", s)
         /\ short[s].comments = shortComments[s]
    /\ \A c \in Comment : comment[c] # NoVideo =>
         LET rows == LikesOf(c, commentLikes) IN
         /\ comment[c].likes >= rows
         /\ comment[c].likes > rows =>
              \/ Together("likeComment", "likeComment", "comment", c)
              \/ \E p \in Kind("unlikeComment") : job[p].comment = c /\ Done(p)
    /\ \A c \in Content : likeKey[c] # NoVideo =>
         LET rows == LikesOf(c, contentLikes) IN
         /\ likeKey[c].count < rows => Together("countLikes", "like", "content", c)
         /\ likeKey[c].count > rows =>
              \/ Together("like", "like", "content", c) \/ Together("countLikes", "like", "content", c)
              \/ \E p \in Kind("unlike") : job[p].content = c /\ Done(p)

LikesHold == CommentsStand /\ LikesCounted
=============================================================================
