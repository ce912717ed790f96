------------------------------- MODULE Users --------------------------------
(***************************************************************************)
(* Users, who they are and whether they may take part.                     *)
(*                                                                         *)
(* Profiles: the rows of the users table, from registration (auth.go) on,  *)
(* and the profile with its entry in Redis (user.go).  Every update of a   *)
(* user writes the whole row.                                              *)
(*                                                                         *)
(* Verification and bans: internal/usecase/kyc.go, the admin's part of     *)
(* internal/usecase/dashboard.go, and the middleware that keeps banned     *)
(* users out.  No transaction spans the tables.                            *)
(***************************************************************************)
EXTENDS Calls, FiniteSetsExt

CONSTANTS User, Name,
          Members,    \* the users that have a row at the start
          NameOf,     \* NameOf[u]: the username of a member
          NoAccount

ASSUME ProfileAssumption == /\ Members \subseteq User
                            /\ NameOf \in [Members -> Name]
                            /\ \A u, v \in Members : NameOf[u] = NameOf[v] => u = v

VARIABLES account,  \* account[u]: the row of u
          cached    \* Redis user:profile:<u>
profileVars == <<account, cached>>

Account == [name : Name, verified : BOOLEAN]

ProfileTypeOK == /\ account \in [User -> Account \cup {NoAccount}]
                 /\ cached \in [User -> Account \cup {NoAccount}]

ProfileInit ==
  /\ account = [u \in User |-> IF u \in Members THEN [name |-> NameOf[u], verified |-> FALSE]
                               ELSE NoAccount]
  /\ cached = [u \in User |-> NoAccount]

RegisterRequest == [kind : {"register"}, user : User \ Members, name : Name]
ProfileRequest == [kind : {"profile"}, user : User, name : Name]
ProfileRequests == RegisterRequest \cup ProfileRequest
                   \cup [kind : {"getProfile", "deleteAccount"}, user : User]

Exists(u) == account[u] # NoAccount
ExistsByUsername(n) == \E u \in User : Exists(u) /\ account[u].name = n

\* UNIQUE (username).
Insertable(u, r) == \A v \in User \ {u} : Exists(v) => account[v].name # r.name
Write(u, r) == account' = [account EXCEPT ![u] = r]

Register(p) ==
  /\ Asked(p, "register")
  /\ IF ExistsByUsername(job[p].name) \/ Exists(job[p].user) THEN Refuse(p)
     ELSE Begin(p, <<"createUser">>, [name |-> job[p].name, verified |-> FALSE])
  /\ UNCHANGED profileVars

CreateUser(p) ==
  /\ At(p, "createUser")
  /\ IF Insertable(job[p].user, seen[p]) THEN Write(job[p].user, seen[p]) /\ Continue(p)
     ELSE Stop(p) /\ UNCHANGED account
  /\ UNCHANGED cached

\* Mutant: the entry in Redis stays.
UpdateAndKeep(p) ==
  /\ Asked(p, "profile")
  /\ IF ~Exists(job[p].user) THEN Refuse(p)
     ELSE Begin(p, <<"nameTaken", "updateUser">>, account[job[p].user])
  /\ UNCHANGED profileVars

UpdateProfile(p) ==
  /\ Asked(p, "profile")
  /\ IF ~Exists(job[p].user) THEN Refuse(p)
     ELSE Begin(p, <<"nameTaken", "updateUser", "dropCached">>, account[job[p].user])
  /\ UNCHANGED profileVars

NameTaken(p) ==
  /\ At(p, "nameTaken")
  /\ IF ExistsByUsername(job[p].name) /\ job[p].name # seen[p].name THEN Stop(p)
     ELSE Hold(p, [seen[p] EXCEPT !.name = job[p].name])
  /\ UNCHANGED profileVars

\* UPDATE ... RETURNING: a row that is gone is an error too.
UpdateUser(p) ==
  /\ At(p, "updateUser")
  /\ IF Exists(job[p].user) /\ Insertable(job[p].user, seen[p])
     THEN Write(job[p].user, seen[p]) /\ Continue(p)
     ELSE Stop(p) /\ UNCHANGED account
  /\ UNCHANGED cached

DropCached(p) ==
  /\ At(p, "dropCached")
  /\ cached' = [cached EXCEPT ![job[p].user] = NoAccount]
  /\ Continue(p)
  /\ UNCHANGED account

GetProfile(p) ==
  /\ Asked(p, "getProfile")
  /\ IF cached[job[p].user] # NoAccount THEN Return(p)
     ELSE IF Exists(job[p].user) THEN Begin(p, <<"cacheProfile">>, account[job[p].user])
     ELSE Refuse(p)
  /\ UNCHANGED profileVars

CacheProfile(p) ==
  /\ At(p, "cacheProfile")
  /\ cached' = [cached EXCEPT ![job[p].user] = seen[p]]
  /\ Continue(p)
  /\ UNCHANGED account

DeleteAccount(p) ==
  /\ Asked(p, "deleteAccount")
  /\ Begin(p, <<"dropCached", "deleteUser">>, Nothing)
  /\ UNCHANGED profileVars

DeleteUser(p) ==
  /\ At(p, "deleteUser")
  /\ IF Exists(job[p].user) THEN Write(job[p].user, NoAccount) /\ Continue(p)
     ELSE Stop(p) /\ UNCHANGED account
  /\ UNCHANGED cached

ProfileStep(p) == \/ Register(p) \/ CreateUser(p)
                  \/ UpdateProfile(p) \/ NameTaken(p) \/ UpdateUser(p) \/ DropCached(p)
                  \/ GetProfile(p) \/ CacheProfile(p)
                  \/ DeleteAccount(p) \/ DeleteUser(p)

IgnoredProfile == {"dropCached", "cacheProfile"}

-----------------------------------------------------------------------------
VARIABLES kyc,       \* kyc[u]: the status of its row in kyc_verifications
          business,  \* the users with a row in agency_verifications
          banned,    \* the users with a row in banned_users
          live,      \* the hosts whose stream is live
          reports    \* the calls that have a row in reports
verificationVars == <<kyc, business, banned, live, reports>>

VerificationTypeOK == /\ kyc \in [User -> {"none", "pending", "approved", "rejected"}]
                      /\ business \subseteq User /\ banned \subseteq User /\ live \subseteq User
                      /\ reports \subseteq Proc

VerificationInit == /\ kyc = [u \in User |-> "none"]
                    /\ business = {} /\ banned = {} /\ live = {} /\ reports = {}

\* What the handlers let through; a submission that breaks the policy is
\* flagged, one from outside the allowed regions is refused.
SubmitKYCRequest == [kind : {"submitKYC"}, user : Members, flagged : BOOLEAN, allowed : BOOLEAN]
SubmitAgencyRequest == [kind : {"submitAgency"}, user : Members]
ApproveKYCRequest == [kind : {"verify"}, user : Members]
RejectKYCRequest == [kind : {"reject"}, user : Members]
BanPermanentRequest == [kind : {"banPermanent"}, user : Members]
BanUserRequest == [kind : {"banUser"}, user : Members]
UnbanUserRequest == [kind : {"unbanUser"}, user : Members]
TerminateRequest == [kind : {"terminate"}, user : Members]
ReportRequest == [kind : {"report"}, user : Members, severe : BOOLEAN, stream : BOOLEAN]
VerificationRequests ==
  SubmitKYCRequest \cup SubmitAgencyRequest \cup ApproveKYCRequest \cup RejectKYCRequest
  \cup BanPermanentRequest \cup BanUserRequest \cup UnbanUserRequest \cup TerminateRequest
  \cup ReportRequest \cup [kind : {"goLive"}, user : Members]

Subject(p) == job[p].user
Flagged(p) == job[p].flagged
IsAllowedCountry(p) == job[p].allowed
Submitted(u) == kyc[u] # "none"

TriggerPermanentBan == <<"ban", "readUser", "saveUser", "endLive">>

SubmitKYC(p) ==
  /\ Asked(p, "submitKYC")
  /\ IF Subject(p) \in banned \/ ~IsAllowedCountry(p) THEN Refuse(p)
     ELSE Begin(p, IF Flagged(p) THEN TriggerPermanentBan \o <<"refuse">>
                   ELSE <<"createKYC">>, Nothing)
  /\ UNCHANGED <<profileVars, verificationVars>>

\* A flagged submission answers with an error in the end.
Refused(p) == /\ At(p, "refuse") /\ Stop(p)
              /\ UNCHANGED <<profileVars, verificationVars>>

\* UNIQUE (user_id).
CreateKYC(p) ==
  /\ At(p, "createKYC")
  /\ IF kyc[Subject(p)] # "none" THEN Stop(p) /\ UNCHANGED kyc
     ELSE kyc' = [kyc EXCEPT ![Subject(p)] = "pending"] /\ Continue(p)
  /\ UNCHANGED <<profileVars, business, banned, live, reports>>

SubmitAgencyVerification(p) ==
  /\ Asked(p, "submitAgency")
  /\ IF Subject(p) \in banned THEN Refuse(p) ELSE Begin(p, <<"createAgencyVerification">>, Nothing)
  /\ UNCHANGED <<profileVars, verificationVars>>

CreateAgencyVerification(p) ==
  /\ At(p, "createAgencyVerification")
  /\ IF Subject(p) \in business THEN Stop(p) /\ UNCHANGED business
     ELSE business' = business \cup {Subject(p)} /\ Continue(p)
  /\ UNCHANGED <<profileVars, kyc, banned, live, reports>>

\* Neither looks at the status of the row, nor at banned_users.
VerifyKYC(p) ==
  /\ Asked(p, "verify")
  /\ IF ~Submitted(Subject(p)) THEN Refuse(p)
     ELSE Begin(p, <<"updateKYC", "readUser", "saveUser">>,
                [status |-> "approved"])
  /\ UNCHANGED <<profileVars, verificationVars>>

RejectKYC(p) ==
  /\ Asked(p, "reject")
  /\ IF ~Submitted(Subject(p)) THEN Refuse(p) ELSE Begin(p, <<"updateKYC">>, [status |-> "rejected"])
  /\ UNCHANGED <<profileVars, verificationVars>>

UpdateKYC(p) ==
  /\ At(p, "updateKYC")
  /\ kyc' = [kyc EXCEPT ![Subject(p)] = seen[p].status]
  /\ Continue(p)
  /\ UNCHANGED <<profileVars, business, banned, live, reports>>

\* The row is read, its is_verified set, and the row written back; when it
\* cannot be read or written the call goes on.
ReadUser(p) ==
  /\ At(p, "readUser")
  /\ IF Exists(Subject(p))
     THEN Hold(p, [account[Subject(p)] EXCEPT !.verified = job[p].kind = "verify"])
     ELSE Go(p, Tail(Tail(plan[p])), Nothing)
  /\ UNCHANGED <<profileVars, verificationVars>>

HoldsRow(p) == DOMAIN seen[p] = {"name", "verified"}

SaveUser(p) ==
  /\ At(p, "saveUser")
  /\ IF HoldsRow(p) /\ Exists(Subject(p)) /\ Insertable(Subject(p), seen[p])
     THEN Write(Subject(p), seen[p]) ELSE UNCHANGED account
  /\ Continue(p)
  /\ UNCHANGED <<cached, verificationVars>>

(***************************************************************************)
(* Bans, and the stream that ends with one                                 *)
(***************************************************************************)
BanPermanent(p) == /\ Asked(p, "banPermanent")
                   /\ Begin(p, TriggerPermanentBan, Nothing)
                   /\ UNCHANGED <<profileVars, verificationVars>>

BanUser(p) == /\ Asked(p, "banUser")
              /\ Begin(p, <<"ban", "endLive">>, Nothing)
              /\ UNCHANGED <<profileVars, verificationVars>>

InsertBan(p) == /\ At(p, "ban")
                /\ banned' = banned \cup {Subject(p)}
                /\ Continue(p)
                /\ UNCHANGED <<profileVars, kyc, business, live, reports>>

EndLive(p) == /\ At(p, "endLive")
              /\ live' = live \ {Subject(p)}
              /\ Continue(p)
              /\ UNCHANGED <<profileVars, kyc, business, banned, reports>>

UnbanUser(p) ==
  /\ Asked(p, "unbanUser")
  /\ IF Subject(p) \in banned THEN banned' = banned \ {Subject(p)} /\ Return(p)
     ELSE Refuse(p) /\ UNCHANGED banned
  /\ UNCHANGED <<profileVars, kyc, business, live, reports>>

TerminateStream(p) ==
  /\ Asked(p, "terminate")
  /\ IF Subject(p) \in live THEN Begin(p, <<"endLive", "report">>, Nothing) ELSE Refuse(p)
  /\ UNCHANGED <<profileVars, verificationVars>>

SubmitReport(p) ==
  /\ Asked(p, "report")
  /\ Begin(p, (IF job[p].severe THEN <<"ban">> ELSE <<>>)
              \o (IF job[p].severe /\ job[p].stream THEN <<"endLive">> ELSE <<>>)
              \o <<"report">>, Nothing)
  /\ UNCHANGED <<profileVars, verificationVars>>

CreateReport(p) == /\ At(p, "report")
                   /\ reports' = reports \cup {p}
                   /\ Continue(p)
                   /\ UNCHANGED <<profileVars, kyc, business, banned, live>>

\* Mutant: the middleware lets everybody pass.
AnybodyGoesLive(p) == /\ Asked(p, "goLive") /\ Begin(p, <<"startStream">>, Nothing)
                      /\ UNCHANGED <<profileVars, verificationVars>>

\* A banned user does not get through the middleware to StartStream.
GoLive(p) ==
  /\ Asked(p, "goLive")
  /\ IF Subject(p) \in banned THEN Refuse(p) ELSE Begin(p, <<"startStream">>, Nothing)
  /\ UNCHANGED <<profileVars, verificationVars>>

StartStream(p) == /\ At(p, "startStream")
                  /\ live' = live \cup {Subject(p)}
                  /\ Continue(p)
                  /\ UNCHANGED <<profileVars, kyc, business, banned, reports>>

VerificationStep(p) ==
  \/ SubmitKYC(p) \/ Refused(p) \/ CreateKYC(p)
  \/ SubmitAgencyVerification(p) \/ CreateAgencyVerification(p)
  \/ VerifyKYC(p) \/ RejectKYC(p) \/ UpdateKYC(p) \/ ReadUser(p) \/ SaveUser(p)
  \/ BanPermanent(p) \/ BanUser(p) \/ InsertBan(p) \/ EndLive(p) \/ UnbanUser(p)
  \/ TerminateStream(p) \/ SubmitReport(p) \/ CreateReport(p)
  \/ GoLive(p) \/ StartStream(p)

\* The statements of p whose errors the code ignores.
IgnoredVerification(p) ==
  {"saveUser", "readUser"}
  \cup CASE job[p].kind = "terminate" -> {"report"}
         [] job[p].kind = "report" -> {"ban", "endLive"}
         [] OTHER -> {"endLive"}

-----------------------------------------------------------------------------
About(u, S) == {p \in Kinds(S) : job[p].user = u /\ fate[p] # "new"}
Bans(u) == {p \in About(u, {"submitKYC"}) : job[p].flagged /\ job[p].allowed}
           \cup About(u, {"banPermanent"})
BanCalls(u) == Bans(u) \cup About(u, {"banUser"}) \cup {p \in About(u, {"report"}) : job[p].severe}

\* b has run to its end: a submission that was refused before it had banned
\* anybody came after the beginning of another ban.
Banned(u, b) == \/ Done(b)
                \/ /\ fate[b] = "failed" /\ job[b].kind = "submitKYC"
                   /\ \A a \in BanCalls(u) \ {b} : Before(b, a)

(***************************************************************************)
(* What a ban promises and an approval is for, over the order of the calls:*)
(* a user banned for ever is not verified, unless an approval came after   *)
(* the ban or ran beside it, or a profile update wrote back a row read     *)
(* before it; a banned host is off the air unless it was going live when   *)
(* the ban came, or the ban was one that does not end the stream; and no   *)
(* user is verified without an approval.                                   *)
(***************************************************************************)
BanOutlasts(u, b) ==
  Banned(u, b) /\ u \in banned /\ faults = 0 =>
    \/ ~Exists(u) \/ ~account[u].verified
    \/ \E v \in About(u, {"verify"}) : ~Before(v, b)
    \/ \E v \in About(u, {"profile", "verify", "banPermanent", "submitKYC"}) : Overlap(v, b)

OffTheAir(u) ==
  u \in banned /\ u \in live /\ faults = 0 =>
    \/ \E p \in BanCalls(u) :
         \/ fate[p] = "running"
         \/ job[p].kind = "report" /\ ~job[p].stream
         \/ \E g \in About(u, {"goLive"}) : Overlap(p, g)

BansHold == \A u \in User :
  /\ \A b \in Bans(u) : BanOutlasts(u, b)
  /\ OffTheAir(u)
  /\ Exists(u) /\ account[u].verified => About(u, {"verify"}) # {}

Writing(u) == About(u, {"profile", "deleteAccount", "verify", "banPermanent", "submitKYC"})

(***************************************************************************)
(* The profile in Redis shows the name of the row, once nobody is writing  *)
(* it: unless a read and a write of it overlapped, or the entry could not  *)
(* be dropped.                                                             *)
(***************************************************************************)
CacheFollowsRow ==
  \A u \in User :
    (cached[u] # NoAccount /\ \A p \in Writing(u) : p \in Ended) =>
      \/ Exists(u) /\ cached[u].name = account[u].name
      \/ faults > 0
      \/ \E p \in Writing(u), q \in Kind("getProfile") : job[q].user = u /\ Overlap(p, q)

-----------------------------------------------------------------------------
(***************************************************************************)
(* Token pairs (internal/usecase/auth.go, pkg/auth/jwt.go) and the gates   *)
(* every request passes: the rate limit (pkg/ratelimit/limiter.go), the    *)
(* token, the ban.  The two tokens of a pair are what their claims say: the*)
(* user, the second they were made in, and how long they last.  The gate   *)
(* takes either of them.                                                   *)
(***************************************************************************)

CONSTANTS AccessLife,  \* ACCESS_TOKEN_EXPIRY, in ticks
          RefreshLife, \* REFRESH_TOKEN_EXPIRY
          Rate,        \* tokens a tick puts into the bucket
          Capacity,    \* its size
          NoToken

ASSUME SessionAssumption == /\ {AccessLife, RefreshLife, Rate, Capacity} \subseteq Nat
                            /\ IsFiniteSet(Proc) /\ Proc # {}

VARIABLES tokenRow,  \* tokenRow[t]: the row of the refresh token of pair t
          denied,    \* denied[t][b]: when blacklist:token of token b of pair t ends
          minted,    \* minted[p]: the pair that call p has made
          bucket,    \* ratelimit:tb of one address: its tokens and timestamp
          granted    \* history: the requests the rate limit has granted
sessionVars == <<tokenRow, denied, minted, bucket, granted>>

Token == [of : User, at : 0..MaxTime]
Bearer == {"access", "refresh"}

SessionTypeOK == /\ tokenRow \in [Token -> {"none", "active", "revoked"}]
                 /\ denied \in [Token -> [Bearer -> Nat]]
                 /\ minted \in [Proc -> Token \cup {NoToken}]
                 /\ bucket \in [tokens : 0..Capacity, last : Nat]
                 /\ granted \subseteq Proc

SessionInit == /\ tokenRow = [t \in Token |-> "none"]
               /\ denied = [t \in Token |-> [b \in Bearer |-> 0]]
               /\ minted = [p \in Proc |-> NoToken]
               /\ bucket = [tokens |-> Capacity, last |-> 0]
               /\ granted = {}

\* A client refreshes, logs out of and uses the pair a call before gave it,
\* with the token it chooses as bearer; the clock of the server that answers
\* may be ahead.
LoginRequest == [kind : {"login"}, user : User, password : BOOLEAN]
RefreshRequest == [kind : {"refresh"}, of : Proc]
Gated == {"request", "logout"}
GatedRequest == [kind : Gated, of : Proc, bearer : Bearer, ahead : Nat]
SessionRequests == LoginRequest \cup RefreshRequest \cup GatedRequest

Pair(p) == minted[job[p].of]
Sent(p) == job[p].bearer
Held(p) == Done(job[p].of) /\ Pair(p) # NoToken

\* Without a pair there is nothing to send.
GiveUp(p) == /\ fate[p] = "new" /\ job[p].kind \in Gated \cup {"refresh"}
             /\ fate[job[p].of] = "failed"
             /\ Refuse(p)
             /\ UNCHANGED sessionVars

Mint(p, u) == minted' = [minted EXCEPT ![p] = [of |-> u, at |-> now]]

Login(p) ==
  /\ Asked(p, "login")
  /\ IF Exists(job[p].user) /\ job[p].password
     THEN Mint(p, job[p].user) /\ Begin(p, <<"storeToken">>, Nothing)
     ELSE Refuse(p) /\ UNCHANGED minted
  /\ UNCHANGED <<tokenRow, denied, bucket, granted>>

\* ON CONFLICT (token_hash): the row of an equal token is active again.
StoreToken(p) ==
  /\ At(p, "storeToken")
  /\ tokenRow' = [tokenRow EXCEPT ![minted[p]] = "active"]
  /\ Continue(p)
  /\ UNCHANGED <<denied, minted, bucket, granted>>

Life(b) == IF b = "access" THEN AccessLife ELSE RefreshLife
Valid(t, b) == now < t.at + Life(b)

\* Mutant: the row is found but its revoked_at not looked at.
RefreshAny(p) ==
  /\ Asked(p, "refresh") /\ Held(p)
  /\ IF Valid(Pair(p), "refresh") /\ Exists(Pair(p).of) /\ tokenRow[Pair(p)] # "none"
     THEN Begin(p, <<"revoke", "mint", "storeToken">>, Nothing) ELSE Refuse(p)
  /\ UNCHANGED sessionVars

RefreshToken(p) ==
  /\ Asked(p, "refresh") /\ Held(p)
  /\ IF Valid(Pair(p), "refresh") /\ Exists(Pair(p).of) /\ tokenRow[Pair(p)] = "active"
     THEN Begin(p, <<"revoke", "mint", "storeToken">>, Nothing) ELSE Refuse(p)
  /\ UNCHANGED sessionVars

Revoke(p) ==
  /\ At(p, "revoke")
  /\ tokenRow' = [tokenRow EXCEPT ![Pair(p)] = IF @ = "none" THEN @ ELSE "revoked"]
  /\ Continue(p)
  /\ UNCHANGED <<denied, minted, bucket, granted>>

GenerateTokenPair(p) ==
  /\ At(p, "mint")
  /\ Mint(p, Pair(p).of)
  /\ Continue(p)
  /\ UNCHANGED <<tokenRow, denied, bucket, granted>>

\* Logout puts the bearer it came with on the list, if it has not expired by
\* now, for the life of an access token.
Deny(p) ==
  /\ At(p, "deny")
  /\ IF Valid(Pair(p), Sent(p))
     THEN denied' = [denied EXCEPT ![Pair(p)][Sent(p)] = now + AccessLife]
     ELSE UNCHANGED denied
  /\ Continue(p)
  /\ UNCHANGED <<tokenRow, minted, bucket, granted>>

(***************************************************************************)
(* The gates of a request, in the order of the router; what a logout does  *)
(* comes after them.                                                       *)
(***************************************************************************)
\* Mutant: the bucket is filled, but the time of it not kept.
FilledTwice(p) ==
  LET t == Min({Capacity, bucket.tokens + Rate * (now + job[p].ahead)}) IN
    IF t >= 1 THEN [allowed |-> TRUE, tokens |-> t - 1, last |-> 0]
    ELSE [allowed |-> FALSE, tokens |-> t, last |-> 0]

\* Mutant: what the time has put in is not cut at the capacity.
Uncapped(p) == [allowed |-> TRUE, tokens |-> bucket.tokens + Rate * now, last |-> now]

\* The script: both keys are written, whether the request is allowed or not.
TokenBucket(p) ==
  LET time == now + job[p].ahead
      delta == IF time > bucket.last THEN time - bucket.last ELSE 0
      filled == Min({Capacity, bucket.tokens + Rate * delta})
  IN [allowed |-> filled >= 1,
      tokens |-> IF filled >= 1 THEN filled - 1 ELSE filled,
      last |-> time]

Route(p) == IF job[p].kind = "logout" THEN <<"authenticate", "checkBan", "deny", "revoke">>
            ELSE <<"authenticate", "checkBan">>

Arrived(p) == (\E k \in Gated : Asked(p, k)) /\ Held(p)

RateLimit(p) ==
  /\ Arrived(p)
  /\ LET b == TokenBucket(p) IN
       /\ bucket' = [tokens |-> b.tokens, last |-> b.last]
       /\ IF b.allowed
          THEN granted' = granted \cup {p} /\ Begin(p, Route(p), Nothing)
          ELSE Refuse(p) /\ UNCHANGED granted
  /\ UNCHANGED <<tokenRow, denied, minted>>

\* When Redis does not answer, the request is let through.
LimiterDown(p) ==
  /\ Arrived(p)
  /\ faults < Faults /\ faults' = faults + 1
  /\ Follow(p, Route(p), Nothing)
  /\ past' = [past EXCEPT ![p] = Ended]
  /\ UNCHANGED sessionVars

\* Mutant: the blacklist is not asked.
Unquestioned(p) == /\ At(p, "authenticate")
                   /\ IF Valid(Pair(p), Sent(p)) THEN Continue(p) ELSE Stop(p)
                   /\ UNCHANGED sessionVars

Authenticate(p) ==
  /\ At(p, "authenticate")
  /\ IF Valid(Pair(p), Sent(p)) /\ now >= denied[Pair(p)][Sent(p)] THEN Continue(p) ELSE Stop(p)
  /\ UNCHANGED sessionVars

CheckBan(p) ==
  /\ At(p, "checkBan")
  /\ IF Pair(p).of \in banned THEN Stop(p) ELSE Continue(p)
  /\ UNCHANGED sessionVars

SessionStep(p) == \/ GiveUp(p) \/ Login(p) \/ StoreToken(p) \/ RefreshToken(p) \/ Revoke(p)
                  \/ GenerateTokenPair(p) \/ Deny(p)
                  \/ RateLimit(p) \/ LimiterDown(p) \/ Authenticate(p) \/ CheckBan(p)

IgnoredSession == {"revoke", "deny", "checkBan"}

-----------------------------------------------------------------------------
Makes(p, t) == minted[p] = t /\ job[p].kind \in {"login", "refresh"}

(***************************************************************************)
(* A refresh token is exchanged once, and not after a logout: when it is   *)
(* exchanged all the same, the two calls overlapped, or an equal token was *)
(* made in its second by another call, or it could not be revoked.  Whoever*)
(* has logged out with an access token is not served with it again.  (With *)
(* the refresh token of the pair he is: it is a bearer like any other, and *)
(* only the bearer that came with the logout is put on the list.)          *)
(***************************************************************************)
ExchangedOnce ==
  \A p \in Kinds({"refresh", "logout"}), q \in Kind("refresh") :
    (Done(p) /\ Done(q) /\ Before(p, q) /\ Pair(p) = Pair(q)) =>
      \/ faults > 0
      \/ \E m \in Proc : m # job[p].of /\ Makes(m, Pair(p)) /\ ~Before(m, p)

LoggedOutIsOut ==
  faults = 0 =>
    \A p \in Kind("logout"), q \in Kinds(Gated) :
      (/\ Done(p) /\ Before(p, q) /\ Pair(p) = Pair(q)
       /\ Sent(p) = "access" /\ Sent(q) = "access") => ~Done(q)

TokensKeepTheirWord == ExchangedOnce /\ LoggedOutIsOut

(***************************************************************************)
(* The rate limit: a full bucket and what the time has put into it.  A     *)
(* server whose clock is ahead gives away the time it is ahead, each time  *)
(* one behind it has written the timestamp back.                           *)
(***************************************************************************)
Ahead(p) == IF job[p].kind \in Gated THEN job[p].ahead ELSE 0
Skew == Max({Ahead(p) : p \in Proc})
SlowRequests == {p \in Kinds(Gated) : fate[p] # "new" /\ Ahead(p) < Skew}

GrantsWithinRate ==
  Cardinality(granted) <= Capacity + Rate * (now + Skew * Cardinality(SlowRequests))
=============================================================================
