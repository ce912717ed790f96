---------------------------- MODULE Memberships -----------------------------
(***************************************************************************)
(* What a user belongs to for money: VIP levels (internal/usecase/vip.go), *)
(* with the hourly job that renews them, royal families                    *)
(* (internal/usecase/royal_family.go) and clip plans                       *)
(* (internal/usecase/clip_subscription.go).  No transaction is used.       *)
(***************************************************************************)
EXTENDS Requests

CONSTANTS OldVip, OldVipUser, \* a VIP row within its last hour at the start, and whose it is
          VipPrice,           \* VipPrice[l]: the price of level l, by sort_order
          PlanPrice, PromoPrice, PromoUser, \* the clip plan; PromoUser is a host
          Family, FamilyHost, \* the families there may be, and the host of each
          OldFamilies,        \* the families there are at the start, with their owners
          Seats,              \* Seats[l]: max_members of a family of level l
          LevelTwoAt          \* the contributions that make a family's level 2

ASSUME MembershipAssumption ==
  /\ OldVip \notin Session /\ OldVipUser \in User
  /\ DOMAIN VipPrice \subseteq Nat /\ \A l \in DOMAIN VipPrice : VipPrice[l] \in Nat
  /\ {PlanPrice, PromoPrice, LevelTwoAt} \subseteq Nat
  /\ FamilyHost \in [Family -> User] /\ OldFamilies \subseteq Family
  /\ Seats \in [{1, 2} -> Nat]

VARIABLES vip,      \* vip[r]: the row r of user_vip: of request r, or OldVip
          clip,     \* clip[p]: the status of the row p has in clip_subscriptions
          members,  \* the pairs <<family, user>> in royal_family_members
          family,   \* family[f]: its row in royal_families, level 0 when there is none
          gave,     \* the requests that have a row in royal_family_contributions
          memberTotal, \* memberTotal[u]: total_contribution of u's membership
          stale     \* stale[p]: the row of the family as p read it last
membershipVars == <<vip, clip, members, family, gave, memberTotal, stale>>

VipRow == [user : User, level : DOMAIN VipPrice, renew : BOOLEAN, age : {"fresh", "last hour", "over"}]
NoVip == [user |-> OldVipUser, level |-> 0, renew |-> FALSE, age |-> "none"]
FamilyRow == [total : Nat, level : 0..2]

MembershipTypeOK ==
  /\ vip \in [Session \cup {OldVip} -> VipRow \cup {NoVip}]
  /\ clip \in [Session -> {"none", "active", "expired"}]
  /\ members \subseteq Family \X User
  /\ family \in [Family -> FamilyRow] /\ stale \in [Session -> FamilyRow]
  /\ gave \subseteq Session /\ memberTotal \in [User -> Nat]

NewFamily == [total |-> 0, level |-> 1]

MembershipInit ==
  /\ vip = [r \in Session \cup {OldVip} |->
              IF r = OldVip THEN [user |-> OldVipUser, level |-> 1, renew |-> TRUE, age |-> "last hour"]
              ELSE NoVip]
  /\ clip = [p \in Session |-> "none"]
  /\ members = {<<f, FamilyHost[f]>> : f \in OldFamilies}
  /\ family = [f \in Family |-> IF f \in OldFamilies THEN NewFamily ELSE [total |-> 0, level |-> 0]]
  /\ gave = {}
  /\ memberTotal = [u \in User |-> 0]
  /\ stale = [p \in Session |-> NewFamily]

\* What the handlers let through, and the hourly job.
VipRequest == [kind : {"vip"}, user : User, level : DOMAIN VipPrice]
AutoRenewRequest == [kind : {"autoRenew"}, user : User, on : BOOLEAN]
RenewJob == [kind : {"renew"}, user : User]
FamilyRequest == [kind : {"found", "enter", "leave"}, user : User, family : Family]
ContributeRequest == [kind : {"give"}, user : User, amount : Nat \ {0}]
ClipRequest == [kind : {"clip"}, user : User]
MembershipRequests == VipRequest \cup AutoRenewRequest \cup RenewJob \cup FamilyRequest
                      \cup ContributeRequest \cup ClipRequest

ActiveVip(u) == {r \in DOMAIN vip : vip[r].user = u /\ vip[r].age \in {"fresh", "last hour"}}
vipRest == <<clip, members, family, gave, memberTotal, stale>>
familyRest == <<vip, clip>>

(***************************************************************************)
(* VIP                                                                     *)
(***************************************************************************)
GetLevelByName(l) == VipPrice[l]

\* The error of the read of the active row is ignored.
SubscribeVip(p) ==
  LET u == job[p].user
      l == job[p].level
      has == \E r \in ActiveVip(u) : vip[r].level >= l
      buy == <<<<"debit", u, GetLevelByName(l)>>, <<"addVip", u, l, FALSE>>>>
  IN  /\ Asked(p, "vip")
      /\ \/ has /\ Refuse(p)
         \/ ~has /\ Begin(p, buy, FALSE, 0)
         \/ BeginBlindly(p, buy, FALSE, 0)
      /\ UNCHANGED <<storeVars, membershipVars>>

\* The INSERT.  The job ignores its error and goes on to report the renewal.
AddVip(p) ==
  /\ \/ /\ At(p, "addVip") \/ At(p, "tryVip")
        /\ vip' = [vip EXCEPT ![p] = [user |-> Arg(p, 2), level |-> Arg(p, 3), renew |-> Arg(p, 4),
                                      age |-> "fresh"]]
        /\ Continue(p)
     \/ At(p, "tryVip") /\ Ignore(p, Rest(p)) /\ UNCHANGED vip
  /\ UNCHANGED <<storeVars, vipRest>>

\* Of several active rows the database returns one with the highest level.
SetAutoRenew(p) ==
  /\ Asked(p, "autoRenew")
  /\ \/ ActiveVip(job[p].user) = {} /\ Refuse(p) /\ UNCHANGED vip
     \/ \E r \in ActiveVip(job[p].user) :
          /\ \A q \in ActiveVip(job[p].user) : vip[q].level <= vip[r].level
          /\ vip' = [vip EXCEPT ![r].renew = job[p].on]
          /\ Return(p)
  /\ UNCHANGED <<storeVars, vipRest>>

\* One run of the job.  Rows that are over are listed too; a row that cannot
\* be paid is passed over, and nothing marks the one that was.
Expiring == {r \in DOMAIN vip : vip[r].age \in {"last hour", "over"} /\ vip[r].renew}
ProcessExpiredVIP(p) ==
  /\ Asked(p, "renew")
  /\ \/ Expiring = {} /\ Return(p)
     \/ \E r \in Expiring :
          /\ Expiring = {r}   \* only the old row can be this old
          /\ Begin(p, <<<<"renewVip", vip[r].user, vip[r].level>>>>, FALSE, 0)
  /\ UNCHANGED <<storeVars, membershipVars>>

\* Mutant: the row is added although the wallet did not cover it.
RenewUnpaid(p) ==
  LET u == Arg(p, 2)
      l == Arg(p, 3)
  IN  /\ At(p, "renewVip")
      /\ GoTo(p, <<<<"tryVip", u, l, TRUE>>>>)
      /\ UNCHANGED <<storeVars, membershipVars>>

\* A row whose level cannot be read, or whose debit fails, is passed over.
RenewVip(p) ==
  LET u == Arg(p, 2)
      l == Arg(p, 3)
  IN  /\ At(p, "renewVip")
      /\ \/ /\ Move(p, "debit", u, VipPrice[l], FALSE)
            /\ Follow(p, <<<<"tryVip", u, l, TRUE>>>>)
            /\ Book(p)
            /\ UNCHANGED <<job, inTx, again, lost, met, faults>>
         \/ Refused(p, "debit", u, VipPrice[l]) /\ Continue(p) /\ UNCHANGED storeVars
         \/ Ignore(p, Rest(p)) /\ UNCHANGED storeVars
      /\ UNCHANGED membershipVars

\* The last hour of the old row passes.
VipEnds == /\ vip[OldVip].age = "last hour"
           /\ vip' = [vip EXCEPT ![OldVip].age = "over"]
           /\ UNCHANGED <<requestVars, vipRest>>

(***************************************************************************)
(* Royal families                                                          *)
(***************************************************************************)
FamilyOf(u) == {f \in Family : <<f, u>> \in members}
Exists(f) == family[f].level > 0

\* The error of the read of the host's family is ignored.
CreateFamily(p) ==
  LET found == <<<<"createFamily">>, <<"tryOwner">>>> IN
  /\ Asked(p, "found")
  /\ \/ Exists(job[p].family) /\ Refuse(p)
     \/ ~Exists(job[p].family) /\ Begin(p, found, FALSE, 0)
     \/ BeginBlindly(p, found, FALSE, 0)
  /\ UNCHANGED <<storeVars, membershipVars>>

\* host_id is unique.
InsertFamily(p) ==
  LET f == job[p].family IN
  /\ At(p, "createFamily")
  /\ IF Exists(f) THEN Abort(p) /\ UNCHANGED family
     ELSE family' = [family EXCEPT ![f] = NewFamily] /\ Continue(p) /\ UNCHANGED storeVars
  /\ UNCHANGED <<familyRest, members, gave, memberTotal, stale>>

\* The owner is added although the host may be in a family already; the error
\* is ignored.
AddOwner(p) ==
  /\ At(p, "tryOwner")
  /\ \/ members' = members \cup {<<job[p].family, FamilyHost[job[p].family]>>} /\ Continue(p)
     \/ Ignore(p, Rest(p)) /\ UNCHANGED members
  /\ UNCHANGED <<storeVars, familyRest, family, gave, memberTotal, stale>>

\* Mutant: a family takes any number of members.
JoinFull(p) ==
  /\ Asked(p, "enter")
  /\ IF FamilyOf(job[p].user) # {} \/ ~Exists(job[p].family) THEN Refuse(p)
     ELSE Begin(p, <<<<"addMember">>>>, FALSE, 0)
  /\ UNCHANGED <<storeVars, membershipVars>>

\* The errors of the read of the user's family, which then is none, and of the
\* count, which then is 0, are ignored.
JoinFamily(p) ==
  LET f == job[p].family
      join == <<<<"countMembers", Seats[family[f].level]>>, <<"addMember">>>>
  IN  /\ Asked(p, "enter")
      /\ \/ (FamilyOf(job[p].user) # {} \/ ~Exists(f)) /\ Refuse(p)
         \/ FamilyOf(job[p].user) = {} /\ Exists(f) /\ Begin(p, join, FALSE, 0)
         \/ Exists(f) /\ BeginBlindly(p, join, FALSE, 0)
      /\ UNCHANGED <<storeVars, membershipVars>>

MembersOf(f) == {m \in members : m[1] = f}
CountMembers(p) ==
  /\ At(p, "countMembers")
  /\ LET full == Cardinality(MembersOf(job[p].family)) >= Arg(p, 2) IN
     \/ full /\ Abort(p)
     \/ ~full /\ Continue(p) /\ UNCHANGED storeVars
     \/ Ignore(p, Rest(p)) /\ UNCHANGED storeVars
  /\ UNCHANGED membershipVars

\* UNIQUE (family_id, user_id).
AddMember(p) ==
  LET m == <<job[p].family, job[p].user>> IN
  /\ At(p, "addMember")
  /\ IF m \in members THEN Abort(p) ELSE Continue(p) /\ UNCHANGED storeVars
  /\ members' = members \cup {m}
  /\ UNCHANGED <<familyRest, family, gave, memberTotal, stale>>

LeaveFamily(p) ==
  /\ Asked(p, "leave")
  /\ \/ \E f \in FamilyOf(job[p].user) :
          IF FamilyHost[f] = job[p].user THEN Refuse(p) /\ UNCHANGED members
          ELSE Return(p) /\ members' = members \ {<<f, job[p].user>>}
     \/ FamilyOf(job[p].user) = {} /\ Refuse(p) /\ UNCHANGED members
  /\ UNCHANGED <<storeVars, familyRest, family, gave, memberTotal, stale>>

\* Contribute: the family's row is read, changed in memory and written whole.
Contribute(p) ==
  /\ Asked(p, "give")
  /\ \/ FamilyOf(job[p].user) = {} /\ Refuse(p)
     \/ \E f \in FamilyOf(job[p].user) :
          Begin(p, <<<<"debit", job[p].user, job[p].amount>>, <<"contribution">>,
                     <<"tryMember">>, <<"readFamily", f>>, <<"tryFamily", f>>>>, FALSE, 0)
  /\ UNCHANGED <<storeVars, membershipVars>>

AddContribution(p) ==
  /\ At(p, "contribution")
  /\ gave' = gave \cup {p}
  /\ Continue(p)
  /\ UNCHANGED <<storeVars, familyRest, members, family, memberTotal, stale>>

UpdateMemberContribution(p) ==
  /\ At(p, "tryMember")
  /\ \/ memberTotal' = [memberTotal EXCEPT ![job[p].user] = @ + job[p].amount] /\ Continue(p)
     \/ Ignore(p, Rest(p)) /\ UNCHANGED memberTotal
  /\ UNCHANGED <<storeVars, familyRest, members, family, gave, stale>>

\* A family that cannot be read is not updated.
ReadFamily(p) ==
  /\ At(p, "readFamily")
  /\ \/ stale' = [stale EXCEPT ![p] = family[Arg(p, 2)]] /\ Continue(p)
     \/ Ignore(p, Tail(Rest(p))) /\ UNCHANGED stale
  /\ UNCHANGED <<storeVars, familyRest, members, family, gave, memberTotal>>

\* calculateFamilyLevel, of the levels up to 2; a level is never taken back.
FamilyWith(old, amount) ==
  LET total == old.total + amount
  IN  [total |-> total,
       level |-> IF total >= LevelTwoAt /\ old.level < 2 THEN 2 ELSE old.level]

\* Mutant: the total is overwritten by the amount.
ForgetTotal(p) ==
  /\ At(p, "tryFamily")
  /\ family' = [family EXCEPT ![Arg(p, 2)] = FamilyWith([total |-> 0, level |-> 1], job[p].amount)]
  /\ Continue(p)
  /\ UNCHANGED <<storeVars, vip, clip, members, gave, memberTotal, stale>>

UpdateFamily(p) ==
  /\ At(p, "tryFamily")
  /\ \/ /\ family' = [family EXCEPT ![Arg(p, 2)] = FamilyWith(stale[p], job[p].amount)]
        /\ Continue(p)
     \/ Ignore(p, Rest(p)) /\ UNCHANGED family
  /\ UNCHANGED <<storeVars, vip, clip, members, gave, memberTotal, stale>>

(***************************************************************************)
(* Clip plans                                                              *)
(***************************************************************************)
clipRest == <<vip, members, family, gave, memberTotal, stale>>
ClipsOf(u) == {p \in Session : clip[p] # "none" /\ job[p].user = u}
ActiveClips(u) == {p \in ClipsOf(u) : clip[p] = "active"}

GetPlanByID == PlanPrice

\* There is no promotion when the earlier subscriptions cannot be read.
SubscribeClip(p) ==
  LET u == job[p].user
      buy(price) == <<<<"debit", u, price>>, <<"active">>, <<"createClip", price>>>>
      promo == u = PromoUser /\ ClipsOf(u) = {}
  IN  /\ Asked(p, "clip")
      /\ \/ Begin(p, buy(IF promo THEN PromoPrice ELSE GetPlanByID), FALSE, 0)
         \/ promo /\ BeginBlindly(p, buy(GetPlanByID), FALSE, 0)
      /\ UNCHANGED <<storeVars, membershipVars>>

\* GetActiveSubscription and, if there is one, the UPDATE that ends it; the
\* errors of both are ignored.
FindActive(p) ==
  LET u == job[p].user IN
  /\ At(p, "active")
  /\ \/ \E q \in ActiveClips(u) : GoTo(p, <<<<"tryExpire", q>>>> \o Rest(p))
     \/ ActiveClips(u) = {} /\ Continue(p)
     \/ Ignore(p, Rest(p))
  /\ UNCHANGED <<storeVars, membershipVars>>

ExpireClip(p) ==
  /\ At(p, "tryExpire")
  /\ \/ clip' = [clip EXCEPT ![Arg(p, 2)] = "expired"] /\ Continue(p)
     \/ Ignore(p, Rest(p)) /\ UNCHANGED clip
  /\ UNCHANGED <<storeVars, clipRest>>

CreateSubscription(p) == clip' = [clip EXCEPT ![p] = "active"]

\* A failed INSERT gives the money back.
CreateClip(p) ==
  /\ At(p, "createClip")
  /\ \/ CreateSubscription(p) /\ Continue(p)
     \/ Ignore(p, <<<<"tryCredit", job[p].user, Arg(p, 2)>>>>) /\ UNCHANGED clip
  /\ UNCHANGED <<storeVars, clipRest>>

MembershipStep(p) == \/ SubscribeVip(p) \/ AddVip(p) \/ SetAutoRenew(p)
                     \/ ProcessExpiredVIP(p) \/ RenewVip(p)
                     \/ CreateFamily(p) \/ InsertFamily(p) \/ AddOwner(p)
                     \/ JoinFamily(p) \/ CountMembers(p) \/ AddMember(p) \/ LeaveFamily(p)
                     \/ Contribute(p) \/ AddContribution(p)
                     \/ UpdateMemberContribution(p) \/ ReadFamily(p) \/ UpdateFamily(p)
                     \/ SubscribeClip(p) \/ FindActive(p) \/ ExpireClip(p) \/ CreateClip(p)

-----------------------------------------------------------------------------
Spent(p, u) == -moved[p][u]

(***************************************************************************)
(* A membership on file, bought or renewed, was paid for at its price, and *)
(* a payment without its row belongs to a request that failed after it, or *)
(* to a renewal whose INSERT failed: the job ignores that and reports it.  *)
(* A clip plan that could not be stored was paid back, unless that failed  *)
(* too.                                                                    *)
(***************************************************************************)
MembershipsArePaid ==
  /\ \A p \in Kind("vip") \cup Kind("renew") :
       LET u == IF p \in Kind("vip") THEN job[p].user ELSE OldVipUser
       IN  /\ vip[p].age # "none" => Spent(p, u) = VipPrice[vip[p].level]
           /\ Spent(p, u) # 0 /\ fate[p] = "done" =>
                vip[p].age # "none" \/ (p \in Kind("renew") /\ faults > 0)
  /\ \A p \in Kind("give") : /\ p \in gave => Spent(p, job[p].user) = job[p].amount
                             /\ Spent(p, job[p].user) # 0 /\ fate[p] = "done" => p \in gave
  /\ \A p \in Kind("clip") :
       LET s == Spent(p, job[p].user)
       IN  /\ clip[p] # "none" => s \in {PlanPrice, PromoPrice} /\ s > 0
           /\ (fate[p] = "done" /\ clip[p] = "none" /\ faults < 2) => s = 0

(***************************************************************************)
(* Two memberships at a time, a family beyond its seats, and a total that  *)
(* is not the sum of the contributions come from overlapping requests, or  *)
(* from a statement that failed and whose error the code ignores, reads    *)
(* among them.                                                             *)
(***************************************************************************)
MembershipDuplicatesOverlapped ==
  /\ \A p, q \in Kind("clip") :
       (p # q /\ job[p].user = job[q].user /\ clip[p] = "active" /\ clip[q] = "active")
         => ~Alone(p, q) \/ faults > 0
  /\ \A p, q \in Kind("vip") :
       (p # q /\ job[p].user = job[q].user /\ vip[p].age = "fresh" /\ vip[q].age = "fresh")
         => ~Alone(p, q) \/ vip[p].level # vip[q].level \/ faults > 0
  /\ \A f \in Family : Exists(f) /\ Cardinality(MembersOf(f)) > Seats[family[f].level] =>
       faults > 0 \/ \E p, q \in Kind("enter") : p # q /\ ~Alone(p, q)
  /\ (\A p, q \in gave : p = q \/ Alone(p, q)) /\ faults = 0 /\ Running = {} =>
       MapThenSumSet(LAMBDA f : family[f].total, Family) = MapThenSumSet(LAMBDA p : job[p].amount, gave)
=============================================================================
