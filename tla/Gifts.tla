------------------------------- MODULE Gifts --------------------------------
(***************************************************************************)
(* Gifts (internal/usecase/gift.go): the price of a gift leaves the        *)
(* sender's wallet and is split between the host, the host's agency and    *)
(* the platform, which keeps its part by not paying it out.  The wallets   *)
(* are changed in a transaction that is tried three times; the row in      *)
(* gift_transactions is written beside it, on the pool.                    *)
(*                                                                         *)
(* A gift in a live stream also earns experience for both: it is queued in *)
(* two hashes in Redis, which a job reads, deletes and hands, a field at a *)
(* time, to goroutines that add it to users (internal/usecase/leveling.go).*)
(*                                                                         *)
(* Then what viewers win: lucky bags, the wheel of fortune.                *)
(***************************************************************************)
EXTENDS Requests

CONSTANTS AgencyOf,      \* AgencyOf[h]: the owner of the agency h is active in, or NoAgency
          NoAgency,
          AgencyRate,    \* commission_rate of an agency, in percent
          GiftRoom,      \* the chat rooms and conversations a gift may be sent in
          NoRoom,        \* a gift outside of any
          GiftsPerMinute \* the rate limit of a sender in a room: 50

ASSUME GiftAssumption == /\ AgencyOf \in [User -> User \cup {NoAgency}]
                         /\ NoAgency \notin User
                         /\ AgencyRate \in 0..100
                         /\ NoRoom \notin GiftRoom
                         /\ GiftsPerMinute \in Nat

VARIABLES giftRows,  \* giftRows[p]: the rows p has in gift_transactions
          giftCount, \* giftCount[<<room, sender>>]: gift:rate_limit in Redis, 0 when expired
          queued,    \* queued[<<role, u>>]: xp:batch:<role> in Redis, the field of u
          batch,     \* batch[p]: the hash as the job p read it
          carried,   \* carried[p]: what the goroutines of p have still to add
          xp,        \* xp[<<role, u>>]: users.user_xp and users.host_xp
          gained     \* history: what gifts have queued
xpVars == <<queued, batch, carried, xp, gained>>
giftVars == <<giftRows, giftCount, xpVars>>

Experience == {"user", "host"} \X User
NoXp == [e \in Experience |-> 0]

GiftTypeOK == /\ giftRows \in [Session -> Nat]
              /\ giftCount \in [GiftRoom \X User -> Nat]
              /\ {queued, xp, gained} \subseteq [Experience -> Nat]
              /\ {batch, carried} \subseteq [Session -> [Experience -> Nat]]

GiftInit == /\ giftRows = [p \in Session |-> 0]
            /\ giftCount = [k \in GiftRoom \X User |-> 0]
            /\ queued = NoXp /\ xp = NoXp /\ gained = NoXp
            /\ batch = [p \in Session |-> NoXp]
            /\ carried = [p \in Session |-> NoXp]

\* What the handler lets through: a quantity that is not positive becomes 1,
\* and a room that is no identifier none.  In a conversation SendPrivateGift
\* looks the receiver up.  The room may be the one of a live stream.
SendGiftRequest == {g \in [kind : {"gift"}, user : User, host : User, amount : Nat \ {0},
                            room : GiftRoom \cup {NoRoom}, live : BOOLEAN] :
                      g.live => g.room # NoRoom}

\* The job xp-flush, every ten seconds in each instance of the server.
XpFlushJob == [kind : {"flush"}]

GiftRequests == SendGiftRequest \cup XpFlushJob

\* CalculateRevenueSplit, in whole rupiah: the divisions round down and the
\* host gets what they leave.  Without an agency the rate is 0.
PlatformFee(total) == (total * 20) \div 100
AgencyCommission(total, rate) == ((total - PlatformFee(total)) * rate) \div 100

\* Mutant: the host is credited the price before the platform's fee.
GrossEarning(total, rate) == total - AgencyCommission(total, rate)

HostEarning(total, rate) == total - PlatformFee(total) - AgencyCommission(total, rate)

\* The rate when the agency cannot be read.
DefaultRate == 25
RateOf(h) == IF AgencyOf[h] = NoAgency THEN 0 ELSE AgencyRate

\* The transaction of SendGift.  The stream of the room is looked up in it.
GiftTx(g) ==
  <<<<"debit", g.user, g.amount>>, <<"split">>>>
  \o (IF g.live THEN <<<<"findStream">>>> ELSE <<>>)
  \o <<<<"giftRow">>, <<"commit">>>>

QueueXp(g) == IF g.live THEN <<<<"queueXp", <<"user", g.user>>, g.amount>>,
                               <<"queueXp", <<"host", g.host>>, g.amount>>>> ELSE <<>>

\* INCR, only when there is a room.  Its error is ignored, and so is the limit.
CountGift(p) ==
  LET g == job[p]
      k == <<g.room, g.user>>
      tx == GiftTx(g) \o QueueXp(g)
  IN  \/ g.room = NoRoom /\ Begin(p, tx, TRUE, 2) /\ UNCHANGED giftCount
      \/ /\ g.room # NoRoom
         /\ giftCount' = [giftCount EXCEPT ![k] = @ + 1]
         /\ IF giftCount'[k] > GiftsPerMinute THEN Refuse(p) ELSE Begin(p, tx, TRUE, 2)
      \/ g.room # NoRoom /\ BeginBlindly(p, tx, TRUE, 2) /\ UNCHANGED giftCount

SendGift(p) == Asked(p, "gift") /\ CountGift(p) /\ UNCHANGED <<storeVars, giftRows, xpVars>>

\* The key expires a minute after the first gift.
MinutePasses == \E k \in DOMAIN giftCount :
  /\ giftCount[k] > 0
  /\ giftCount' = [giftCount EXCEPT ![k] = 0]
  /\ UNCHANGED <<requestVars, giftRows, xpVars>>

giftRest == <<storeVars, giftVars>>

\* Mutant: the agency is never paid.
SplitForHost(p) ==
  /\ At(p, "split")
  /\ GoTo(p, <<<<"credit", job[p].host, HostEarning(job[p].amount, RateOf(job[p].host))>>>> \o Rest(p))
  /\ UNCHANGED giftRest

\* The relation of the host and the agency's rate are read on the pool, so an
\* error does not abort the transaction: it is ignored.  Without the relation
\* the gift is split as if there were no agency, without the agency at the
\* default rate.
Split(p) ==
  LET h == job[p].host
      at(rate) == <<<<"credit", h, HostEarning(job[p].amount, rate)>>>>
      agency(rate) == <<<<"agency", AgencyCommission(job[p].amount, rate)>>>>
  IN  /\ At(p, "split")
      /\ \/ AgencyOf[h] = NoAgency /\ GoTo(p, at(0) \o Rest(p))
         \/ /\ AgencyOf[h] # NoAgency
            /\ \/ GoTo(p, at(AgencyRate) \o agency(AgencyRate) \o Rest(p))
               \/ Ignore(p, at(DefaultRate) \o agency(DefaultRate) \o Rest(p))
               \/ Ignore(p, at(0) \o Rest(p))
      /\ UNCHANGED giftRest

\* The agency is read once more, for its owner: after an error nobody is credited.
AgencyOwner(p) ==
  /\ At(p, "agency")
  /\ \/ GoTo(p, <<<<"credit", AgencyOf[job[p].host], Arg(p, 2)>>>> \o Rest(p))
     \/ Ignore(p, Rest(p))
  /\ UNCHANGED giftRest

\* chatRepo.GetByID: a gift whose stream is not found earns no experience.
\* What one try has found, the next ones know.
FindStream(p) ==
  /\ At(p, "findStream")
  /\ \/ /\ Follow(p, Rest(p))
        /\ again' = [again EXCEPT ![p] =
             [i \in DOMAIN @ |-> SelectSeq(@[i], LAMBDA s : s[1] # "findStream")]]
        /\ UNCHANGED <<job, inTx, moved, lost, met, faults>>
     \/ Ignore(p, SelectSeq(Rest(p), LAMBDA s : s[1] # "queueXp"))
  /\ UNCHANGED giftRest

\* Mutant: the row is not written.
SkipGiftRow(p) == At(p, "giftRow") /\ Continue(p) /\ UNCHANGED <<storeVars, giftVars>>

\* giftTxRepo.Create knows nothing of the transaction.
GiftRow(p) == /\ At(p, "giftRow")
              /\ giftRows' = [giftRows EXCEPT ![p] = @ + 1]
              /\ Continue(p)
              /\ UNCHANGED <<storeVars, giftCount, xpVars>>

\* HINCRBY, whose error is ignored.
EarnXp(p) ==
  /\ At(p, "queueXp")
  /\ \/ queued' = [queued EXCEPT ![Arg(p, 2)] = @ + Arg(p, 3)] /\ Continue(p)
     \/ Ignore(p, Rest(p)) /\ UNCHANGED queued
  /\ gained' = [gained EXCEPT ![Arg(p, 2)] = @ + Arg(p, 3)]
  /\ UNCHANGED <<storeVars, giftRows, giftCount, batch, carried, xp>>

FlushXPUpdates(p) ==
  /\ Asked(p, "flush")
  /\ Begin(p, <<<<"readXp", "user">>, <<"delXp", "user">>, <<"readXp", "host">>, <<"delXp", "host">>>>,
           FALSE, 0)
  /\ UNCHANGED <<storeVars, giftVars>>

OfRole(role, e) == IF e[1] = role THEN queued[e] ELSE 0

\* HGETALL.  A hash that is empty or cannot be read is passed over.
ReadXp(p) ==
  LET read == [e \in Experience |-> OfRole(Arg(p, 2), e)] IN
  /\ At(p, "readXp")
  /\ \/ /\ read # NoXp
        /\ batch' = [batch EXCEPT ![p] = read]
        /\ Continue(p)
     \/ /\ \/ read = NoXp /\ UNCHANGED faults
           \/ Fault
        /\ Follow(p, Tail(Rest(p)))
        /\ UNCHANGED <<batch, job, inTx, again, moved, lost, met>>
  /\ UNCHANGED <<storeVars, giftRows, giftCount, queued, carried, xp, gained>>

\* Mutant: the hash is not deleted.
KeepXp(p) ==
  /\ At(p, "delXp")
  /\ carried' = [carried EXCEPT ![p] = [e \in Experience |-> @[e] + batch[p][e]]]
  /\ Continue(p)
  /\ batch' = [batch EXCEPT ![p] = NoXp]
  /\ UNCHANGED <<storeVars, giftRows, giftCount, queued, xp, gained>>

\* DEL, whose error is ignored; then a goroutine for each field of what was read.
DelXp(p) ==
  /\ At(p, "delXp")
  /\ carried' = [carried EXCEPT ![p] = [e \in Experience |-> @[e] + batch[p][e]]]
  /\ \/ /\ queued' = [e \in Experience |-> IF e[1] = Arg(p, 2) THEN 0 ELSE queued[e]]
        /\ Continue(p)
     \/ Ignore(p, Rest(p)) /\ UNCHANGED queued
  /\ batch' = [batch EXCEPT ![p] = NoXp]
  /\ UNCHANGED <<storeVars, giftRows, giftCount, xp, gained>>

\* updateUserXP, updateHostXP: one UPDATE, the error of which is only logged.
\* The goroutines outlive the job, but not the process.
UpdateXp(p) ==
  \E e \in Experience :
    /\ carried[p][e] > 0 /\ fate[p] # "failed"
    /\ carried' = [carried EXCEPT ![p][e] = 0]
    /\ \/ xp' = [xp EXCEPT ![e] = @ + carried[p][e]] /\ UNCHANGED faults
       \/ Fault /\ UNCHANGED xp
    /\ UNCHANGED <<storeVars, giftRows, giftCount, queued, batch, gained,
                   job, fate, plan, inTx, again, moved, lost, met>>

GiftStep(p) == \/ SendGift(p) \/ Split(p) \/ AgencyOwner(p) \/ FindStream(p) \/ GiftRow(p)
               \/ EarnXp(p) \/ FlushXPUpdates(p) \/ ReadXp(p) \/ DelXp(p) \/ UpdateXp(p)

-----------------------------------------------------------------------------
\* What one committed try may charge: the rate it split at, and whether the
\* agency was paid.
Charge == [rate : {0, DefaultRate, AgencyRate}, paid : BOOLEAN]
InFull(h) == [rate |-> RateOf(h), paid |-> TRUE]

ChargeEffect(p, u, c) ==
  LET total == job[p].amount
      h == job[p].host
  IN  (IF u = h THEN total - PlatformFee(total) - AgencyCommission(total, c.rate) ELSE 0)
      + (IF AgencyOf[h] = u /\ c.paid THEN AgencyCommission(total, c.rate) ELSE 0)
      - (IF u = job[p].user THEN total ELSE 0)

\* The transaction of p is committed and p goes on to queue experience.
IsCharged(p) == plan[p] # <<>> /\ Head(plan[p])[1] = "queueXp"

(***************************************************************************)
(* A gift is charged whole or not at all, whatever the other requests hold *)
(* locked and whichever try failed: sender, host and agency owner always   *)
(* move together and by one split of the price.  It is charged more than   *)
(* once only if the answer to a COMMIT was lost, once per lost answer, and *)
(* never without a row in gift_transactions.  The split is the agency's,   *)
(* but where a read of the host's agency failed: then the gift is split as *)
(* if there were none, or at the default rate, or the agency's part is     *)
(* paid to nobody.                                                         *)
(***************************************************************************)
ChargedWhole ==
  \A p \in Kind("gift") :
    \E n \in 0..3 :
      /\ n <= giftRows[p]
      /\ n = lost[p] + (IF fate[p] = "done" \/ IsCharged(p) THEN 1 ELSE 0)
      /\ \E c \in [1..n -> Charge] :
           /\ \A u \in User :
                moved[p][u] = MapThenSumSet(LAMBDA i : ChargeEffect(p, u, c[i]), 1..n)
           /\ Cardinality({i \in 1..n : c[i] # InFull(job[p].host)}) + lost[p] <= faults

(***************************************************************************)
(* Experience is neither made nor lost on its way from a gift to the row   *)
(* of the user, but for two flushes that read the same hash, a gift that   *)
(* is queued between HGETALL and DEL, and a statement that fails.          *)
(***************************************************************************)
ExperienceArrives ==
  \A e \in Experience :
    LET arrived == xp[e] + queued[e] + MapThenSumSet(LAMBDA p : carried[p][e], Kind("flush"))
        flushOverlaps(k) == \E p \in Kind("flush"), q \in Kind(k) : p # q /\ ~Alone(p, q)
    IN  /\ arrived > gained[e] => faults > 0 \/ flushOverlaps("flush")
        /\ arrived < gained[e] => faults > 0 \/ flushOverlaps("gift")

GiftsAddUp == ChargedWhole /\ ExperienceArrives

-----------------------------------------------------------------------------
(***************************************************************************)
(* Lucky bags (internal/usecase/lucky_bag.go) and the wheel of fortune     *)
(* (internal/usecase/wheel.go).  No transaction: each statement takes      *)
(* effect by itself, and the errors of the credits are ignored.            *)
(***************************************************************************)
CONSTANTS BagCount,            \* total_count of the bag
          BagMin, BagMax,      \* its smallest and largest amount
          SpinCost,
          SpinsPerDay,         \* maxSpinsPerDay
          Prizes,              \* what a spin may win: amounts, or Thing
          Thing                \* an item for the inventory

ASSUME FortuneAssumption == /\ {BagCount, SpinCost, SpinsPerDay} \subseteq Nat
                            /\ BagMin \in Nat \ {0} /\ BagMax \in Nat /\ BagMin <= BagMax
                            /\ Prizes \subseteq Nat \cup {Thing} /\ Thing \notin Nat

VARIABLES bag,        \* the row in lucky_bags: remaining and status
          claims,     \* the requests that have a row in lucky_bag_claims
          drawn,      \* history: the requests that have taken their turn at the bag
          spins,      \* the requests that have a row in wheel_spins
          things      \* things[u]: items u has won at the wheel, in user_inventory
fortuneVars == <<bag, claims, drawn, spins, things>>

FortuneTypeOK == /\ bag \in [remaining : 0..BagCount, status : {"none", "active", "depleted"}]
                 /\ claims \subseteq drawn /\ drawn \subseteq Session
                 /\ spins \subseteq Session
                 /\ things \in [User -> Nat]

FortuneInit == /\ bag = [remaining |-> 0, status |-> "none"]
               /\ claims = {} /\ drawn = {} /\ spins = {}
               /\ things = [u \in User |-> 0]

\* What the handlers let through.
CreateBagRequest == [kind : {"bag"}, user : User]
ClaimBagRequest == [kind : {"claim"}, user : User]
SpinRequest == [kind : {"spin"}, user : User]
FortuneRequests == CreateBagRequest \cup ClaimBagRequest \cup SpinRequest

TotalPool == ((BagMin + BagMax) \div 2) * BagCount

CreateBag(p) ==
  /\ Asked(p, "bag") /\ bag.status = "none"
  /\ Begin(p, <<<<"debit", job[p].user, TotalPool>>, <<"createBag">>>>, FALSE, 0)
  /\ UNCHANGED <<storeVars, fortuneVars>>

InsertBag(p) ==
  /\ At(p, "createBag")
  /\ bag' = [remaining |-> BagCount, status |-> "active"]
  /\ Continue(p)
  /\ UNCHANGED <<storeVars, claims, drawn, spins, things>>

BagHost == {job[p].user : p \in Kind("bag")}
SameViewer(p, q) == job[p].user = job[q].user

\* ClaimBag reads the bag, and then whether the viewer has a claim: an error
\* of the second read counts as no.
GetByID == bag

ClaimBag(p) ==
  /\ Asked(p, "claim")
  /\ IF GetByID.status # "active" \/ job[p].user \in BagHost THEN Refuse(p)
     ELSE Begin(p, <<<<"hasClaimed">>, <<"decrement">>, <<"draw">>, <<"createClaim">>>>, FALSE, 0)
  /\ UNCHANGED <<storeVars, fortuneVars>>

\* Mutant: a viewer may claim again.
NeverClaimed(p) == At(p, "hasClaimed") /\ Continue(p) /\ UNCHANGED <<storeVars, fortuneVars>>

HasClaimed(p) ==
  /\ At(p, "hasClaimed")
  /\ \/ /\ \E q \in claims : SameViewer(p, q)
        /\ Abort(p)
     \/ /\ ~\E q \in claims : SameViewer(p, q)
        /\ Continue(p) /\ UNCHANGED storeVars
     \/ Ignore(p, Rest(p)) /\ UNCHANGED storeVars
  /\ UNCHANGED fortuneVars

\* Mutant: the row is updated whatever is left.
DecrementBlindly(p) ==
  /\ At(p, "decrement")
  /\ bag' = [bag EXCEPT !.remaining = IF @ = 0 THEN 0 ELSE @ - 1]
  /\ drawn' = drawn \cup {p}
  /\ Continue(p)
  /\ UNCHANGED <<storeVars, claims, spins, things>>

DecrementRemaining(p) ==
  /\ At(p, "decrement")
  /\ IF bag.remaining = 0 THEN Abort(p) /\ UNCHANGED <<bag, drawn>>
     ELSE /\ bag' = [remaining |-> bag.remaining - 1,
                     status |-> IF bag.remaining = 1 THEN "depleted" ELSE bag.status]
          /\ drawn' = drawn \cup {p}
          /\ Continue(p) /\ UNCHANGED storeVars
  /\ UNCHANGED <<claims, spins, things>>

\* The random amount, which the claim then records; its credit comes first.
DrawAmount(p) ==
  /\ At(p, "draw")
  /\ \E a \in {BagMin, BagMax} :
       GoTo(p, <<<<"tryCredit", job[p].user, a>>, <<"createClaim", a>>>>)
  /\ UNCHANGED <<storeVars, fortuneVars>>

\* UNIQUE (bag_id, user_id).
CreateClaim(p) ==
  /\ At(p, "createClaim")
  /\ IF \E q \in claims : SameViewer(p, q) THEN Abort(p) /\ UNCHANGED claims
     ELSE claims' = claims \cup {p} /\ Continue(p) /\ UNCHANGED storeVars
  /\ UNCHANGED <<bag, drawn, spins, things>>

(***************************************************************************)
(* Spin                                                                    *)
(***************************************************************************)
SpinsToday(u) == Cardinality({q \in spins : job[q].user = u})

SpinStatements(p) == <<<<"debit", job[p].user, SpinCost>>, <<"prize">>, <<"recordSpin">>>>

\* Mutant: the limit is not looked at.
SpinFreely(p) ==
  /\ Asked(p, "spin")
  /\ Begin(p, SpinStatements(p), FALSE, 0)
  /\ UNCHANGED <<storeVars, fortuneVars>>

\* The error of the count is ignored: it then reads 0.
Spin(p) ==
  /\ Asked(p, "spin")
  /\ \/ SpinsToday(job[p].user) >= SpinsPerDay /\ Refuse(p)
     \/ SpinsToday(job[p].user) < SpinsPerDay /\ Begin(p, SpinStatements(p), FALSE, 0)
     \/ BeginBlindly(p, SpinStatements(p), FALSE, 0)
  /\ UNCHANGED <<storeVars, fortuneVars>>

ListActivePrizes == Prizes

SelectPrize(p) ==
  /\ At(p, "prize")
  /\ \E w \in ListActivePrizes :
       GoTo(p, <<IF w = Thing THEN <<"tryThing">> ELSE <<"tryCredit", job[p].user, w>>,
                 <<"recordSpin">>>>)
  /\ UNCHANGED <<storeVars, fortuneVars>>

AddToInventory(p) ==
  /\ At(p, "tryThing")
  /\ \/ /\ things' = [things EXCEPT ![job[p].user] = @ + 1]
        /\ Continue(p)
     \/ Ignore(p, Rest(p)) /\ UNCHANGED things
  /\ UNCHANGED <<storeVars, bag, claims, drawn, spins>>

RecordSpin(p) ==
  /\ At(p, "recordSpin")
  /\ spins' = spins \cup {p}
  /\ Continue(p)
  /\ UNCHANGED <<storeVars, bag, claims, drawn, things>>

FortuneStep(p) == \/ CreateBag(p) \/ InsertBag(p)
                  \/ ClaimBag(p) \/ HasClaimed(p) \/ DecrementRemaining(p) \/ DrawAmount(p)
                  \/ CreateClaim(p)
                  \/ Spin(p) \/ SelectPrize(p) \/ AddToInventory(p) \/ RecordSpin(p)

-----------------------------------------------------------------------------
Won(p) == moved[p][job[p].user]

\* A bag on file was paid for; a spin on file was paid for, and returns at
\* most one prize; only a viewer that took a turn at the bag is credited.
FortunesArePaid ==
  /\ \A p \in Kind("bag") : bag.status # "none" /\ fate[p] = "done" => Won(p) = -TotalPool
  /\ \A p \in Kind("spin") : /\ Won(p) # 0 => Won(p) \in {w - SpinCost : w \in (Prizes \ {Thing}) \cup {0}}
                             /\ p \in spins => Won(p) <= Max((Prizes \ {Thing}) \cup {0}) - SpinCost
  /\ \A p \in Kind("claim") : Won(p) # 0 => p \in drawn /\ Won(p) \in BagMin..BagMax

(***************************************************************************)
(* However many viewers claim at once, a bag is drawn from as often as it  *)
(* has shares, and each turn is one share less.                            *)
(***************************************************************************)
BagHoldsItsShares == /\ Cardinality(drawn) <= BagCount
                     /\ bag.status # "none" => bag.remaining = BagCount - Cardinality(drawn)
                     /\ bag.status = "depleted" <=> (bag.remaining = 0 /\ drawn # {})

(***************************************************************************)
(* A viewer is credited twice from one bag, or spins more often than the   *)
(* limit of a day, only by overlapping requests, or when a read of one of  *)
(* them failed, whose error the code ignores.                              *)
(***************************************************************************)
FortuneDuplicatesOverlapped ==
  /\ \A p, q \in Kind("claim") :
       (p # q /\ SameViewer(p, q) /\ Won(p) # 0 /\ Won(q) # 0) =>
         ~Alone(p, q) \/ faults > 0
  /\ \A u \in User :
       SpinsToday(u) > SpinsPerDay =>
         \/ \E p, q \in spins : p # q /\ job[p].user = u /\ job[q].user = u /\ ~Alone(p, q)
         \/ faults > 0
=============================================================================
