---------------------------- MODULE TokenMarket ----------------------------
(***************************************************************************)
(* Creator tokens (internal/usecase/creator_token.go) and the prediction   *)
(* market (internal/usecase/prediction.go), which share the users' wallets *)
(* and token holdings.  A purchase, a bet and a resolution each run in one *)
(* transaction, but read the token or the prediction they are about        *)
(* without a lock, and trust what they read until they commit.             *)
(*                                                                         *)
(* One token and one prediction exist; whoever resolves it is its host.    *)
(* Their rows, the holdings and the bets behave as the wallets do, so they *)
(* are a second instance of WalletStore: item[Token], item[Market], the    *)
(* holding item[u] of a user in user_tokens, and the bet item[p] that      *)
(* request p inserts.                                                      *)
(***************************************************************************)
EXTENDS WalletStore, SequencesExt

CONSTANTS Token, Market,  \* the row in creator_tokens, the row in predictions
          NoItem,         \* the row does not exist
          Jobs,           \* what the requests may be: functions from Session
          MaxSupply, BasePrice, Slope,
          Opening         \* the wallets at the start

Item == User \cup Session \cup {Token, Market}

Sides == {"yes", "no"}
Currency == {"wallet", "token"}
Job == [kind : {"buy"}, user : User, amount : Nat \ {0}]
       \cup [kind : {"bet"}, user : User, amount : Nat \ {0}, side : Sides, cur : Currency]
       \cup [kind : {"resolve"}, side : Sides]

ASSUME MarketAssumption ==
  /\ User \cap Session = {} /\ Token # Market
  /\ {Token, Market} \cap (User \cup Session) = {}
  /\ Jobs \subseteq [Session -> Job]
  /\ {MaxSupply, BasePrice, Slope} \subseteq Nat
  /\ Opening \in [User -> Wallet]
  /\ IsFiniteSet(Session)
  /\ NoItem \notin Int \cup [user : User, side : Sides, amount : Nat, cur : Currency]

VARIABLES
  item, newItem, itemLock,   \* the second store
  pc, job,
  supply,    \* supply[p]: token.TotalSupply as the purchase read it
  bets,      \* bets[p]: the bets the resolution read
  todo,      \* todo[p]: the bets it still has to pay, in the order they came
  share,     \* share[p][b]: what it has paid for bet b
  raced      \* history: requests that read a token or a prediction another was changing
itemVars == <<item, newItem, itemLock>>
vars == <<storeVars, itemVars, pc, job, supply, bets, todo, share, raced>>

Table == INSTANCE WalletStore
           WITH User <- Item, row <- item, ver <- newItem, lock <- itemLock, NoWallet <- NoItem

Committed == {p \in Session : pc[p] \in {"done", "lost"}}
Running == {p \in Session : pc[p] \notin {"idle", "done", "lost", "failed"}}
Kind(k) == {p \in Session : job[p].kind = k}
Bet(p) == [user |-> job[p].user, side |-> job[p].side, amount |-> job[p].amount, cur |-> job[p].cur]

Labels == {"idle", "debit", "supply", "hold", "stake", "pool", "bet",
           "list", "pay", "resolve", "commit", "done", "lost", "failed"}

TypeOK ==
  /\ StoreTypeOK
  /\ itemLock \in [Item -> Session \cup {NoTx}]
  /\ \A t \in {item, newItem} :
       /\ DOMAIN t = Item
       /\ t[Token] \in Nat
       /\ t[Market] \in [status : {"active", "resolved"}, yes : Nat, no : Nat]
       /\ \A u \in User : t[u] \in Int \cup {NoItem}
       /\ \A p \in Session : t[p] # NoItem => p \in Kind("bet") /\ t[p] = Bet(p)
  /\ pc \in [Session -> Labels]
  /\ job \in [Session -> Job]
  /\ supply \in [Session -> Nat]
  /\ bets \in [Session -> SUBSET Session]
  /\ todo \in [Session -> Seq(Session)] /\ \A p \in Session : ToSet(todo[p]) \subseteq bets[p]
  /\ share \in [Session -> [Session -> Nat]]
  /\ raced \subseteq Session

Init == /\ StoreInit(Opening)
        /\ item = [i \in Item |-> CASE i = Token  -> 0
                                    [] i = Market -> [status |-> "active", yes |-> 0, no |-> 0]
                                    [] OTHER      -> NoItem]
        /\ newItem = item
        /\ itemLock = [i \in Item |-> NoTx]
        /\ pc = [p \in Session |-> "idle"]
        /\ job \in Jobs
        /\ supply = [p \in Session |-> 0]
        /\ bets = [p \in Session |-> {}]
        /\ todo = [p \in Session |-> <<>>]
        /\ share = [p \in Session |-> [b \in Session |-> 0]]
        /\ raced = {}

At(p, l) == pc[p] = l
Goto(p, l) == pc' = [pc EXCEPT ![p] = l]
locals == <<job, supply, bets, todo, share, raced>>

\* The transaction is rolled back: a statement failed, the request was
\* cancelled, or the connection or the process went away.
Undo(p) == Rollback(p) /\ Table!Rollback(p) /\ Goto(p, "failed") /\ UNCHANGED locals

\* UpdateUserTokenBalance refuses to leave an existing row below zero; when
\* there is none it inserts one.
Holding(p, u) == Table!Seen(p, u)
AddTokens(p, u, n) ==
  LET h == Holding(p, u)
  IN  /\ h # NoItem => h + n >= 0
      /\ Table!Write(p, u, IF h = NoItem THEN n ELSE h + n, TRUE)
TokensRefused(p, u, n) == /\ Table!Unlocked(p, u)
                          /\ Holding(p, u) # NoItem
                          /\ Holding(p, u) + n < 0

-----------------------------------------------------------------------------
(***************************************************************************)
(* BuyToken                                                                *)
(***************************************************************************)
\* Mutant: the limit is compared with the supply alone.
ReadWithoutAmount(p) ==
  /\ At(p, "idle") /\ job[p].kind = "buy"
  /\ Goto(p, IF item[Token] > MaxSupply THEN "failed" ELSE "debit")
  /\ supply' = [supply EXCEPT ![p] = item[Token]]
  /\ UNCHANGED <<storeVars, itemVars, job, bets, todo, share, raced>>

ReadToken(p) ==
  /\ At(p, "idle") /\ job[p].kind = "buy"
  /\ Goto(p, IF item[Token] + job[p].amount > MaxSupply THEN "failed" ELSE "debit")
  /\ supply' = [supply EXCEPT ![p] = item[Token]]
  /\ raced' = IF Running \cap Kind("buy") # {} THEN raced \cup {p} ELSE raced
  /\ UNCHANGED <<storeVars, itemVars, job, bets, todo, share>>

\* The bonding curve.
Cost(p) == LET n == job[p].amount
           IN  n * BasePrice + Slope * (n * supply[p] + (n * (n - 1)) \div 2)

\* The row it adds to transactions is part of the step: the wallet is locked.
DebitBuyer(p) ==
  /\ At(p, "debit")
  /\ \/ /\ Move(p, "debit", job[p].user, Cost(p), TRUE)
        /\ Goto(p, "supply")
        /\ UNCHANGED <<itemVars, locals>>
     \/ Refused(p, "debit", job[p].user, Cost(p)) /\ Undo(p)

\* Mutant: the amount is taken off the supply.
SubtractSupply(p) ==
  /\ At(p, "supply")
  /\ Table!Write(p, Token, supply[p] - job[p].amount, TRUE)
  /\ Goto(p, "hold")
  /\ UNCHANGED <<storeVars, locals>>

UpdateTokenSupply(p) ==
  /\ At(p, "supply")
  /\ Table!Write(p, Token, supply[p] + job[p].amount, TRUE)
  /\ Goto(p, "hold")
  /\ UNCHANGED <<storeVars, locals>>

AddHolding(p) ==
  /\ At(p, "hold")
  /\ \/ AddTokens(p, job[p].user, job[p].amount) /\ Goto(p, "commit")
        /\ UNCHANGED <<storeVars, locals>>
     \/ TokensRefused(p, job[p].user, job[p].amount) /\ Undo(p)

(***************************************************************************)
(* PlaceBet                                                                *)
(***************************************************************************)
Open == item[Market].status = "active"

\* Resolutions that have the bets of the prediction before them.
Settling == {r \in Running \cap Kind("resolve") : ~At(r, "list")}

ReadForBet(p) ==
  /\ At(p, "idle") /\ job[p].kind = "bet"
  /\ Goto(p, IF Open THEN "stake" ELSE "failed")
  /\ raced' = IF Open /\ Settling # {} THEN raced \cup {p} ELSE raced
  /\ UNCHANGED <<storeVars, itemVars, job, supply, bets, todo, share>>

Stake(p) ==
  LET u == job[p].user
      a == job[p].amount
  IN  /\ At(p, "stake")
      /\ \/ /\ job[p].cur = "wallet"
            /\ Move(p, "debit", u, a, TRUE)
            /\ Goto(p, "pool") /\ UNCHANGED <<itemVars, locals>>
         \/ /\ job[p].cur = "wallet"
            /\ Refused(p, "debit", u, a) /\ Undo(p)
         \/ /\ job[p].cur = "token"
            /\ AddTokens(p, u, -a)
            /\ Goto(p, "pool") /\ UNCHANGED <<storeVars, locals>>
         \/ /\ job[p].cur = "token"
            /\ TokensRefused(p, u, -a) /\ Undo(p)

InPool(m, side, a) == IF side = "yes" THEN [m EXCEPT !.yes = @ + a] ELSE [m EXCEPT !.no = @ + a]

\* Mutant: both sides of the pool grow.
UpdateBothPools(p) ==
  /\ At(p, "pool")
  /\ Table!Write(p, Market, InPool(InPool(Table!Seen(p, Market), "yes", job[p].amount),
                                   "no", job[p].amount), TRUE)
  /\ Goto(p, "bet")
  /\ UNCHANGED <<storeVars, locals>>

\* The status it selects FOR UPDATE is not looked at.
UpdatePools(p) ==
  /\ At(p, "pool")
  /\ Table!Write(p, Market, InPool(Table!Seen(p, Market), job[p].side, job[p].amount), TRUE)
  /\ Goto(p, "bet")
  /\ UNCHANGED <<storeVars, locals>>

CreateBet(p) ==
  /\ At(p, "bet")
  /\ Table!Write(p, p, Bet(p), TRUE)
  /\ Goto(p, "commit")
  /\ UNCHANGED <<storeVars, locals>>

(***************************************************************************)
(* ResolvePrediction                                                       *)
(***************************************************************************)
\* Mutant: a resolved prediction is resolved again.
ReadAnyStatus(p) ==
  /\ At(p, "idle") /\ job[p].kind = "resolve"
  /\ Goto(p, "list")
  /\ UNCHANGED <<storeVars, itemVars, locals>>

ReadForResolution(p) ==
  /\ At(p, "idle") /\ job[p].kind = "resolve"
  /\ Goto(p, IF Open THEN "list" ELSE "failed")
  /\ raced' = IF Open /\ Running \cap Kind("resolve") # {} THEN raced \cup {p} ELSE raced
  /\ UNCHANGED <<storeVars, itemVars, job, supply, bets, todo, share>>

Amounts == [p \in Session \ Kind("resolve") |-> job[p].amount]
Stakes(B) == SumFunctionOnSet(Amounts, B)
Winning(p, B) == {b \in B : job[b].side = job[p].side}
Contested(p, B) == Winning(p, B) # {} /\ Winning(p, B) # B

\* The bets the resolution read, and those of them it will pay: the winners,
\* or all of them when nobody lost or nobody won.
ListBets(p) ==
  LET B == {b \in Session : item[b] # NoItem}
  IN  /\ At(p, "list")
      /\ bets' = [bets EXCEPT ![p] = B]
      /\ \E order \in SetToSeqs(IF Contested(p, B) THEN Winning(p, B) ELSE B) :
           todo' = [todo EXCEPT ![p] = order]
      /\ raced' = raced \cup (Running \cap Kind("bet"))
      /\ Goto(p, "pay")
      /\ UNCHANGED <<storeVars, itemVars, job, supply, share>>

\* The winner's part of 95% of both pools.  It is computed in float64 and
\* rounded down, and may fall just short of a whole number.
Payouts(p, b) ==
  LET num == job[b].amount * Stakes(bets[p]) * 95
      den == Stakes(Winning(p, bets[p])) * 100
  IN  IF ~Contested(p, bets[p]) THEN {job[b].amount}
      ELSE {num \div den} \cup (IF num % den = 0 THEN {num \div den - 1} ELSE {})

\* A holding that stays below zero is not paid, and the error is passed over.
PayBet(p, b, n) ==
  LET u == job[b].user
  IN  \/ job[b].cur = "wallet" /\ Move(p, "credit", u, n, TRUE) /\ UNCHANGED itemVars
      \/ job[b].cur = "token" /\ AddTokens(p, u, n) /\ UNCHANGED storeVars

PayNext(p) ==
  /\ At(p, "pay") /\ todo[p] # <<>>
  /\ \E n \in Payouts(p, Head(todo[p])) :
       LET b == Head(todo[p])
       IN  \/ PayBet(p, b, n) /\ share' = [share EXCEPT ![p][b] = n]
           \/ /\ job[b].cur = "token" /\ TokensRefused(p, job[b].user, n)
              /\ UNCHANGED <<storeVars, itemVars, share>>
  /\ todo' = [todo EXCEPT ![p] = Tail(@)]
  /\ UNCHANGED <<pc, job, supply, bets, raced>>

MarkResolved(p) ==
  /\ At(p, "pay") /\ todo[p] = <<>>
  /\ Table!Write(p, Market, [Table!Seen(p, Market) EXCEPT !.status = "resolved"], TRUE)
  /\ Goto(p, "commit")
  /\ UNCHANGED <<storeVars, locals>>

-----------------------------------------------------------------------------
\* RunInTx: the answer of COMMIT may be lost although the server executed it.
CommitTx(p) == /\ At(p, "commit")
               /\ Commit(p) /\ Table!Commit(p)
               /\ \E l \in {"done", "lost"} : Goto(p, l)
               /\ UNCHANGED locals

Fails(p) == p \in Running /\ Undo(p)

(***************************************************************************)
(* Requests that wait for each other's rows: PostgreSQL picks a victim.    *)
(***************************************************************************)
Blockers(p) ==
  CASE At(p, "debit")  -> {lock[job[p].user]}
    [] At(p, "supply") -> {itemLock[Token]}
    [] At(p, "hold")   -> {itemLock[job[p].user]}
    [] At(p, "stake")  -> {IF job[p].cur = "wallet" THEN lock[job[p].user]
                                                    ELSE itemLock[job[p].user]}
    [] At(p, "pool")   -> {itemLock[Market]}
    [] At(p, "pay") /\ todo[p] = <<>> -> {itemLock[Market]}
    [] At(p, "pay")    -> LET b == Head(todo[p])
                          IN  {IF job[b].cur = "wallet" THEN lock[job[b].user]
                                                        ELSE itemLock[job[b].user]}
    [] OTHER           -> {}

Deadlocked(p) == \E D \in SUBSET Session :
                   p \in D /\ \A q \in D : Blockers(q) \cap (D \ {q}) # {}

DeadlockVictim(p) == Deadlocked(p) /\ Undo(p)

BuyToken(p) == ReadToken(p) \/ DebitBuyer(p) \/ UpdateTokenSupply(p) \/ AddHolding(p)
PlaceBet(p) == ReadForBet(p) \/ Stake(p) \/ UpdatePools(p) \/ CreateBet(p)
ResolvePrediction(p) == ReadForResolution(p) \/ ListBets(p) \/ PayNext(p) \/ MarkResolved(p)

Step(p) == BuyToken(p) \/ PlaceBet(p) \/ ResolvePrediction(p) \/ CommitTx(p) \/ DeadlockVictim(p)

Finished == (\A p \in Session : p \notin Running /\ ~At(p, "idle")) /\ UNCHANGED vars

Next == (\E p \in Session : Step(p) \/ Fails(p)) \/ Finished

Spec == Init /\ [][Next]_vars
\* A statement that can run runs, and PostgreSQL breaks every deadlock.
LiveSpec == Spec /\ \A p \in Session : WF_vars(Step(p))

-----------------------------------------------------------------------------
(***************************************************************************)
(* Properties                                                              *)
(***************************************************************************)
OfUser(u, S) == {p \in S : job[p].user = u}
Bought(S) == SumFunctionOnSet(Amounts, S)
Paid(S) == SumFunctionOnSet([p \in Kind("buy") |-> Cost(p)], S)
CommittedBuys == Committed \cap Kind("buy")
CommittedBets == Committed \cap Kind("bet")
Resolutions == Committed \cap Kind("resolve")
Won(B) == SumFunctionOnSet([r \in Session |-> SumFunctionOnSet(share[r], B)], Resolutions)
InCurrency(B, c) == {b \in B : job[b].cur = c}

\* Wallets and holdings are what the committed purchases, bets and payouts
\* make of them, each of them whole: whatever fails, deadlocks or loses the
\* answer of its COMMIT leaves no half of a transaction behind.
BooksBalance ==
  \A u \in User :
    LET buys == OfUser(u, CommittedBuys)
        placed(c) == InCurrency(OfUser(u, CommittedBets), c)
        placedEver(c) == InCurrency(OfUser(u, Kind("bet")), c)
    IN  /\ row[u].bal = Opening[u].bal - Paid(buys) - Stakes(placed("wallet"))
                        + Won(placedEver("wallet"))
        /\ (IF item[u] = NoItem THEN 0 ELSE item[u])
             = Bought(buys) - Stakes(placed("token")) + Won(placedEver("token"))

\* The pools shown to the audience are the sums of the bets, although every
\* bet adds to them in a transaction of its own and some roll back.
PoolsMatchBets ==
  \A s \in Sides : (IF s = "yes" THEN item[Market].yes ELSE item[Market].no)
                     = Stakes({b \in CommittedBets : job[b].side = s})

\* The recorded supply never passes the limit, and falls behind what was sold
\* only when purchases overlapped: the second writes the sum it computed from
\* the supply the first had read.
SupplyCountsSales ==
  /\ item[Token] <= MaxSupply
  /\ item[Token] <= Bought(CommittedBuys)
  /\ raced \cap Kind("buy") = {} => item[Token] = Bought(CommittedBuys)

\* Wallets, holdings, pools and the supply are what the committed purchases
\* and bets make of them.
BooksHold == TypeOK /\ BooksBalance /\ PoolsMatchBets /\ SupplyCountsSales

\* A prediction is settled twice only when two resolutions both found it
\* active, and a bet is left out only when it overlapped the resolution.
ResolutionExact ==
  /\ Cardinality(Resolutions \ raced) <= 1
  /\ \A r \in Resolutions : CommittedBets \ raced \subseteq bets[r]
  /\ Resolutions # {} <=> item[Market].status = "resolved"

\* Every request comes to an end: no two wait for each other's rows for ever.
RequestsEnd == \A p \in Session : <>(p \notin Running /\ ~At(p, "idle"))
=============================================================================
