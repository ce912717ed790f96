-------------------------- MODULE TokenMarketProofs --------------------------
(***************************************************************************)
(* Proofs about TokenMarket: what purchases, bets and resolutions of       *)
(* internal/usecase/creator_token.go and prediction.go keep, for any       *)
(* number of users and requests, any amounts, limit and bonding curve.     *)
(***************************************************************************)
EXTENDS TokenMarket, SumLemmas, SequenceTheorems

-----------------------------------------------------------------------------
(***************************************************************************)
(* The inductive invariant.                                                *)
(***************************************************************************)
\* Where a request of each kind may be in its transaction.
Stage(k) == CASE k = "buy"     -> {"debit", "supply", "hold", "commit"}
              [] k = "bet"     -> {"stake", "pool", "bet", "commit"}
              [] k = "resolve" -> {"list", "pay", "commit"}
Outside == {"idle", "done", "lost", "failed"}

StagesFit == \A p \in Session : pc[p] \in Stage(job[p].kind) \cup Outside

\* The bets of user u in currency c, whether placed or not.
BetsOf(u, c) == InCurrency(OfUser(u, Kind("bet")), c)

\* What the transaction of request p has so far changed of what user u has in
\* currency c.
Change(p, u, c) ==
  IF job[p].kind = "resolve" THEN SumFunctionOnSet(share[p], BetsOf(u, c))
  ELSE IF job[p].user # u THEN 0
  ELSE IF job[p].kind = "bet"
       THEN IF job[p].cur = c /\ pc[p] \in {"pool", "bet", "commit"} THEN -job[p].amount ELSE 0
  ELSE IF c = "wallet"
       THEN IF pc[p] \in {"supply", "hold", "commit"} THEN -Cost(p) ELSE 0
  ELSE IF pc[p] = "commit" THEN job[p].amount ELSE 0

Tokens(h) == IF h = NoItem THEN 0 ELSE h

\* The new versions under the locks of a transaction differ from the rows by
\* what it changed, and it changed nothing elsewhere.
OwnBooks(p) ==
  \A u \in User :
    /\ lock[u] = p => ver[u].bal = row[u].bal + Change(p, u, "wallet")
    /\ lock[u] # p => Change(p, u, "wallet") = 0
    /\ itemLock[u] = p => Tokens(newItem[u]) = Tokens(item[u]) + Change(p, u, "token")
    /\ itemLock[u] # p => Change(p, u, "token") = 0

\* The rows of the token, the prediction and the bets that a transaction has
\* written, and what it wrote.
WroteToken(p)  == job[p].kind = "buy" /\ pc[p] \in {"hold", "commit"}
WrotePools(p)  == job[p].kind = "bet" /\ pc[p] \in {"bet", "commit"}
WroteStatus(p) == job[p].kind = "resolve" /\ pc[p] = "commit"
WroteBet(p)    == job[p].kind = "bet" /\ pc[p] = "commit"

OwnRows(p) ==
  /\ itemLock[Token] = p <=> WroteToken(p)
  /\ itemLock[Token] = p => newItem[Token] = supply[p] + job[p].amount
  /\ itemLock[Market] = p <=> WrotePools(p) \/ WroteStatus(p)
  /\ WrotePools(p) => newItem[Market] = InPool(item[Market], job[p].side, job[p].amount)
  /\ WroteStatus(p) => newItem[Market] = [item[Market] EXCEPT !.status = "resolved"]
  /\ \A b \in Session : itemLock[b] = p <=> b = p /\ WroteBet(p)
  /\ WroteBet(p) => newItem[p] = Bet(p)

\* Only a transaction under way has locks; what is not locked is committed.
StoresHold ==
  /\ row \in [User -> Wallet] /\ ver \in [User -> Wallet]
  /\ \A u \in User : lock[u] \in Running \cup {NoTx} /\ (lock[u] = NoTx => ver[u] = row[u])
  /\ \A i \in Item : itemLock[i] \in Running \cup {NoTx}
                     /\ (itemLock[i] = NoTx => newItem[i] = item[i])

\* A bet is in the table once its transaction is committed.
BetsStand == \A b \in Session : item[b] # NoItem <=> b \in CommittedBets

\* A resolution pays a bet at most once, and none before it has the list.
PaysOnce(p) ==
  /\ \A i, j \in DOMAIN todo[p] : todo[p][i] = todo[p][j] => i = j
  /\ \A b \in ToSet(todo[p]) : share[p][b] = 0
  /\ bets[p] \subseteq Kind("bet")
  /\ pc[p] \in {"idle", "list"} => \A b \in Session : share[p][b] = 0

Transactions == /\ TypeOK
                /\ StagesFit
                /\ StoresHold
                /\ BetsStand
                /\ \A p \in Running : OwnBooks(p) /\ OwnRows(p)
                /\ \A p \in Session : PaysOnce(p)

\* What a purchase read of the supply is no more than was sold, and leaves
\* room for it; as long as none overlaps another, it stays what is recorded.
PurchasesFit ==
  /\ \A p \in Running \cap Kind("buy") : /\ supply[p] + job[p].amount <= MaxSupply
                                         /\ supply[p] <= Bought(CommittedBuys)
  /\ raced \cap Kind("buy") = {} =>
       \A p, q \in Running \cap Kind("buy") : p = q /\ supply[p] = item[Token]

\* One resolution at most found no other under way; once it has the list, the
\* bets outside it are known to have overlapped it.
Deciding == (Running \cup Committed) \cap Kind("resolve")
ResolutionsFit ==
  /\ \A r, s \in Deciding \ raced : r = s
  /\ Resolutions # {} <=> item[Market].status = "resolved"
  /\ \A r \in Resolutions \cup Settling :
       ((Running \cup Committed) \cap Kind("bet")) \ raced \subseteq bets[r]

-----------------------------------------------------------------------------
(***************************************************************************)
(* Constants and numbers.                                                  *)
(***************************************************************************)
Rows == {Token, Market} \cup Session

\* The token, the prediction, the holdings and the bets are different rows.
LEMMA ItemsAreDistinct ==
  /\ \A u \in User : u \in Item /\ u # Token /\ u # Market /\ u \notin Session
  /\ \A p \in Session : p \in Item /\ p # Token /\ p # Market /\ p # NoTx
  /\ Token \in Item /\ Market \in Item /\ Token # Market
BY MarketAssumption, StoreAssumption DEF Item

\* A request is one of the three kinds, with the fields of its kind.
LEMMA JobsAreTyped ==
  ASSUME TypeOK, NEW p \in Session
  PROVE  /\ job[p].kind \in {"buy", "bet", "resolve"}
         /\ job[p].kind = "buy" => job[p].user \in User /\ job[p].amount \in Nat \ {0}
         /\ job[p].kind = "bet" => /\ job[p].user \in User /\ job[p].amount \in Nat \ {0}
                                   /\ job[p].side \in Sides /\ job[p].cur \in Currency
         /\ job[p].kind = "resolve" => job[p].side \in Sides
<1>1. job[p] \in Job
  BY DEF TypeOK
<1>2. QED
  BY <1>1 DEF Job

\* Arithmetic that the provers do not find inside larger goals.
LEMMA ProductIsNatural == \A m, n \in Nat : m * n \in Nat
OBVIOUS

\* One less than a positive number.
LEMMA DifferenceIsNatural == \A n \in Nat \ {0} : n - 1 \in Nat
OBVIOUS

\* The sum of an arithmetic series, halved in BuyToken.
LEMMA HalfIsNatural == \A n \in Nat : n \div 2 \in Nat
OBVIOUS

\* The price of a purchase is a natural number.
LEMMA CostIsNatural ==
  ASSUME TypeOK, NEW p \in Kind("buy")
  PROVE  Cost(p) \in Nat
<1>1. p \in Session /\ job[p].amount \in Nat \ {0} /\ supply[p] \in Nat
  BY JobsAreTyped DEF Kind, TypeOK
<1> DEFINE n == job[p].amount
           half == (n * (n - 1)) \div 2
           steep == n * supply[p] + half
<1>2. n * BasePrice \in Nat /\ n * supply[p] \in Nat /\ half \in Nat
  BY <1>1, ProductIsNatural, DifferenceIsNatural, HalfIsNatural, MarketAssumption
<1>3. steep \in Nat
  <2> HIDE DEF half
  <2>1. QED
    BY <1>2
<1>4. Slope * steep \in Nat
  <2> HIDE DEF steep
  <2>1. QED
    BY <1>3, ProductIsNatural, MarketAssumption
<1>5. n * BasePrice + Slope * steep \in Nat
  <2> HIDE DEF steep, n
  <2>1. QED
    BY <1>2, <1>4
<1>6. QED
  BY <1>5 DEF Cost

\* The bets a user made are requests, and finitely many.
LEMMA BetsAreRequests ==
  ASSUME NEW u, NEW c
  PROVE  /\ BetsOf(u, c) \subseteq Session /\ IsFiniteSet(BetsOf(u, c))
         /\ \A b \in Session : b \in BetsOf(u, c) <=>
              job[b].kind = "bet" /\ job[b].user = u /\ job[b].cur = c
<1>1. BetsOf(u, c) \subseteq Session
  BY DEF BetsOf, InCurrency, OfUser, Kind
<1>2. QED
  BY <1>1, FS_Subset, MarketAssumption DEF BetsOf, InCurrency, OfUser, Kind

\* What a transaction changed is a number.
LEMMA ChangeIsInteger ==
  ASSUME TypeOK, NEW p \in Session, NEW u, NEW c
  PROVE  Change(p, u, c) \in Int
<1>1. CASE job[p].kind = "resolve"
  <2>1. \A b \in BetsOf(u, c) : share[p][b] \in Nat
    BY BetsAreRequests DEF TypeOK
  <2>2. SumFunctionOnSet(share[p], BetsOf(u, c)) \in Nat
    BY <2>1, BetsAreRequests, SumIsNatural
  <2>3. QED
    BY <1>1, <2>2 DEF Change
<1>2. CASE job[p].kind = "buy"
  BY <1>2, JobsAreTyped, CostIsNatural DEF Change, Kind
<1>3. CASE job[p].kind = "bet"
  BY <1>3, JobsAreTyped DEF Change
<1>4. QED
  BY <1>1, <1>2, <1>3, JobsAreTyped

\* Integer division, and the share of a winner without its stake.
LEMMA QuotientIsNatural ==
  \A n, d \in Nat : d # 0 => /\ n \div d \in Nat
                             /\ n # 0 /\ n % d = 0 => n \div d - 1 \in Nat
OBVIOUS

\* A stake times a pool that is not empty.
LEMMA ProductIsPositive == \A m, n \in Nat \ {0} : m * n \in Nat \ {0}
OBVIOUS

\* What bets stake is a natural number, and not nothing when there are any.
LEMMA StakesAreNatural ==
  ASSUME TypeOK, NEW B, B \subseteq Session \ Kind("resolve")
  PROVE  /\ IsFiniteSet(B) /\ \A b \in B : Amounts[b] = job[b].amount /\ Amounts[b] \in Nat \ {0}
         /\ Stakes(B) \in Nat
         /\ B # {} => Stakes(B) # 0
<1>1. IsFiniteSet(B)
  BY FS_Subset, MarketAssumption
<1>2. \A b \in B : Amounts[b] = job[b].amount /\ Amounts[b] \in Nat \ {0}
  BY JobsAreTyped DEF Amounts, Kind
<1>3. Stakes(B) \in Nat
  BY <1>1, <1>2, SumIsNatural DEF Stakes
<1>4. ASSUME NEW b \in B PROVE Stakes(B) # 0
  <2>1. IsFiniteSet(B \ {b}) /\ \A x \in B \ {b} : Amounts[x] \in Nat
    BY <1>1, <1>2, FS_Subset
  <2>2. Stakes(B \ {b}) \in Nat
    BY <2>1, SumIsNatural DEF Stakes
  <2>3. Stakes(B) = Amounts[b] + Stakes(B \ {b})
    BY <1>1, <1>2, SumRemove DEF Stakes, Integral
  <2>4. QED
    BY <1>2, <2>2, <2>3
<1>5. QED
  BY <1>1, <1>2, <1>3, <1>4

\* What is paid for a bet of the list is a natural number.
LEMMA PayoutsAreNatural ==
  ASSUME TypeOK, NEW p \in Session, bets[p] \subseteq Kind("bet"), NEW b \in bets[p],
         NEW n \in Payouts(p, b)
  PROVE  n \in Nat
<1>1. bets[p] \subseteq Session \ Kind("resolve") /\ b \in Session /\ job[b].amount \in Nat \ {0}
  BY JobsAreTyped DEF Kind
<1>2. CASE ~Contested(p, bets[p])
  BY <1>1, <1>2 DEF Payouts
<1>3. CASE Contested(p, bets[p])
  <2> DEFINE W == Winning(p, bets[p])
             s == Stakes(bets[p])
             num == job[b].amount * s * 95
             den == Stakes(W) * 100
  <2>1. W # {} /\ W \subseteq bets[p]
    BY <1>3 DEF Contested, Winning
  <2>2. s \in Nat \ {0} /\ Stakes(W) \in Nat \ {0}
    BY <1>1, <2>1, StakesAreNatural
  <2>3. job[b].amount * s \in Nat \ {0}
    <3> HIDE DEF s
    <3>1. QED
      BY <1>1, <2>2, ProductIsPositive
  <2>4. num \in Nat \ {0} /\ den \in Nat \ {0}
    <3> DEFINE x == job[b].amount * s
               y == Stakes(W)
    <3> HIDE DEF x, y
    <3>1. x * 95 \in Nat \ {0} /\ y * 100 \in Nat \ {0}
      BY <2>2, <2>3 DEF x, y
    <3>2. QED
      BY <3>1 DEF x, y
  <2>5. n \in {num \div den} \cup (IF num % den = 0 THEN {num \div den - 1} ELSE {})
    BY <1>3 DEF Payouts
  <2> HIDE DEF num, den
  <2>6. num \div den \in Nat /\ (num % den = 0 => num \div den - 1 \in Nat)
    BY <2>4, QuotientIsNatural
  <2>7. QED
    BY <2>5, <2>6
<1>4. QED
  BY <1>2, <1>3

-----------------------------------------------------------------------------
(***************************************************************************)
(* What a step does to the two stores, spelled out row by row.             *)
(***************************************************************************)
\* Transaction p changes what user u has in currency c by d.
Moves(p, u, c, d) ==
  /\ c \in Currency
  /\ UNCHANGED <<row, item>>
  /\ c = "wallet" => /\ UNCHANGED <<newItem, itemLock>>
                     /\ lock[u] \in {NoTx, p} /\ lock' = [lock EXCEPT ![u] = p]
                     /\ ver' \in [User -> Wallet] /\ ver'[u].bal = ver[u].bal + d
                     /\ \A v \in User \ {u} : ver'[v] = ver[v]
  /\ c = "token"  => /\ UNCHANGED <<ver, lock>>
                     /\ itemLock[u] \in {NoTx, p} /\ itemLock' = [itemLock EXCEPT ![u] = p]
                     /\ DOMAIN newItem' = Item /\ newItem'[u] \in Int
                     /\ Tokens(newItem'[u]) = Tokens(newItem[u]) + d
                     /\ \A i \in Item \ {u} : newItem'[i] = newItem[i]

\* Transaction p writes row i of the second store.
Writes(p, i, v) ==
  /\ UNCHANGED <<row, ver, lock, item>>
  /\ itemLock[i] \in {NoTx, p} /\ itemLock' = [itemLock EXCEPT ![i] = p]
  /\ newItem' = [newItem EXCEPT ![i] = v]

Debited(p) == /\ At(p, "debit") /\ job[p].kind = "buy"
              /\ Moves(p, job[p].user, "wallet", -Cost(p))
              /\ Goto(p, "supply") /\ UNCHANGED locals
Supplied(p) == /\ At(p, "supply") /\ job[p].kind = "buy"
               /\ Writes(p, Token, supply[p] + job[p].amount)
               /\ Goto(p, "hold") /\ UNCHANGED locals
Held(p) == /\ At(p, "hold") /\ job[p].kind = "buy"
           /\ Moves(p, job[p].user, "token", job[p].amount)
           /\ Goto(p, "commit") /\ UNCHANGED locals
Staked(p) == /\ At(p, "stake") /\ job[p].kind = "bet"
             /\ Moves(p, job[p].user, job[p].cur, -job[p].amount)
             /\ Goto(p, "pool") /\ UNCHANGED locals
Pooled(p) == /\ At(p, "pool") /\ job[p].kind = "bet"
             /\ Writes(p, Market, InPool(item[Market], job[p].side, job[p].amount))
             /\ Goto(p, "bet") /\ UNCHANGED locals
Placed(p) == /\ At(p, "bet") /\ job[p].kind = "bet"
             /\ Writes(p, p, Bet(p))
             /\ Goto(p, "commit") /\ UNCHANGED locals
PaidFor(p) == /\ At(p, "pay") /\ job[p].kind = "resolve" /\ todo[p] # <<>>
              /\ \E n \in Payouts(p, Head(todo[p])) :
                   /\ Moves(p, job[Head(todo[p])].user, job[Head(todo[p])].cur, n)
                   /\ share' = [share EXCEPT ![p][Head(todo[p])] = n]
              /\ todo' = [todo EXCEPT ![p] = Tail(@)]
              /\ UNCHANGED <<pc, job, supply, bets, raced>>
PassedOver(p) == /\ At(p, "pay") /\ job[p].kind = "resolve" /\ todo[p] # <<>>
                 /\ todo' = [todo EXCEPT ![p] = Tail(@)]
                 /\ UNCHANGED <<storeVars, itemVars, pc, job, supply, bets, share, raced>>
Marked(p) == /\ At(p, "pay") /\ job[p].kind = "resolve" /\ todo[p] = <<>>
             /\ Writes(p, Market, [item[Market] EXCEPT !.status = "resolved"])
             /\ Goto(p, "commit") /\ UNCHANGED locals

\* The locks of p are given up, and its new versions kept or dropped.
Released(p) == /\ lock' = [u \in User |-> IF lock[u] = p THEN NoTx ELSE lock[u]]
               /\ itemLock' = [i \in Item |-> IF itemLock[i] = p THEN NoTx ELSE itemLock[i]]
Kept(p) == /\ At(p, "commit") /\ UNCHANGED <<ver, newItem, locals>> /\ Released(p)
           /\ row' = [u \in User |-> IF lock[u] = p THEN ver[u] ELSE row[u]]
           /\ item' = [i \in Item |-> IF itemLock[i] = p THEN newItem[i] ELSE item[i]]
           /\ \E l \in {"done", "lost"} : Goto(p, l)
Undone(p) == /\ p \in Running /\ UNCHANGED <<row, item, locals>> /\ Released(p)
             /\ ver' = [u \in User |-> IF lock[u] = p THEN row[u] ELSE ver[u]]
             /\ newItem' = [i \in Item |-> IF itemLock[i] = p THEN item[i] ELSE newItem[i]]
             /\ Goto(p, "failed")

Reads(p)   == ReadToken(p) \/ ReadForBet(p) \/ ReadForResolution(p) \/ ListBets(p) \/ PassedOver(p)
Changes(p) == Debited(p) \/ Held(p) \/ Staked(p) \/ PaidFor(p)
Records(p) == Supplied(p) \/ Pooled(p) \/ Placed(p) \/ Marked(p)

Debits(p, u, a)  == Move(p, "debit", u, a, TRUE)
Credits(p, u, a) == Move(p, "credit", u, a, TRUE)
Stores(p, i, v)  == Table!Write(p, i, v, TRUE)

\* A row a transaction may write is the newest version, locked or not.
LEMMA NewestIsSeen ==
  ASSUME StoresHold, NEW p \in Session
  PROVE  /\ \A u \in User : Unlocked(p, u) => Seen(p, u) = ver[u]
         /\ \A i \in Item : Table!Unlocked(p, i) => Table!Seen(p, i) = newItem[i]
BY StoreAssumption DEF StoresHold, Unlocked, Seen, Table!Unlocked, Table!Seen

\* A debit takes the amount off, a credit adds it.
LEMMA DebitMoves ==
  ASSUME TypeOK, StoresHold, NEW p \in Session, NEW u \in User, NEW a \in Nat,
         Debits(p, u, a), UNCHANGED itemVars
  PROVE  Moves(p, u, "wallet", -a)
<1>1. /\ row' = row /\ lock[u] \in {NoTx, p} /\ lock' = [lock EXCEPT ![u] = p]
      /\ Seen(p, u).bal >= a
      /\ ver' = [ver EXCEPT ![u] = DebitBalance(Seen(p, u), a)]
  BY DEF Debits, Move, Covered, Write, Lock, Unlocked, Moved
<1>2. Seen(p, u) = ver[u]
  BY <1>1, NewestIsSeen DEF Unlocked
<1>3. ver[u] \in Wallet /\ ver[u].bal \in Nat /\ ver[u].frz \in Nat /\ ver[u].bal - a \in Nat
  BY <1>1, <1>2 DEF StoresHold, Wallet
<1>4. DebitBalance(ver[u], a) \in Wallet /\ DebitBalance(ver[u], a).bal = ver[u].bal + (-a)
  BY <1>3 DEF DebitBalance, Wallet
<1>5. QED
  BY <1>1, <1>2, <1>4 DEF Moves, StoresHold, itemVars, Currency

\* A credit of a wallet in a transaction moves what it names.
LEMMA CreditMoves ==
  ASSUME TypeOK, StoresHold, NEW p \in Session, NEW u \in User, NEW a \in Nat,
         Credits(p, u, a), UNCHANGED itemVars
  PROVE  Moves(p, u, "wallet", a)
<1>1. /\ row' = row /\ lock[u] \in {NoTx, p} /\ lock' = [lock EXCEPT ![u] = p]
      /\ ver' = [ver EXCEPT ![u] = CreditBalance(Seen(p, u), a)]
  BY DEF Credits, Move, Write, Lock, Unlocked, Moved
<1>2. Seen(p, u) = ver[u]
  BY <1>1, NewestIsSeen DEF Unlocked
<1>3. ver[u] \in Wallet /\ ver[u].bal \in Nat /\ ver[u].frz \in Nat
  BY DEF StoresHold, Wallet
<1>4. CreditBalance(ver[u], a) \in Wallet /\ CreditBalance(ver[u], a).bal = ver[u].bal + a
  BY <1>3 DEF CreditBalance, Wallet
<1>5. QED
  BY <1>1, <1>2, <1>4 DEF Moves, StoresHold, itemVars, Currency

\* A statement on the second store, and what it means for a holding.
LEMMA StoreWrites ==
  ASSUME NEW p, NEW i, NEW v, Stores(p, i, v), UNCHANGED storeVars
  PROVE  Writes(p, i, v) /\ Table!Unlocked(p, i)
BY DEF Stores, Table!Write, Table!Lock, Table!Unlocked, Writes, storeVars

\* So does a change of a holding, and an INSERT moves from nothing.
LEMMA TokensMove ==
  ASSUME TypeOK, StoresHold, NEW p \in Session, NEW u \in User, NEW n \in Int,
         AddTokens(p, u, n), UNCHANGED storeVars
  PROVE  Moves(p, u, "token", n)
<1> DEFINE h == Holding(p, u)
           k == IF h = NoItem THEN n ELSE h + n
<1>1. Stores(p, u, k)
  BY DEF AddTokens, Stores
<1> HIDE DEF k
<1>2. Writes(p, u, k) /\ Table!Unlocked(p, u)
  BY <1>1, StoreWrites
<1>3. h = newItem[u] /\ newItem[u] \in Int \cup {NoItem} /\ u \in Item /\ DOMAIN newItem = Item
  BY <1>2, NewestIsSeen, ItemsAreDistinct DEF Holding, TypeOK
<1>4. k \in Int /\ Tokens(k) = Tokens(newItem[u]) + n
  BY <1>3, MarketAssumption DEF Tokens, k
<1>5. QED
  BY <1>2, <1>3, <1>4 DEF Moves, Writes, storeVars, Currency

\* Head and tail of the list of bets to pay.
LEMMA ListOfBets ==
  ASSUME NEW s \in Seq(Session), s # <<>>, \A i, j \in DOMAIN s : s[i] = s[j] => i = j
  PROVE  /\ Head(s) \in Session /\ Head(s) \in ToSet(s) /\ Head(s) \notin ToSet(Tail(s))
         /\ Tail(s) \in Seq(Session) /\ ToSet(Tail(s)) \subseteq ToSet(s)
         /\ \A i, j \in DOMAIN Tail(s) : Tail(s)[i] = Tail(s)[j] => i = j
BY DEF ToSet

\* The bet a resolution pays next is one of the bets it read.
LEMMA NextBet ==
  ASSUME Transactions, NEW p \in Session, todo[p] # <<>>
  PROVE  /\ Head(todo[p]) \in Session /\ Head(todo[p]) \in bets[p]
         /\ job[Head(todo[p])].kind = "bet"
         /\ job[Head(todo[p])].user \in User /\ job[Head(todo[p])].cur \in Currency
         /\ \A n \in Payouts(p, Head(todo[p])) : n \in Nat
<1>1. /\ todo[p] \in Seq(Session) /\ ToSet(todo[p]) \subseteq bets[p]
      /\ \A i, j \in DOMAIN todo[p] : todo[p][i] = todo[p][j] => i = j
      /\ bets[p] \subseteq Kind("bet") /\ TypeOK
  BY DEF Transactions, PaysOnce, TypeOK
<1>2. Head(todo[p]) \in Session /\ Head(todo[p]) \in bets[p]
  BY <1>1, ListOfBets
<1>3. QED
  BY <1>1, <1>2, JobsAreTyped, PayoutsAreNatural DEF Kind

\* A transaction that fails is undone.
LEMMA UndoUndoes ==
  ASSUME NEW p \in Running, Undo(p)
  PROVE  Undone(p)
BY DEF Undo, Undone, Released, Rollback, Table!Rollback

\* Every step is one of these.
LEMMA NextCases ==
  ASSUME Transactions, [Next]_vars
  PROVE  \/ UNCHANGED vars
         \/ \E p \in Session : Reads(p) \/ Changes(p) \/ Records(p) \/ Kept(p) \/ Undone(p)
<1> USE DEF At
<1>0. /\ TypeOK /\ StoresHold
      /\ \A p \in Session : job[p].kind \in {"buy", "bet", "resolve"}
      /\ \A p \in Session : pc[p] \in Stage(job[p].kind) \cup Outside
  BY JobsAreTyped DEF Transactions, StagesFit
<1>1. /\ \A p \in Session : pc[p] \in {"debit", "supply", "hold"} => job[p].kind = "buy"
      /\ \A p \in Session : pc[p] \in {"stake", "pool", "bet"} => job[p].kind = "bet"
      /\ \A p \in Session : pc[p] \in {"list", "pay"} => job[p].kind = "resolve"
  BY <1>0 DEF Stage, Outside
<1>2. \A p \in Session : pc[p] \in Labels \ Outside => p \in Running
  BY DEF Running, Outside
<1>3. ASSUME NEW p \in Session, BuyToken(p) PROVE Reads(p) \/ Changes(p) \/ Records(p) \/ Undone(p)
  <2>1. CASE ReadToken(p)
    BY <2>1 DEF Reads
  <2>2. CASE DebitBuyer(p)
    <3>1. pc[p] = "debit" /\ p \in Kind("buy") /\ p \in Running
      BY <1>1, <1>2, <2>2 DEF DebitBuyer, Kind, Labels, Outside
    <3>2. job[p].user \in User /\ Cost(p) \in Nat
      BY <1>0, <3>1, JobsAreTyped, CostIsNatural DEF Kind
    <3>3. CASE Undo(p)
      BY <3>1, <3>3, UndoUndoes
    <3>4. CASE ~Undo(p)
      <4>1. Debits(p, job[p].user, Cost(p)) /\ Goto(p, "supply") /\ UNCHANGED <<itemVars, locals>>
        BY <2>2, <3>4, Zenon DEF DebitBuyer, Debits
      <4>2. Moves(p, job[p].user, "wallet", -Cost(p))
        BY <1>0, <3>2, <4>1, DebitMoves
      <4>3. QED
        BY <3>1, <4>1, <4>2 DEF Changes, Debited, Kind
    <3>5. QED
      BY <3>3, <3>4
  <2>3. CASE UpdateTokenSupply(p)
    <3>1. Stores(p, Token, supply[p] + job[p].amount) /\ UNCHANGED storeVars
      BY <2>3, Zenon DEF UpdateTokenSupply, Stores
    <3>2. Writes(p, Token, supply[p] + job[p].amount)
      BY <3>1, StoreWrites
    <3>3. At(p, "supply") /\ Goto(p, "hold") /\ UNCHANGED locals
      BY <2>3, Zenon DEF UpdateTokenSupply
    <3>4. QED
      BY <1>1, <3>2, <3>3 DEF Records, Supplied
  <2>4. CASE AddHolding(p)
    <3>1. pc[p] = "hold" /\ job[p].kind = "buy" /\ p \in Running
      BY <1>1, <1>2, <2>4 DEF AddHolding, Labels, Outside
    <3>2. job[p].user \in User /\ job[p].amount \in Int
      BY <1>0, <3>1, JobsAreTyped
    <3>3. CASE Undo(p)
      BY <3>1, <3>3, UndoUndoes
    <3>4. CASE ~Undo(p)
      <4>1. AddTokens(p, job[p].user, job[p].amount) /\ Goto(p, "commit") /\ UNCHANGED <<storeVars, locals>>
        BY <2>4, <3>4, Zenon DEF AddHolding
      <4>2. Moves(p, job[p].user, "token", job[p].amount)
        BY <1>0, <3>2, <4>1, TokensMove
      <4>3. QED
        BY <3>1, <4>1, <4>2 DEF Changes, Held
    <3>5. QED
      BY <3>3, <3>4
  <2>5. QED
    BY <1>3, <2>1, <2>2, <2>3, <2>4 DEF BuyToken
<1>4. ASSUME NEW p \in Session, PlaceBet(p) PROVE Reads(p) \/ Changes(p) \/ Records(p) \/ Undone(p)
  <2>1. CASE ReadForBet(p)
    BY <2>1 DEF Reads
  <2>2. CASE Stake(p)
    <3>1. pc[p] = "stake" /\ job[p].kind = "bet" /\ p \in Running
      BY <1>1, <1>2, <2>2 DEF Stake, Labels, Outside
    <3>2. job[p].user \in User /\ job[p].amount \in Nat /\ -job[p].amount \in Int
      BY <1>0, <3>1, JobsAreTyped
    <3>3. CASE Undo(p)
      BY <3>1, <3>3, UndoUndoes
    <3>4. CASE ~Undo(p)
      <4>1. /\ Goto(p, "pool") /\ UNCHANGED locals
            /\ \/ /\ job[p].cur = "wallet" /\ Debits(p, job[p].user, job[p].amount)
                  /\ UNCHANGED itemVars
               \/ /\ job[p].cur = "token" /\ AddTokens(p, job[p].user, -job[p].amount)
                  /\ UNCHANGED storeVars
        BY <2>2, <3>4, Zenon DEF Stake, Debits
      <4>2. Moves(p, job[p].user, job[p].cur, -job[p].amount)
        BY <1>0, <3>2, <4>1, DebitMoves, TokensMove
      <4>3. QED
        BY <3>1, <4>1, <4>2 DEF Changes, Staked
    <3>5. QED
      BY <3>3, <3>4
  <2>3. CASE UpdatePools(p)
    <3>1. At(p, "pool") /\ Goto(p, "bet") /\ UNCHANGED <<storeVars, locals>>
      BY <2>3, Zenon DEF UpdatePools
    <3>2. Stores(p, Market, InPool(Table!Seen(p, Market), job[p].side, job[p].amount))
      BY <2>3, Zenon DEF UpdatePools, Stores
    <3>3. /\ Writes(p, Market, InPool(Table!Seen(p, Market), job[p].side, job[p].amount))
          /\ Table!Unlocked(p, Market)
      BY <3>1, <3>2, StoreWrites
    <3>4. Table!Seen(p, Market) = item[Market]
      <4>1. job[p].kind = "bet" /\ p \in Running
        BY <1>1, <1>2, <3>1 DEF Labels, Outside
      <4>2. itemLock[Market] # p
        BY <3>1, <4>1 DEF Transactions, OwnRows, WrotePools, WroteStatus
      <4>3. QED
        BY <4>2 DEF Table!Seen
    <3>5. QED
      BY <1>1, <3>1, <3>3, <3>4 DEF Records, Pooled
  <2>4. CASE CreateBet(p)
    <3>1. Stores(p, p, Bet(p)) /\ UNCHANGED storeVars
      BY <2>4, Zenon DEF CreateBet, Stores
    <3>2. Writes(p, p, Bet(p))
      BY <3>1, StoreWrites
    <3>3. At(p, "bet") /\ Goto(p, "commit") /\ UNCHANGED locals
      BY <2>4, Zenon DEF CreateBet
    <3>4. QED
      BY <1>1, <3>2, <3>3 DEF Records, Placed
  <2>5. QED
    BY <1>4, <2>1, <2>2, <2>3, <2>4 DEF PlaceBet
<1>5. ASSUME NEW p \in Session, ResolvePrediction(p)
      PROVE  Reads(p) \/ Changes(p) \/ Records(p) \/ Undone(p)
  <2>1. CASE ReadForResolution(p) \/ ListBets(p)
    BY <2>1 DEF Reads
  <2>2. CASE PayNext(p)
    <3> DEFINE b == Head(todo[p])
    <3>1. /\ pc[p] = "pay" /\ todo[p] # <<>> /\ todo' = [todo EXCEPT ![p] = Tail(@)]
          /\ UNCHANGED <<pc, job, supply, bets, raced>>
      BY <2>2, Zenon DEF PayNext
    <3>2. PICK n \in Payouts(p, b) :
            \/ PayBet(p, b, n) /\ share' = [share EXCEPT ![p][b] = n]
            \/ UNCHANGED <<storeVars, itemVars, share>>
      BY <2>2, Zenon DEF PayNext
    <3>3. b \in Session /\ job[b].user \in User /\ n \in Nat
      BY <3>1, <3>2, NextBet
    <3>4. CASE UNCHANGED <<storeVars, itemVars, share>>
      BY <1>1, <3>1, <3>4 DEF Reads, PassedOver
    <3>5. CASE PayBet(p, b, n) /\ share' = [share EXCEPT ![p][b] = n]
      <4>1. \/ job[b].cur = "wallet" /\ Credits(p, job[b].user, n) /\ UNCHANGED itemVars
            \/ job[b].cur = "token" /\ AddTokens(p, job[b].user, n) /\ UNCHANGED storeVars
        BY <3>5, Zenon DEF PayBet, Credits
      <4>2. Moves(p, job[b].user, job[b].cur, n)
        BY <1>0, <3>3, <4>1, CreditMoves, TokensMove
      <4>3. QED
        BY <1>1, <3>1, <3>2, <3>5, <4>2 DEF Changes, PaidFor
    <3>6. QED
      BY <3>2, <3>4, <3>5
  <2>3. CASE MarkResolved(p)
    <3>1. /\ At(p, "pay") /\ todo[p] = <<>> /\ Goto(p, "commit") /\ UNCHANGED <<storeVars, locals>>
      BY <2>3, Zenon DEF MarkResolved
    <3>2. Stores(p, Market, [Table!Seen(p, Market) EXCEPT !.status = "resolved"])
      BY <2>3, Zenon DEF MarkResolved, Stores
    <3>3. Writes(p, Market, [Table!Seen(p, Market) EXCEPT !.status = "resolved"])
      BY <3>1, <3>2, StoreWrites
    <3>4. Table!Seen(p, Market) = item[Market]
      <4>1. job[p].kind = "resolve" /\ p \in Running
        BY <1>1, <1>2, <3>1 DEF Labels, Outside
      <4>2. itemLock[Market] # p
        BY <3>1, <4>1 DEF Transactions, OwnRows, WrotePools, WroteStatus
      <4>3. QED
        BY <4>2 DEF Table!Seen
    <3>5. QED
      BY <1>1, <3>1, <3>3, <3>4 DEF Records, Marked
  <2>4. QED
    BY <1>5, <2>1, <2>2, <2>3 DEF ResolvePrediction
<1>6. ASSUME NEW p \in Session, CommitTx(p) PROVE Kept(p)
  BY <1>6 DEF CommitTx, Kept, Released, Commit, Table!Commit
<1>7. ASSUME NEW p \in Session, DeadlockVictim(p) PROVE Undone(p)
  <2>1. p \in Running
    <3>1. \E q \in Session : q \in Blockers(p)
      BY <1>7 DEF DeadlockVictim, Deadlocked
    <3>2. Blockers(p) # {}
      BY <3>1
    <3>3. pc[p] \in {"debit", "supply", "hold", "stake", "pool", "pay"}
      BY <3>2, Zenon DEF Blockers
    <3>4. QED
      BY <3>3 DEF Running
  <2>2. QED
    BY <1>7, <2>1, UndoUndoes DEF DeadlockVictim
<1>8. ASSUME NEW p \in Session, Fails(p) PROVE Undone(p)
  BY <1>8, UndoUndoes DEF Fails
<1>9. QED
  BY <1>3, <1>4, <1>5, <1>6, <1>7, <1>8 DEF Next, Step, Finished

-----------------------------------------------------------------------------
(***************************************************************************)
(* A step of one request leaves the transactions of the others alone.      *)
(***************************************************************************)
Acts(p) == Reads(p) \/ Changes(p) \/ Records(p) \/ Kept(p) \/ Undone(p)

Apart(p) ==
  /\ UNCHANGED job
  /\ \A q \in Session \ {p} :
       /\ pc'[q] = pc[q] /\ supply'[q] = supply[q] /\ bets'[q] = bets[q]
       /\ todo'[q] = todo[q] /\ share'[q] = share[q]
  /\ \A u \in User : /\ lock'[u] \in {lock[u], p, NoTx}
                     /\ lock[u] \notin {p, NoTx} =>
                          lock'[u] = lock[u] /\ ver'[u] = ver[u] /\ row'[u] = row[u]
  /\ \A i \in Item : /\ itemLock'[i] \in {itemLock[i], p, NoTx}
                     /\ itemLock[i] \notin {p, NoTx} =>
                          itemLock'[i] = itemLock[i] /\ newItem'[i] = newItem[i] /\ item'[i] = item[i]

\* The functions of the state, as far as the steps update them.
Tables == /\ pc \in [Session -> Labels] /\ supply \in [Session -> Nat]
          /\ bets \in [Session -> SUBSET Session]
          /\ todo \in [Session -> Seq(Session)]
          /\ share \in [Session -> [Session -> Nat]]
          /\ lock \in [User -> Session \cup {NoTx}]
          /\ itemLock \in [Item -> Session \cup {NoTx}]
          /\ DOMAIN item = Item /\ DOMAIN newItem = Item

\* A step of a request touches its own rows and its own variables only.
LEMMA StepsStayApart ==
  ASSUME Tables, NEW p \in Session, Acts(p)
  PROVE  Apart(p)
<1> USE ItemsAreDistinct DEF Tables, Apart, locals, At, Goto
<1>1. CASE Reads(p)
  <2>1. UNCHANGED <<row, ver, lock, item, newItem, itemLock, job>>
    BY <1>1 DEF Reads, ReadToken, ReadForBet, ReadForResolution, ListBets, PassedOver, storeVars, itemVars
  <2>2. CASE ReadToken(p)
    BY <2>1, <2>2 DEF ReadToken
  <2>3. CASE ReadForBet(p)
    BY <2>1, <2>3 DEF ReadForBet
  <2>4. CASE ReadForResolution(p)
    BY <2>1, <2>4 DEF ReadForResolution
  <2>5. CASE ListBets(p)
    BY <2>1, <2>5 DEF ListBets
  <2>6. CASE PassedOver(p)
    BY <2>1, <2>6 DEF PassedOver
  <2>7. QED
    BY <1>1, <2>2, <2>3, <2>4, <2>5, <2>6 DEF Reads
<1>2. CASE Debited(p)
  BY <1>2 DEF Debited, Moves
<1>3. CASE Held(p)
  BY <1>3 DEF Held, Moves
<1>4. CASE Staked(p)
  BY <1>4 DEF Staked, Moves, Currency
<1>5. CASE PaidFor(p)
  <2>1. PICK u, c, n : Moves(p, u, c, n)
    BY <1>5 DEF PaidFor
  <2>2. /\ UNCHANGED <<pc, job, supply, bets>>
        /\ \A q \in Session \ {p} : todo'[q] = todo[q] /\ share'[q] = share[q]
    BY <1>5 DEF PaidFor
  <2>3. CASE c = "wallet"
    BY <2>1, <2>2, <2>3 DEF Moves
  <2>4. CASE c = "token"
    BY <2>1, <2>2, <2>4 DEF Moves
  <2>5. QED
    BY <2>1, <2>3, <2>4 DEF Moves, Currency
<1>6. CASE Records(p)
  BY <1>6 DEF Records, Supplied, Pooled, Placed, Marked, Writes
<1>7. CASE Kept(p)
  BY <1>7 DEF Kept, Released
<1>8. CASE Undone(p)
  BY <1>8 DEF Undone, Released
<1>9. QED
  BY <1>1, <1>2, <1>3, <1>4, <1>5, <1>6, <1>7, <1>8 DEF Acts, Changes

\* Which bets are of a user depends on the requests alone.
LEMMA BetsOfKept ==
  ASSUME UNCHANGED job, NEW u, NEW c
  PROVE  BetsOf(u, c)' = BetsOf(u, c)
BY DEF BetsOf, InCurrency, OfUser, Kind

\* What a transaction has changed depends on its own variables.
LEMMA ChangeKept ==
  ASSUME UNCHANGED job, NEW q \in Session,
         pc'[q] = pc[q], supply'[q] = supply[q], share'[q] = share[q], NEW u, NEW c
  PROVE  Change(q, u, c)' = Change(q, u, c)
<1>1. BetsOf(u, c)' = BetsOf(u, c)
  BY BetsOfKept
<1>2. Cost(q)' = Cost(q)
  BY DEF Cost
<1>3. QED
  BY <1>1, <1>2, Zenon DEF Change

\* What holds of the transaction of another request still holds after the step.
LEMMA OthersKeepTheirBooks ==
  ASSUME NEW p \in Session, Apart(p), NEW q \in Session \ {p}, OwnBooks(q)
  PROVE  OwnBooks(q)'
<1> SUFFICES ASSUME NEW u \in User
             PROVE  /\ lock'[u] = q => ver'[u].bal = row'[u].bal + Change(q, u, "wallet")'
                    /\ lock'[u] # q => Change(q, u, "wallet")' = 0
                    /\ itemLock'[u] = q => Tokens(newItem'[u]) = Tokens(item'[u]) + Change(q, u, "token")'
                    /\ itemLock'[u] # q => Change(q, u, "token")' = 0
  BY DEF OwnBooks, Tokens
<1>1. /\ Change(q, u, "wallet")' = Change(q, u, "wallet")
      /\ Change(q, u, "token")' = Change(q, u, "token")
  BY ChangeKept DEF Apart
<1>2. q # NoTx /\ q # p /\ u \in Item
  BY ItemsAreDistinct
<1>3. /\ lock'[u] = q <=> lock[u] = q
      /\ lock[u] = q => ver'[u] = ver[u] /\ row'[u] = row[u]
      /\ itemLock'[u] = q <=> itemLock[u] = q
      /\ itemLock[u] = q => newItem'[u] = newItem[u] /\ item'[u] = item[u]
  BY <1>2 DEF Apart
<1>4. QED
  BY <1>1, <1>3 DEF OwnBooks

\* And of the rows it has written.
LEMMA OthersKeepTheirRows ==
  ASSUME NEW p \in Session, Apart(p), NEW q \in Session \ {p}, OwnRows(q)
  PROVE  OwnRows(q)'
<1>1. q # NoTx /\ q # p /\ Token \in Item /\ Market \in Item /\ Session \subseteq Item
  BY ItemsAreDistinct
<1>2. \A i \in Item : /\ itemLock'[i] = q <=> itemLock[i] = q
                      /\ itemLock[i] = q => newItem'[i] = newItem[i] /\ item'[i] = item[i]
  BY <1>1 DEF Apart
<1>3. /\ job' = job /\ pc'[q] = pc[q] /\ supply'[q] = supply[q]
  BY DEF Apart
<1>4. /\ WroteToken(q)' = WroteToken(q) /\ WrotePools(q)' = WrotePools(q)
      /\ WroteStatus(q)' = WroteStatus(q) /\ WroteBet(q)' = WroteBet(q)
      /\ Bet(q)' = Bet(q)
  BY <1>3 DEF WroteToken, WrotePools, WroteStatus, WroteBet, Bet
<1>5. QED
  BY <1>1, <1>2, <1>3, <1>4 DEF OwnRows

\* And of the bets it has paid.
LEMMA OthersPayOnce ==
  ASSUME NEW p \in Session, Apart(p), NEW q \in Session \ {p}, PaysOnce(q)
  PROVE  PaysOnce(q)'
BY DEF Apart, PaysOnce, Kind, ToSet

-----------------------------------------------------------------------------
(***************************************************************************)
(* Types, stages and stores.                                               *)
(***************************************************************************)
Pools == [status : {"active", "resolved"}, yes : Nat, no : Nat]

RowsTyped(t) == /\ DOMAIN t = Item
                /\ t[Token] \in Nat /\ t[Market] \in Pools
                /\ \A u \in User : t[u] \in Int \cup {NoItem}
                /\ \A b \in Session : t[b] # NoItem => b \in Kind("bet") /\ t[b] = Bet(b)

LocalsTyped == /\ pc \in [Session -> Labels] /\ job \in [Session -> Job]
               /\ supply \in [Session -> Nat] /\ bets \in [Session -> SUBSET Session]
               /\ todo \in [Session -> Seq(Session)]
               /\ share \in [Session -> [Session -> Nat]] /\ raced \subseteq Session

ListsTyped == \A p \in Session : ToSet(todo[p]) \subseteq bets[p]

\* The type invariant, taken apart into rows, variables and lists.
LEMMA TypesTogether ==
  TypeOK <=> /\ StoreTypeOK /\ itemLock \in [Item -> Session \cup {NoTx}]
             /\ RowsTyped(item) /\ RowsTyped(newItem) /\ LocalsTyped /\ ListsTyped
BY DEF TypeOK, RowsTyped, LocalsTyped, ListsTyped, Pools

\* What most steps need of the types.
LEMMA TablesAreTyped ==
  ASSUME Transactions
  PROVE  Tables
BY TypesTogether DEF Transactions, StoreTypeOK, LocalsTyped, RowsTyped, Tables

\* The variables of a request keep their types.
LEMMA LocalsStayTyped ==
  ASSUME Transactions, NEW p \in Session, Acts(p)
  PROVE  LocalsTyped'
<1>1. LocalsTyped /\ TypeOK
  BY TypesTogether DEF Transactions
<1> USE DEF LocalsTyped, At, Goto, locals, Labels
<1>2. CASE ReadToken(p)
  <2>1. item[Token] \in Nat
    BY <1>1 DEF TypeOK
  <2>2. QED
    BY <1>1, <1>2, <2>1 DEF ReadToken
<1>3. CASE ReadForBet(p)
  BY <1>1, <1>3 DEF ReadForBet
<1>4. CASE ReadForResolution(p)
  BY <1>1, <1>4 DEF ReadForResolution
<1>5. CASE ListBets(p)
  <2> DEFINE B == {b \in Session : item[b] # NoItem}
             P == IF Contested(p, B) THEN Winning(p, B) ELSE B
  <2>1. /\ bets' = [bets EXCEPT ![p] = B] /\ pc' = [pc EXCEPT ![p] = "pay"]
        /\ raced' = raced \cup (Running \cap Kind("bet"))
        /\ UNCHANGED <<job, supply, share>>
        /\ \E order \in SetToSeqs(P) : todo' = [todo EXCEPT ![p] = order]
    BY <1>5, Zenon DEF ListBets
  <2>2. B \in SUBSET Session /\ P \in SUBSET Session
    BY DEF Winning
  <2>3. raced' \subseteq Session
    BY <1>1, <2>1 DEF Kind
  <2> HIDE DEF B, P
  <2>4. \A order \in SetToSeqs(P) : order \in Seq(Session)
    BY <2>2, FS_Subset, FS_CardinalityType, MarketAssumption DEF SetToSeqs
  <2>5. QED
    BY <1>1, <2>1, <2>2, <2>3, <2>4
<1>6. CASE PassedOver(p)
  <2>1. Tail(todo[p]) \in Seq(Session)
    BY <1>1, <1>6 DEF PassedOver
  <2>2. QED
    BY <1>1, <1>6, <2>1 DEF PassedOver
<1>7. CASE Changes(p) /\ ~PaidFor(p)
  BY <1>1, <1>7 DEF Changes, Debited, Held, Staked
<1>8. CASE PaidFor(p)
  <2>1. Head(todo[p]) \in Session /\ \A n \in Payouts(p, Head(todo[p])) : n \in Nat
    BY <1>8, NextBet DEF PaidFor
  <2>2. Tail(todo[p]) \in Seq(Session)
    BY <1>1, <1>8 DEF PaidFor
  <2>3. /\ \E n \in Nat : share' = [share EXCEPT ![p][Head(todo[p])] = n]
        /\ todo' = [todo EXCEPT ![p] = Tail(todo[p])]
        /\ UNCHANGED <<pc, job, supply, bets, raced>>
    BY <1>8, <2>1 DEF PaidFor
  <2>4. share' \in [Session -> [Session -> Nat]]
    BY <1>1, <2>1, <2>3
  <2>5. QED
    BY <1>1, <2>2, <2>3, <2>4
<1>9. CASE Records(p)
  BY <1>1, <1>9 DEF Records, Supplied, Pooled, Placed, Marked
<1>10. CASE Kept(p)
  BY <1>1, <1>10 DEF Kept
<1>11. CASE Undone(p)
  BY <1>1, <1>11 DEF Undone
<1>12. QED
  BY <1>2, <1>3, <1>4, <1>5, <1>6, <1>7, <1>8, <1>9, <1>10, <1>11 DEF Acts, Reads, Changes

\* The list of a resolution is of bets it read, each once; what it has paid
\* for those to come is nothing.
LEMMA ListsStayRight ==
  ASSUME Transactions, NEW p \in Session, Acts(p)
  PROVE  ToSet(todo'[p]) \subseteq bets'[p] /\ PaysOnce(p)'
<1>1. PaysOnce(p) /\ ToSet(todo[p]) \subseteq bets[p] /\ TypeOK /\ Tables
  BY TablesAreTyped DEF Transactions, TypeOK
<1>2. UNCHANGED job
  BY <1>1, StepsStayApart DEF Apart
<1>3. Kind("bet")' = Kind("bet")
  BY <1>2 DEF Kind
<1>4. CASE ListBets(p)
  <2> DEFINE B == {b \in Session : item[b] # NoItem}
             P == IF Contested(p, B) THEN Winning(p, B) ELSE B
  <2>1. /\ pc[p] = "list" /\ pc'[p] = "pay" /\ bets'[p] = B
        /\ todo'[p] \in SetToSeqs(P) /\ share' = share
    BY <1>1, <1>4 DEF ListBets, At, Goto, Tables
  <2>2. P \subseteq B /\ B \subseteq Session /\ B \subseteq Kind("bet") /\ IsFiniteSet(P)
    <3>1. P \subseteq B /\ B \subseteq Session
      BY DEF Winning
    <3>2. B \subseteq Kind("bet")
      BY <1>1 DEF TypeOK
    <3> HIDE DEF P, B
    <3>3. QED
      BY <3>1, <3>2, FS_Subset, MarketAssumption
  <2> HIDE DEF P, B
  <2>3. /\ todo'[p] \in Seq(P)
        /\ \A i, j \in DOMAIN todo'[p] : todo'[p][i] = todo'[p][j] => i = j
    BY <2>1, <2>2, FS_CardinalityType DEF SetToSeqs
  <2>4. todo'[p] \in Seq(Session) /\ ToSet(todo'[p]) \subseteq P
    BY <2>2, <2>3 DEF ToSet
  <2>5. \A b \in Session : share[p][b] = 0
    BY <1>1, <2>1 DEF PaysOnce
  <2>6. QED
    BY <1>3, <2>1, <2>2, <2>3, <2>4, <2>5 DEF PaysOnce
<1>5. CASE todo[p] # <<>> /\ todo' = [todo EXCEPT ![p] = Tail(@)] /\ UNCHANGED <<pc, bets>>
           /\ (share' = share \/ \E n \in Nat : share' = [share EXCEPT ![p][Head(todo[p])] = n])
           /\ pc[p] = "pay"
  <2> DEFINE s == todo[p]
             t == todo'[p]
  <2>1. t = Tail(s)
    BY <1>1, <1>5 DEF Tables
  <2>2. s \in Seq(Session) /\ s # <<>> /\ \A i, j \in DOMAIN s : s[i] = s[j] => i = j
    BY <1>1, <1>5 DEF PaysOnce, Tables
  <2> HIDE DEF t
  <2>3. /\ Head(s) \in Session /\ Head(s) \notin ToSet(t) /\ t \in Seq(Session)
        /\ ToSet(t) \subseteq ToSet(s) /\ \A i, j \in DOMAIN t : t[i] = t[j] => i = j
    BY <2>1, <2>2, ListOfBets
  <2>4. ToSet(s) \subseteq Session
    BY <2>2 DEF ToSet
  <2>5. \A b \in ToSet(t) : share'[p][b] = share[p][b] /\ share[p][b] = 0
    BY <1>1, <1>5, <2>3, <2>4 DEF PaysOnce, Tables
  <2>6. bets'[p] = bets[p] /\ pc'[p] = "pay"
    BY <1>5
  <2>7. QED
    BY <1>1, <1>3, <2>3, <2>5, <2>6 DEF PaysOnce, t
<1>6. CASE UNCHANGED <<bets, todo, share>> /\ (pc'[p] \in {"idle", "list"} => pc[p] = "idle")
  BY <1>1, <1>3, <1>6 DEF PaysOnce
<1>7. \/ ListBets(p)
      \/ todo[p] # <<>> /\ todo' = [todo EXCEPT ![p] = Tail(@)] /\ UNCHANGED <<pc, bets>>
         /\ (share' = share \/ \E n \in Nat : share' = [share EXCEPT ![p][Head(todo[p])] = n])
         /\ pc[p] = "pay"
      \/ UNCHANGED <<bets, todo, share>> /\ (pc'[p] \in {"idle", "list"} => pc[p] = "idle")
  <2> USE <1>1 DEF Tables, At, Goto, locals
  <2>1. CASE ReadToken(p) \/ ReadForBet(p) \/ ReadForResolution(p)
    BY <2>1 DEF ReadToken, ReadForBet, ReadForResolution
  <2>2. CASE PassedOver(p)
    BY <2>2 DEF PassedOver
  <2>3. CASE PaidFor(p)
    BY <2>3, NextBet DEF PaidFor
  <2>4. CASE Debited(p) \/ Held(p) \/ Staked(p)
    BY <2>4 DEF Debited, Held, Staked
  <2>5. CASE Records(p)
    BY <2>5 DEF Records, Supplied, Pooled, Placed, Marked
  <2>6. CASE Kept(p) \/ Undone(p)
    BY <2>6 DEF Kept, Undone
  <2>7. QED
    BY <2>1, <2>2, <2>3, <2>4, <2>5, <2>6 DEF Acts, Reads, Changes
<1>8. QED
  BY <1>4, <1>5, <1>6, <1>7

\* The stages of a request follow one another.
LEMMA StagesStayFit ==
  ASSUME Transactions, NEW p \in Session, Acts(p)
  PROVE  StagesFit'
<1>1. Tables /\ StagesFit /\ Apart(p)
  BY TablesAreTyped, StepsStayApart DEF Transactions
<1>2. pc'[p] \in Stage(job[p].kind) \cup Outside
  <2> USE <1>1 DEF Tables, StagesFit, Stage, Outside, At, Goto
  <2>1. CASE ReadToken(p)
    BY <2>1 DEF ReadToken
  <2>2. CASE ReadForBet(p)
    BY <2>2 DEF ReadForBet
  <2>3. CASE ReadForResolution(p)
    BY <2>3 DEF ReadForResolution
  <2>4. CASE ListBets(p)
    <3>1. pc[p] = "list" /\ pc' = [pc EXCEPT ![p] = "pay"]
      BY <2>4, Zenon DEF ListBets, At, Goto
    <3>2. job[p].kind \in {"buy", "bet", "resolve"}
      BY JobsAreTyped DEF Transactions
    <3>3. QED
      BY <3>1, <3>2
  <2>5. CASE PassedOver(p)
    BY <2>5 DEF PassedOver
  <2>6. CASE Changes(p)
    BY <2>6 DEF Changes, Debited, Held, Staked, PaidFor
  <2>7. CASE Records(p)
    BY <2>7 DEF Records, Supplied, Pooled, Placed, Marked
  <2>8. CASE Kept(p) \/ Undone(p)
    BY <2>8 DEF Kept, Undone
  <2>9. QED
    BY <2>1, <2>2, <2>3, <2>4, <2>5, <2>6, <2>7, <2>8 DEF Acts, Reads
<1>3. QED
  BY <1>1, <1>2 DEF Apart, StagesFit

\* For the stores there are five kinds of steps.
Calm == UNCHANGED <<row, ver, lock, item, newItem, itemLock>>

\* Each step is of one of the five kinds.
LEMMA StepShapes ==
  ASSUME Transactions, NEW p \in Session, Acts(p)
  PROVE  \/ Calm /\ (p \in Running => p \in Running')
         \/ \E u \in User, c \in Currency : \E d : Moves(p, u, c, d) /\ p \in Running'
         \/ Records(p) /\ p \in Running' /\ \E i \in Rows : \E v : Writes(p, i, v)
         \/ Kept(p)
         \/ Undone(p)
<1>0. TypeOK /\ Tables
  BY TablesAreTyped DEF Transactions
<1>1. CASE Reads(p)
  <2>1. Calm
    BY <1>1 DEF Calm, Reads, ReadToken, ReadForBet, ReadForResolution, ListBets, PassedOver, storeVars, itemVars
  <2>2. p \in Running => p \in Running'
    <3> USE <1>0 DEF Tables, Running, At, Goto
    <3>1. CASE ReadToken(p) \/ ReadForBet(p) \/ ReadForResolution(p)
      BY <3>1 DEF ReadToken, ReadForBet, ReadForResolution
    <3>2. CASE ListBets(p)
      BY <3>2 DEF ListBets
    <3>3. CASE PassedOver(p)
      BY <3>3 DEF PassedOver
    <3>4. QED
      BY <1>1, <3>1, <3>2, <3>3 DEF Reads
  <2>3. QED
    BY <2>1, <2>2
<1>2. CASE Changes(p)
  <2>1. p \in Running'
    BY <1>0, <1>2 DEF Changes, Debited, Held, Staked, PaidFor, At, Goto, Running, Tables
  <2>2. \E u \in User, c \in Currency : \E d : Moves(p, u, c, d)
    <3>1. CASE Debited(p) \/ Held(p)
      BY <1>0, <3>1, JobsAreTyped DEF Debited, Held, Currency
    <3>2. CASE Staked(p)
      BY <1>0, <3>2, JobsAreTyped DEF Staked
    <3>3. CASE PaidFor(p)
      BY <3>3, NextBet DEF PaidFor
    <3>4. QED
      BY <1>2, <3>1, <3>2, <3>3 DEF Changes
  <2>3. QED
    BY <2>1, <2>2
<1>3. CASE Records(p)
  <2>1. p \in Running'
    BY <1>0, <1>3 DEF Records, Supplied, Pooled, Placed, Marked, At, Goto, Running, Tables
  <2>2. \E i \in Rows : \E v : Writes(p, i, v)
    BY <1>3 DEF Records, Supplied, Pooled, Placed, Marked, Rows
  <2>3. QED
    BY <1>3, <2>1, <2>2
<1>4. QED
  BY <1>1, <1>2, <1>3 DEF Acts

\* What p locks is for a transaction under way, and what nobody locks is
\* committed.
LEMMA StoresStayRight ==
  ASSUME Transactions, NEW p \in Session, Acts(p)
  PROVE  StoresHold' /\ StoreTypeOK' /\ itemLock' \in [Item -> Session \cup {NoTx}]
<1> DEFINE Typed == /\ row' \in [User -> Wallet] /\ ver' \in [User -> Wallet]
                    /\ lock' \in [User -> Session \cup {NoTx}]
                    /\ itemLock' \in [Item -> Session \cup {NoTx}]
           Free == /\ \A u \in User : lock'[u] = NoTx => ver'[u] = row'[u]
                   /\ \A i \in Item : itemLock'[i] = NoTx => newItem'[i] = item'[i]
           Busy == p \in Running' \/ /\ \A u \in User : lock'[u] # p
                                     /\ \A i \in Item : itemLock'[i] # p
<1>1. Tables /\ StoresHold /\ Apart(p)
  BY TablesAreTyped, StepsStayApart DEF Transactions
<1>2. ASSUME Calm, p \in Running => p \in Running' PROVE Typed /\ Free /\ Busy
  BY <1>1, <1>2, ItemsAreDistinct DEF Calm, Tables, StoresHold
<1>3. ASSUME NEW u \in User, NEW c \in Currency, NEW d, Moves(p, u, c, d), p \in Running'
      PROVE  Typed /\ Free /\ Busy
  <2>1. ASSUME c = "wallet" PROVE Typed /\ Free
    <3>1. /\ UNCHANGED <<row, item, newItem, itemLock>> /\ lock' = [lock EXCEPT ![u] = p]
          /\ ver' \in [User -> Wallet] /\ \A v \in User \ {u} : ver'[v] = ver[v]
      BY <1>3, <2>1 DEF Moves
    <3>2. Typed
      BY <1>1, <3>1 DEF Tables, StoresHold
    <3>3. Free
      BY <1>1, <3>1, ItemsAreDistinct DEF Tables, StoresHold
    <3>4. QED
      BY <3>2, <3>3
  <2>2. ASSUME c = "token" PROVE Typed /\ Free
    <3>1. /\ UNCHANGED <<row, item, ver, lock>> /\ itemLock' = [itemLock EXCEPT ![u] = p]
          /\ \A i \in Item \ {u} : newItem'[i] = newItem[i]
      BY <1>3, <2>2 DEF Moves
    <3>2. Typed
      BY <1>1, <3>1 DEF Tables, StoresHold
    <3>3. Free
      BY <1>1, <3>1, ItemsAreDistinct DEF Tables, StoresHold
    <3>4. QED
      BY <3>2, <3>3
  <2>3. QED
    BY <1>3, <2>1, <2>2 DEF Currency
<1>4. ASSUME NEW i \in Rows, NEW v, Writes(p, i, v), p \in Running'
      PROVE  Typed /\ Free /\ Busy
  BY <1>1, <1>4, ItemsAreDistinct DEF Tables, StoresHold, Writes, Rows
<1>5. ASSUME Kept(p) PROVE Typed /\ Free /\ Busy
  BY <1>1, <1>5, ItemsAreDistinct DEF Tables, StoresHold, Kept, Released
<1>6. ASSUME Undone(p) PROVE Typed /\ Free /\ Busy
  BY <1>1, <1>6, ItemsAreDistinct DEF Tables, StoresHold, Undone, Released
<1>7. Typed /\ Free /\ Busy
  <2> HIDE DEF Typed, Free, Busy
  <2>1. QED
    BY <1>2, <1>3, <1>4, <1>5, <1>6, StepShapes
<1>8. \A q \in Session : q # p => (q \in Running' <=> q \in Running)
  BY <1>1 DEF Running, Apart
<1>9. ASSUME NEW u \in User PROVE lock'[u] \in Running' \cup {NoTx}
  <2>1. Running \subseteq Session
    BY DEF Running
  <2>2. QED
    BY <1>1, <1>7, <1>8, <2>1 DEF Apart, StoresHold
<1>10. ASSUME NEW i \in Item PROVE itemLock'[i] \in Running' \cup {NoTx}
  <2>1. Running \subseteq Session
    BY DEF Running
  <2>2. QED
    BY <1>1, <1>7, <1>8, <2>1 DEF Apart, StoresHold
<1>11. StoresHold'
  BY <1>7, <1>9, <1>10 DEF StoresHold
<1>12. QED
  BY <1>7, <1>11 DEF StoreTypeOK

\* What a row of the second store may be.
RowTyped(i, x) == /\ i = Token => x \in Nat
                  /\ i = Market => x \in Pools
                  /\ i \in User => x \in Int \cup {NoItem}
                  /\ i \in Session /\ x # NoItem => i \in Kind("bet") /\ x = Bet(i)

\* A store is typed when each of its rows is.
LEMMA RowByRow ==
  \A t : RowsTyped(t) <=> DOMAIN t = Item /\ \A i \in Item : RowTyped(i, t[i])
BY ItemsAreDistinct DEF RowsTyped, RowTyped, Item

\* The pools of a prediction stay natural numbers.
LEMMA PoolsAreTyped ==
  ASSUME NEW m \in Pools, NEW s \in Sides, NEW a \in Nat
  PROVE  InPool(m, s, a) \in Pools /\ [m EXCEPT !.status = "resolved"] \in Pools
BY DEF Pools, InPool, Sides

\* A bet is a row, and not the absence of one.
LEMMA BetIsARow ==
  ASSUME TypeOK, NEW p \in Kind("bet")
  PROVE  Bet(p) # NoItem
<1>1. Bet(p) \in [user : User, side : Sides, amount : Nat, cur : Currency]
  BY JobsAreTyped DEF Bet, Kind
<1>2. QED
  BY <1>1, MarketAssumption

\* The rows of the second store keep their types.
LEMMA RowsStayTyped ==
  ASSUME Transactions, NEW p \in Session, Acts(p)
  PROVE  RowsTyped(item)' /\ RowsTyped(newItem)'
<1>1. /\ Tables /\ TypeOK /\ Apart(p)
      /\ \A i \in Item : RowTyped(i, item[i]) /\ RowTyped(i, newItem[i])
  BY TablesAreTyped, StepsStayApart, TypesTogether, RowByRow DEF Transactions
<1> DEFINE Known(x, i) == x = item[i] \/ x = newItem[i] \/ RowTyped(i, x)
           Fine == /\ DOMAIN item' = Item /\ DOMAIN newItem' = Item
                   /\ \A i \in Item : Known(item'[i], i) /\ Known(newItem'[i], i)
<1>3. ASSUME Calm PROVE Fine
  BY <1>1, <1>3 DEF Calm, Tables
<1>4. ASSUME NEW u \in User, NEW c \in Currency, NEW d, Moves(p, u, c, d) PROVE Fine
  <2>1. CASE c = "wallet"
    BY <1>1, <1>4, <2>1 DEF Moves, Tables
  <2>2. CASE c = "token"
    <3>1. /\ item' = item /\ DOMAIN newItem' = Item /\ newItem'[u] \in Int
          /\ \A i \in Item \ {u} : newItem'[i] = newItem[i]
      BY <1>4, <2>2 DEF Moves
    <3>2. RowTyped(u, newItem'[u])
      BY <3>1, ItemsAreDistinct DEF RowTyped
    <3>3. QED
      BY <1>1, <3>1, <3>2 DEF Tables
  <2>3. QED
    BY <2>1, <2>2 DEF Currency
<1>5. ASSUME NEW i \in Item, NEW v, Writes(p, i, v), RowTyped(i, v) PROVE Fine
  <2>1. item' = item /\ newItem' = [newItem EXCEPT ![i] = v]
    BY <1>5 DEF Writes
  <2>2. QED
    BY <1>1, <1>5, <2>1 DEF Tables
<1>6. ASSUME Records(p) PROVE Fine
  <2>0. /\ item[Token] \in Nat /\ item[Market] \in Pools /\ supply[p] \in Nat
        /\ Token \in Item /\ Market \in Item /\ p \in Item
    BY <1>1, ItemsAreDistinct DEF RowTyped, Tables
  <2>1. CASE Supplied(p)
    <3>1. RowTyped(Token, supply[p] + job[p].amount) /\ Writes(p, Token, supply[p] + job[p].amount)
      BY <1>1, <2>0, <2>1, JobsAreTyped, ItemsAreDistinct DEF Supplied, RowTyped
    <3>2. QED
      BY <1>5, <2>0, <3>1
  <2>2. CASE Pooled(p)
    <3> DEFINE v == InPool(item[Market], job[p].side, job[p].amount)
    <3>1. v \in Pools /\ Writes(p, Market, v)
      BY <1>1, <2>0, <2>2, JobsAreTyped, PoolsAreTyped DEF Pooled
    <3> HIDE DEF v
    <3>2. RowTyped(Market, v)
      BY <3>1, ItemsAreDistinct DEF RowTyped
    <3>3. QED
      BY <1>5, <2>0, <3>1, <3>2
  <2>3. CASE Placed(p)
    <3>1. p \in Kind("bet") /\ Writes(p, p, Bet(p))
      BY <2>3 DEF Placed, Kind
    <3>2. RowTyped(p, Bet(p))
      BY <3>1, ItemsAreDistinct DEF RowTyped
    <3>3. QED
      BY <1>5, <2>0, <3>1, <3>2
  <2>4. CASE Marked(p)
    <3> DEFINE v == [item[Market] EXCEPT !.status = "resolved"]
    <3>1. v \in Pools /\ Writes(p, Market, v)
      BY <2>0, <2>4 DEF Marked, Pools
    <3> HIDE DEF v
    <3>2. RowTyped(Market, v)
      BY <3>1, ItemsAreDistinct DEF RowTyped
    <3>3. QED
      BY <1>5, <2>0, <3>1, <3>2
  <2>5. QED
    <3> HIDE DEF Fine
    <3>1. QED
      BY <1>6, <2>1, <2>2, <2>3, <2>4 DEF Records
<1>7. ASSUME Kept(p) PROVE Fine
  BY <1>1, <1>7 DEF Kept, Tables
<1>8. ASSUME Undone(p) PROVE Fine
  BY <1>1, <1>8 DEF Undone, Tables
<1>9. Fine
  <2> HIDE DEF Fine
  <2>1. QED
    BY <1>3, <1>4, <1>6, <1>7, <1>8, StepShapes
<1>10. \A i \in Item : RowTyped(i, item'[i]) /\ RowTyped(i, newItem'[i])
  BY <1>1, <1>9
<1>11. \A i \in Item : RowTyped(i, item[i])' /\ RowTyped(i, newItem[i])'
  BY <1>1, <1>10 DEF Apart, RowTyped, Kind, Bet
<1>12. QED
  BY <1>9, <1>11, ItemsAreDistinct DEF RowsTyped, RowTyped

\* Nothing is committed, and no row changes, but by a commit.
LEMMA CommitsAlone ==
  ASSUME Transactions, NEW p \in Session, Acts(p), ~Kept(p)
  PROVE  /\ UNCHANGED <<row, item>> /\ Committed' = Committed
         /\ p \notin Committed
<1>1. Tables /\ Apart(p)
  BY TablesAreTyped, StepsStayApart DEF Transactions
<1>2. UNCHANGED <<row, item>>
  BY StepShapes DEF Calm, Moves, Writes, Kept, Undone
<1>3. p \notin Committed /\ p \notin Committed'
  <2> USE <1>1 DEF Tables, Committed, At, Goto
  <2>1. CASE ReadToken(p) \/ ReadForBet(p) \/ ReadForResolution(p)
    BY <2>1 DEF ReadToken, ReadForBet, ReadForResolution
  <2>2. CASE ListBets(p) \/ PassedOver(p)
    BY <2>2 DEF ListBets, PassedOver
  <2>3. CASE Changes(p)
    BY <2>3 DEF Changes, Debited, Held, Staked, PaidFor
  <2>4. CASE Records(p)
    BY <2>4 DEF Records, Supplied, Pooled, Placed, Marked
  <2>5. CASE Undone(p)
    BY <2>5 DEF Undone, Running
  <2>6. QED
    BY <2>1, <2>2, <2>3, <2>4, <2>5 DEF Acts, Reads
<1>4. Committed' = Committed
  BY <1>1, <1>3 DEF Committed, Apart
<1>5. QED
  BY <1>2, <1>3, <1>4

\* A commit adds its request to the committed ones.
LEMMA CommitAddsOne ==
  ASSUME Transactions, NEW p \in Session, Kept(p)
  PROVE  /\ p \in Running /\ p \notin Committed /\ Committed' = Committed \cup {p}
         /\ UNCHANGED <<job, supply, bets, todo, share, raced>>
         /\ Running' = Running \ {p}
<1>1. pc \in [Session -> Labels]
  BY TablesAreTyped DEF Tables
<1>2. QED
  BY <1>1 DEF Kept, At, Goto, Committed, Running, locals

\* A bet is in the table once its transaction is committed.
LEMMA BetsStayThere ==
  ASSUME Transactions, NEW p \in Session, Acts(p)
  PROVE  BetsStand'
<1>1. BetsStand /\ TypeOK /\ Apart(p)
  BY TablesAreTyped, StepsStayApart DEF Transactions
<1>2. CASE ~Kept(p)
  BY <1>1, <1>2, CommitsAlone DEF BetsStand, CommittedBets, Kind, Apart
<1>3. CASE Kept(p)
  <2>1. /\ p \in Running /\ p \notin Committed /\ Committed' = Committed \cup {p} /\ job' = job
        /\ \A b \in Session : item'[b] = IF itemLock[b] = p THEN newItem[b] ELSE item[b]
    BY <1>3, CommitAddsOne, ItemsAreDistinct DEF Kept
  <2>2. OwnRows(p) /\ (WroteBet(p) <=> p \in Kind("bet"))
    BY <1>3, <2>1 DEF Transactions, WroteBet, Kind, Kept, At
  <2>3. ASSUME NEW b \in Session, b # p PROVE item'[b] # NoItem <=> b \in CommittedBets'
    BY <1>1, <2>1, <2>2, <2>3 DEF OwnRows, BetsStand, CommittedBets, Kind
  <2>4. item'[p] # NoItem <=> p \in CommittedBets'
    BY <1>1, <2>1, <2>2, BetIsARow DEF OwnRows, BetsStand, CommittedBets, Kind
  <2>5. QED
    BY <2>3, <2>4 DEF BetsStand
<1>4. QED
  BY <1>2, <1>3

-----------------------------------------------------------------------------
(***************************************************************************)
(* What the transaction of the acting request has done so far.             *)
(***************************************************************************)
\* Before its first statement a request holds nothing and has changed nothing.
LEMMA NothingBefore ==
  ASSUME Transactions, NEW p \in Session, p \notin Running
  PROVE  /\ \A u \in User : lock[u] # p
         /\ \A i \in Item : itemLock[i] # p
BY StoreAssumption DEF Transactions, StoresHold

\* A request that goes on has written the rows that its place in the code says.
LEMMA OwnRowsStay ==
  ASSUME Transactions, NEW p \in Session, Acts(p), p \in Running'
  PROVE  OwnRows(p)'
<1>1. /\ Tables /\ TypeOK /\ Apart(p)
      /\ p \in Running => OwnRows(p)
  BY TablesAreTyped, StepsStayApart DEF Transactions
<1>2. /\ Token \in Item /\ Market \in Item /\ Session \subseteq Item /\ User \subseteq Item
      /\ Token \notin Session /\ Market \notin Session /\ Token # Market
      /\ Token \notin User /\ Market \notin User /\ User \cap Session = {} /\ p # NoTx
  BY ItemsAreDistinct
<1>3. CASE Reads(p)
  <2>1. Calm
    BY <1>3 DEF Calm, Reads, ReadToken, ReadForBet, ReadForResolution, ListBets, PassedOver, storeVars, itemVars
  <2>2. /\ pc[p] \in {"idle", "list", "pay"} /\ pc'[p] \in {"debit", "stake", "list", "pay"}
    <3> USE <1>1 DEF Tables, At, Goto, Running
    <3>1. CASE ReadToken(p)
      BY <3>1 DEF ReadToken
    <3>2. CASE ReadForBet(p) \/ ReadForResolution(p)
      BY <3>2 DEF ReadForBet, ReadForResolution
    <3>3. CASE ListBets(p) \/ PassedOver(p)
      BY <3>3 DEF ListBets, PassedOver
    <3>4. QED
      BY <1>3, <3>1, <3>2, <3>3 DEF Reads
  <2>3. itemLock[Token] # p /\ itemLock[Market] # p /\ \A b \in Session : itemLock[b] # p
    <3>1. CASE p \in Running
      BY <1>1, <2>2, <3>1 DEF OwnRows, WroteToken, WrotePools, WroteStatus, WroteBet
    <3>2. CASE p \notin Running
      BY <1>2, <3>2, NothingBefore
    <3>3. QED
      BY <3>1, <3>2
  <2>4. ~WroteToken(p)' /\ ~WrotePools(p)' /\ ~WroteStatus(p)' /\ ~WroteBet(p)'
    BY <2>2 DEF WroteToken, WrotePools, WroteStatus, WroteBet
  <2>5. QED
    BY <2>1, <2>3, <2>4 DEF Calm, OwnRows
<1>4. CASE Changes(p)
  <2>1. PICK u \in User, c \in Currency : \E d : Moves(p, u, c, d)
    <3>1. CASE Debited(p) \/ Held(p)
      BY <1>1, <3>1, JobsAreTyped DEF Debited, Held, Currency
    <3>2. CASE Staked(p)
      BY <1>1, <3>2, JobsAreTyped DEF Staked
    <3>3. CASE PaidFor(p)
      BY <3>3, NextBet DEF PaidFor
    <3>4. QED
      BY <1>4, <3>1, <3>2, <3>3 DEF Changes
  <2>2. /\ item' = item
        /\ \A i \in Item \ User : newItem'[i] = newItem[i] /\ itemLock'[i] = itemLock[i]
    <3>1. CASE c = "wallet"
      BY <2>1, <3>1 DEF Moves
    <3>2. CASE c = "token"
      BY <1>1, <2>1, <3>2 DEF Moves, Tables
    <3>3. QED
      BY <3>1, <3>2 DEF Currency
  <2>3. /\ pc[p] \notin Outside /\ supply'[p] = supply[p] /\ job' = job
        /\ \/ job[p].kind = "buy" /\ pc[p] = "debit" /\ pc'[p] = "supply"
           \/ job[p].kind = "buy" /\ pc[p] = "hold" /\ pc'[p] = "commit"
           \/ job[p].kind = "bet" /\ pc[p] = "stake" /\ pc'[p] = "pool"
           \/ job[p].kind = "resolve" /\ pc[p] = "pay" /\ pc'[p] = "pay"
    BY <1>1, <1>4 DEF Changes, Debited, Held, Staked, PaidFor, At, Goto, Tables, Outside, locals
  <2>4. /\ WroteToken(p)' = WroteToken(p) /\ WrotePools(p)' = WrotePools(p)
        /\ WroteStatus(p)' = WroteStatus(p) /\ WroteBet(p)' = WroteBet(p) /\ Bet(p)' = Bet(p)
    BY <2>3 DEF WroteToken, WrotePools, WroteStatus, WroteBet, Bet
  <2>5. p \in Running
    BY <2>3 DEF Running, Outside
  <2>6. /\ Token \in Item \ User /\ Market \in Item \ User
        /\ \A b \in Session : b \in Item \ User
    BY <1>2
  <2>7. QED
    BY <1>1, <2>2, <2>3, <2>4, <2>5, <2>6 DEF OwnRows
<1>5. CASE Records(p)
  <2>1. p \in Running /\ OwnRows(p) /\ UNCHANGED <<job, supply, item>>
    BY <1>1, <1>5 DEF Records, Supplied, Pooled, Placed, Marked, Writes, At, Running, locals
  <2> DEFINE Wrote(i, v) == /\ itemLock'[i] = p /\ newItem'[i] = v
                            /\ \A j \in Item \ {i} : itemLock'[j] = itemLock[j] /\ newItem'[j] = newItem[j]
  <2>2. \A i \in Item : \A v : Writes(p, i, v) => Wrote(i, v)
    BY <1>1 DEF Writes, Tables
  <2>3. CASE Supplied(p)
    <3>1. Wrote(Token, supply[p] + job[p].amount)
      BY <1>2, <2>2, <2>3 DEF Supplied
    <3>2. job[p].kind = "buy" /\ pc[p] = "supply" /\ pc'[p] = "hold"
      BY <1>1, <2>3 DEF Supplied, At, Goto, Tables
    <3>3. QED
      BY <1>2, <2>1, <3>1, <3>2 DEF OwnRows, WroteToken, WrotePools, WroteStatus, WroteBet
  <2>4. CASE Pooled(p)
    <3>1. Wrote(Market, InPool(item[Market], job[p].side, job[p].amount))
      BY <1>2, <2>2, <2>4 DEF Pooled
    <3>2. job[p].kind = "bet" /\ pc[p] = "pool" /\ pc'[p] = "bet"
      BY <1>1, <2>4 DEF Pooled, At, Goto, Tables
    <3>3. QED
      BY <1>2, <2>1, <3>1, <3>2 DEF OwnRows, WroteToken, WrotePools, WroteStatus, WroteBet, InPool
  <2>5. CASE Placed(p)
    <3>1. Wrote(p, Bet(p)) /\ Bet(p)' = Bet(p)
      BY <1>2, <2>1, <2>2, <2>5 DEF Placed, Bet
    <3>2. job[p].kind = "bet" /\ pc[p] = "bet" /\ pc'[p] = "commit"
      BY <1>1, <2>5 DEF Placed, At, Goto, Tables
    <3>3. QED
      BY <1>2, <2>1, <3>1, <3>2 DEF OwnRows, WroteToken, WrotePools, WroteStatus, WroteBet, InPool
  <2>6. CASE Marked(p)
    <3>1. Wrote(Market, [item[Market] EXCEPT !.status = "resolved"])
      BY <1>2, <2>2, <2>6 DEF Marked
    <3>2. job[p].kind = "resolve" /\ pc[p] = "pay" /\ pc'[p] = "commit"
      BY <1>1, <2>6 DEF Marked, At, Goto, Tables
    <3>3. QED
      BY <1>2, <2>1, <3>1, <3>2 DEF OwnRows, WroteToken, WrotePools, WroteStatus, WroteBet
  <2>7. QED
    BY <1>5, <2>3, <2>4, <2>5, <2>6 DEF Records
<1>6. ~Kept(p) /\ ~Undone(p)
  BY <1>1 DEF Kept, Undone, Running, Goto, Tables
<1>7. QED
  BY <1>3, <1>4, <1>5, <1>6 DEF Acts

\* Balances and holdings are numbers.
LEMMA BalancesAreIntegers ==
  ASSUME Transactions, NEW u \in User
  PROVE  /\ row[u].bal \in Int /\ ver[u].bal \in Int
         /\ Tokens(item[u]) \in Int /\ Tokens(newItem[u]) \in Int
<1>1. row[u] \in Wallet /\ ver[u] \in Wallet
  BY DEF Transactions, StoresHold
<1>2. item[u] \in Int \cup {NoItem} /\ newItem[u] \in Int \cup {NoItem}
  BY DEF Transactions, TypeOK
<1>3. QED
  BY <1>1, <1>2 DEF Wallet, Tokens

\* When a transaction counts what it changes, its books stay right.
LEMMA MovesKeepBooks ==
  ASSUME Transactions, NEW p \in Session, OwnBooks(p),
         NEW u \in User, NEW c \in Currency, NEW d \in Int, Moves(p, u, c, d),
         \A v \in User, k \in Currency :
           Change(p, v, k)' = Change(p, v, k) + (IF v = u /\ k = c THEN d ELSE 0)
  PROVE  OwnBooks(p)'
<1> SUFFICES ASSUME NEW v \in User
             PROVE  /\ lock'[v] = p => ver'[v].bal = row'[v].bal + Change(p, v, "wallet")'
                    /\ lock'[v] # p => Change(p, v, "wallet")' = 0
                    /\ itemLock'[v] = p => Tokens(newItem'[v]) = Tokens(item'[v]) + Change(p, v, "token")'
                    /\ itemLock'[v] # p => Change(p, v, "token")' = 0
  BY DEF OwnBooks, Tokens
<1>1. Change(p, v, "wallet") \in Int /\ Change(p, v, "token") \in Int
  BY ChangeIsInteger DEF Transactions
<1>2. /\ lock[v] = p => ver[v].bal = row[v].bal + Change(p, v, "wallet")
      /\ lock[v] # p => Change(p, v, "wallet") = 0
      /\ itemLock[v] = p => Tokens(newItem[v]) = Tokens(item[v]) + Change(p, v, "token")
      /\ itemLock[v] # p => Change(p, v, "token") = 0
  BY DEF OwnBooks
<1>3. /\ row[v].bal \in Int /\ ver[v].bal \in Int
      /\ Tokens(item[v]) \in Int /\ Tokens(newItem[v]) \in Int
  BY BalancesAreIntegers
<1>4. /\ lock[v] = NoTx => ver[v] = row[v]
      /\ itemLock[v] = NoTx => newItem[v] = item[v]
      /\ Tables /\ v \in Item /\ u \in Item /\ p # NoTx
  BY TablesAreTyped, ItemsAreDistinct DEF Transactions, StoresHold
<1>5. CASE c = "wallet"
  <2>1. /\ Change(p, v, "wallet")' = Change(p, v, "wallet") + (IF v = u THEN d ELSE 0)
        /\ Change(p, v, "token")' = Change(p, v, "token")
    BY <1>1, <1>5 DEF Currency
  <2>2. /\ UNCHANGED <<row, item, newItem, itemLock>>
        /\ lock[u] \in {NoTx, p} /\ lock' = [lock EXCEPT ![u] = p]
        /\ ver'[u].bal = ver[u].bal + d /\ (v # u => ver'[v] = ver[v])
    BY <1>5 DEF Moves
  <2>3. row'[v] = row[v] /\ item'[v] = item[v] /\ newItem'[v] = newItem[v] /\ itemLock'[v] = itemLock[v]
    BY <2>2
  <2>4. /\ itemLock'[v] = p => Tokens(newItem'[v]) = Tokens(item'[v]) + Change(p, v, "token")'
        /\ itemLock'[v] # p => Change(p, v, "token")' = 0
    BY <1>2, <2>1, <2>3
  <2>5. /\ lock'[v] = IF v = u THEN p ELSE lock[v]
        /\ ver'[v].bal = IF v = u THEN ver[v].bal + d ELSE ver[v].bal
        /\ v = u => lock[v] \in {NoTx, p}
    BY <1>4, <2>2 DEF Tables
  <2>6. ver[v].bal = row[v].bal + Change(p, v, "wallet") \/ (v # u /\ lock[v] # p)
    BY <1>1, <1>2, <1>3, <1>4, <2>5
  <2> DEFINE x == ver[v].bal
             y == row[v].bal
             z == Change(p, v, "wallet")
  <2>7. lock'[v] = p => ver'[v].bal = row'[v].bal + Change(p, v, "wallet")'
    <3>1. ASSUME lock'[v] = p PROVE ver'[v].bal = y + Change(p, v, "wallet")'
      <4>1. x = y + z
        BY <2>5, <2>6, <3>1
      <4>2. x \in Int /\ y \in Int /\ z \in Int
        BY <1>1, <1>3
      <4>3. ver'[v].bal = x + (IF v = u THEN d ELSE 0) /\ Change(p, v, "wallet")' = z + (IF v = u THEN d ELSE 0)
        BY <2>1, <2>5, <4>2
      <4> HIDE DEF x, y, z
      <4>4. QED
        BY <4>1, <4>2, <4>3
    <3>2. QED
      BY <2>3, <3>1
  <2>8. lock'[v] # p => Change(p, v, "wallet")' = 0
    BY <1>2, <2>1, <2>5
  <2>9. QED
    BY <2>4, <2>7, <2>8
<1>6. CASE c = "token"
  <2>1. /\ Change(p, v, "token")' = Change(p, v, "token") + (IF v = u THEN d ELSE 0)
        /\ Change(p, v, "wallet")' = Change(p, v, "wallet")
    BY <1>1, <1>6 DEF Currency
  <2>2. /\ UNCHANGED <<row, item, ver, lock>>
        /\ itemLock[u] \in {NoTx, p} /\ itemLock' = [itemLock EXCEPT ![u] = p]
        /\ Tokens(newItem'[u]) = Tokens(newItem[u]) + d /\ (v # u => newItem'[v] = newItem[v])
    BY <1>4, <1>6 DEF Moves
  <2>3. row'[v] = row[v] /\ item'[v] = item[v] /\ ver'[v] = ver[v] /\ lock'[v] = lock[v]
    BY <2>2
  <2>4. /\ lock'[v] = p => ver'[v].bal = row'[v].bal + Change(p, v, "wallet")'
        /\ lock'[v] # p => Change(p, v, "wallet")' = 0
    BY <1>2, <2>1, <2>3
  <2>5. /\ itemLock'[v] = IF v = u THEN p ELSE itemLock[v]
        /\ v = u => itemLock[v] \in {NoTx, p}
    BY <1>4, <2>2 DEF Tables
  <2>6. Tokens(newItem'[v]) = IF v = u THEN Tokens(newItem[v]) + d ELSE Tokens(newItem[v])
    BY <2>2
  <2>7. Tokens(newItem[v]) = Tokens(item[v]) + Change(p, v, "token") \/ (v # u /\ itemLock[v] # p)
    BY <1>1, <1>2, <1>3, <1>4, <2>5
  <2> DEFINE x == Tokens(newItem[v])
             y == Tokens(item[v])
             z == Change(p, v, "token")
  <2>8. itemLock'[v] = p => Tokens(newItem'[v]) = Tokens(item'[v]) + Change(p, v, "token")'
    <3>1. ASSUME itemLock'[v] = p PROVE Tokens(newItem'[v]) = y + Change(p, v, "token")'
      <4>1. x = y + z
        BY <2>5, <2>7, <3>1
      <4>2. x \in Int /\ y \in Int /\ z \in Int
        BY <1>1, <1>3
      <4>3. /\ Tokens(newItem'[v]) = x + (IF v = u THEN d ELSE 0)
            /\ Change(p, v, "token")' = z + (IF v = u THEN d ELSE 0)
        BY <2>1, <2>6, <4>2
      <4> HIDE DEF x, y, z
      <4>4. QED
        BY <4>1, <4>2, <4>3
    <3>2. QED
      BY <2>3, <3>1
  <2>9. itemLock'[v] # p => Change(p, v, "token")' = 0
    BY <1>2, <2>1, <2>5
  <2>10. QED
    BY <2>4, <2>8, <2>9
<1>7. QED
  BY <1>5, <1>6 DEF Currency

\* When it changes nothing, too.
LEMMA StillBooks ==
  ASSUME NEW p \in Session, OwnBooks(p),
         \A u \in User : /\ lock'[u] = lock[u] /\ ver'[u] = ver[u] /\ row'[u] = row[u]
                         /\ itemLock'[u] = itemLock[u] /\ newItem'[u] = newItem[u] /\ item'[u] = item[u],
         \A u \in User, c \in Currency : Change(p, u, c)' = Change(p, u, c)
  PROVE  OwnBooks(p)'
<1>1. "wallet" \in Currency /\ "token" \in Currency
  BY DEF Currency
<1>2. \A u \in User : /\ Change(p, u, "wallet")' = Change(p, u, "wallet")
                      /\ Change(p, u, "token")' = Change(p, u, "token")
  BY <1>1
<1>3. QED
  BY <1>2 DEF OwnBooks, Tokens

\* A resolution's payments are its shares, wherever it is.
LEMMA SharesAreKept ==
  ASSUME UNCHANGED job, NEW p \in Session, job[p].kind = "resolve", share'[p] = share[p],
         NEW u, NEW c
  PROVE  Change(p, u, c)' = Change(p, u, c)
<1>1. BetsOf(u, c)' = BetsOf(u, c)
  BY BetsOfKept
<1>2. QED
  BY <1>1 DEF Change

\* A resolution that has paid no bet has moved nothing.
LEMMA NoSharesNoChange ==
  ASSUME NEW p \in Session, job[p].kind = "resolve", \A b \in Session : share[p][b] = 0,
         NEW u, NEW c
  PROVE  Change(p, u, c) = 0
<1>1. IsFiniteSet(BetsOf(u, c)) /\ \A b \in BetsOf(u, c) : share[p][b] = 0
  BY BetsAreRequests
<1>2. SumFunctionOnSet(share[p], BetsOf(u, c)) = 0
  BY <1>1, ZeroSum
<1>3. QED
  BY <1>2 DEF Change

\* The share of a bet not yet paid adds to what its user has.
LEMMA ShareIsAChange ==
  ASSUME Transactions, UNCHANGED job, NEW p \in Session, job[p].kind = "resolve",
         NEW b \in Session, job[b].kind = "bet", share[p][b] = 0,
         NEW n \in Nat, \A x \in Session : share'[p][x] = IF x = b THEN n ELSE share[p][x],
         NEW u, NEW c
  PROVE  Change(p, u, c)' = Change(p, u, c) + (IF u = job[b].user /\ c = job[b].cur THEN n ELSE 0)
<1> DEFINE B == BetsOf(u, c)
           f == share[p]
           g == share'[p]
<1>1. B' = B /\ IsFiniteSet(B) /\ B \subseteq Session
      /\ (b \in B <=> u = job[b].user /\ c = job[b].cur)
  BY BetsOfKept, BetsAreRequests
<1>2. \A x \in Session : f[x] \in Nat /\ g[x] = IF x = b THEN n ELSE f[x]
  BY TablesAreTyped DEF Tables
<1>3. Change(p, u, c) = SumFunctionOnSet(f, B) /\ Change(p, u, c)' = SumFunctionOnSet(g, B)
  BY <1>1 DEF Change
<1> HIDE DEF B, f, g
<1>4. Integral(f, B) /\ Integral(g, B) /\ \A x \in B \ {b} : f[x] = g[x]
  BY <1>1, <1>2 DEF Integral
<1>5. SumFunctionOnSet(g, B) = IF b \in B THEN SumFunctionOnSet(f, B) + g[b] - f[b]
                                          ELSE SumFunctionOnSet(f, B)
  BY <1>1, <1>4, SumChange
<1>6. SumFunctionOnSet(f, B) \in Int /\ f[b] = 0 /\ g[b] = n
  BY <1>1, <1>2, <1>4, SumIsInteger DEF f
<1>7. QED
  BY <1>1, <1>3, <1>5, <1>6

\* A request that goes on has moved what its place in the code says.
LEMMA OwnBooksStay ==
  ASSUME Transactions, NEW p \in Session, Acts(p), p \in Running'
  PROVE  OwnBooks(p)'
<1>1. /\ Tables /\ TypeOK /\ Apart(p) /\ PaysOnce(p)
      /\ p \in Running => OwnBooks(p)
  BY TablesAreTyped, StepsStayApart DEF Transactions
<1>2. job[p].kind \in {"buy", "bet", "resolve"} /\ UNCHANGED job
  BY <1>1, JobsAreTyped DEF Apart
<1>3. CASE ReadToken(p) \/ ReadForBet(p) \/ ReadForResolution(p)
  <2>1. /\ UNCHANGED <<row, ver, lock, item, newItem, itemLock, share>>
        /\ pc[p] = "idle"
    BY <1>3 DEF ReadToken, ReadForBet, ReadForResolution, storeVars, itemVars, At
  <2>2. p \notin Running
    BY <2>1 DEF Running
  <2>3. \/ job[p].kind = "buy" /\ pc'[p] = "debit"
        \/ job[p].kind = "bet" /\ pc'[p] = "stake"
        \/ job[p].kind = "resolve" /\ pc'[p] = "list"
    BY <1>1, <1>3 DEF ReadToken, ReadForBet, ReadForResolution, At, Goto, Tables, Running
  <2>4. \A u \in User : lock'[u] # p /\ itemLock'[u] # p
    BY <2>1, <2>2, NothingBefore, ItemsAreDistinct
  <2>5. ASSUME NEW u \in User, NEW c \in Currency PROVE Change(p, u, c)' = 0
    <3>1. CASE job[p].kind = "resolve"
      <4>1. Change(p, u, c) = 0
        BY <1>1, <2>1, <3>1, NoSharesNoChange DEF PaysOnce
      <4>2. Change(p, u, c)' = Change(p, u, c)
        BY <1>2, <2>1, <3>1, SharesAreKept
      <4>3. QED
        BY <4>1, <4>2
    <3>2. CASE job[p].kind # "resolve"
      BY <1>2, <2>3, <3>2 DEF Change
    <3>3. QED
      BY <3>1, <3>2
  <2>6. \A u \in User : Change(p, u, "wallet")' = 0 /\ Change(p, u, "token")' = 0
    BY <2>5 DEF Currency
  <2>7. QED
    BY <2>4, <2>6 DEF OwnBooks
<1>4. CASE ListBets(p) \/ PassedOver(p)
  <2>1. /\ UNCHANGED <<row, ver, lock, item, newItem, itemLock, share>>
        /\ pc[p] \in {"list", "pay"} /\ job[p].kind = "resolve"
    <3>1. CASE ListBets(p)
      <4>1. /\ UNCHANGED <<row, ver, lock, item, newItem, itemLock, share>> /\ pc[p] = "list"
        BY <3>1 DEF ListBets, storeVars, itemVars, At
      <4>2. StagesFit
        BY DEF Transactions
      <4>3. QED
        BY <1>2, <4>1, <4>2 DEF StagesFit, Stage, Outside
    <3>2. CASE PassedOver(p)
      BY <3>2 DEF PassedOver, storeVars, itemVars, At
    <3>3. QED
      BY <1>4, <3>1, <3>2
  <2>2. OwnBooks(p)
    BY <1>1, <2>1 DEF Running
  <2>3. \A u \in User, c \in Currency : Change(p, u, c)' = Change(p, u, c)
    BY <1>2, <2>1, SharesAreKept
  <2>4. QED
    BY <2>1, <2>2, <2>3, StillBooks
<1>5. ASSUME Changes(p) PROVE OwnBooks(p)
  <2>1. pc[p] \in {"debit", "hold", "stake", "pay"}
    BY <1>5 DEF Changes, Debited, Held, Staked, PaidFor, At
  <2>2. QED
    BY <1>1, <2>1 DEF Running
<1>6. CASE Debited(p) \/ Held(p) \/ Staked(p)
  <2>1. /\ UNCHANGED <<supply, share>>
        /\ \/ job[p].kind = "buy" /\ pc[p] = "debit" /\ pc'[p] = "supply"
              /\ Moves(p, job[p].user, "wallet", -Cost(p))
           \/ job[p].kind = "buy" /\ pc[p] = "hold" /\ pc'[p] = "commit"
              /\ Moves(p, job[p].user, "token", job[p].amount)
           \/ job[p].kind = "bet" /\ pc[p] = "stake" /\ pc'[p] = "pool"
              /\ Moves(p, job[p].user, job[p].cur, -job[p].amount)
    BY <1>1, <1>6 DEF Debited, Held, Staked, At, Goto, Tables, locals
  <2>2. Cost(p)' = Cost(p)
    BY <1>2, <2>1 DEF Cost
  <2>3. OwnBooks(p)
    BY <1>5, <1>6 DEF Changes
  <2>4. CASE job[p].kind = "buy"
    <3>1. /\ job[p].user \in User /\ job[p].amount \in Int /\ Cost(p) \in Nat /\ -Cost(p) \in Int
      BY <1>1, <2>4, JobsAreTyped, CostIsNatural DEF Kind
    <3> DEFINE cost == Cost(p)
    <3>2. CASE pc[p] = "debit"
      <4>1. \A v \in User, k \in Currency :
              Change(p, v, k)' = Change(p, v, k)
                                   + (IF v = job[p].user /\ k = "wallet" THEN -Cost(p) ELSE 0)
        <5>1. SUFFICES ASSUME NEW v \in User, NEW k \in Currency
                       PROVE  Change(p, v, k)' = Change(p, v, k)
                                + (IF v = job[p].user /\ k = "wallet" THEN -cost ELSE 0)
          OBVIOUS
        <5>2. Change(p, v, k) = 0
          BY <2>4, <3>2 DEF Change
        <5>3. Change(p, v, k)' = IF v = job[p].user /\ k = "wallet" THEN -cost ELSE 0
          BY <1>2, <2>1, <2>2, <2>4, <3>2 DEF Change, Currency
        <5> HIDE DEF cost
        <5>4. cost \in Int /\ -cost \in Int
          BY <3>1 DEF cost
        <5>5. QED
          BY <5>2, <5>3, <5>4
      <4>2. Moves(p, job[p].user, "wallet", -Cost(p))
        BY <2>1, <2>4, <3>2
      <4>3. QED
        BY <2>3, <3>1, <4>1, <4>2, MovesKeepBooks DEF Currency
    <3>3. CASE pc[p] = "hold"
      <4>1. \A v \in User, k \in Currency :
              Change(p, v, k)' = Change(p, v, k)
                                   + (IF v = job[p].user /\ k = "token" THEN job[p].amount ELSE 0)
        <5>1. SUFFICES ASSUME NEW v \in User, NEW k \in Currency
                       PROVE  Change(p, v, k)' = Change(p, v, k)
                                + (IF v = job[p].user /\ k = "token" THEN job[p].amount ELSE 0)
          OBVIOUS
        <5>2. Change(p, v, k) = IF v = job[p].user /\ k = "wallet" THEN -cost ELSE 0
          BY <2>4, <3>3 DEF Change, Currency
        <5>3. Change(p, v, k)' = IF v # job[p].user THEN 0
                                 ELSE IF k = "wallet" THEN -cost ELSE job[p].amount
          BY <1>2, <2>1, <2>2, <2>4, <3>3 DEF Change, Currency
        <5> HIDE DEF cost
        <5>4. cost \in Int /\ -cost \in Int
          BY <3>1 DEF cost
        <5>5. QED
          BY <3>1, <5>2, <5>3, <5>4 DEF Currency
      <4>2. Moves(p, job[p].user, "token", job[p].amount)
        BY <2>1, <2>4, <3>3
      <4>3. QED
        BY <2>3, <3>1, <4>1, <4>2, MovesKeepBooks DEF Currency
    <3>4. QED
      BY <2>1, <2>4, <3>2, <3>3
  <2>5. CASE job[p].kind = "bet"
    <3>1. /\ job[p].user \in User /\ job[p].amount \in Nat /\ -job[p].amount \in Int
          /\ job[p].cur \in Currency
          /\ pc[p] = "stake" /\ pc'[p] = "pool" /\ Moves(p, job[p].user, job[p].cur, -job[p].amount)
      BY <1>1, <2>1, <2>5, JobsAreTyped
    <3>2. \A v \in User, k \in Currency :
            Change(p, v, k)' = Change(p, v, k)
                                 + (IF v = job[p].user /\ k = job[p].cur THEN -job[p].amount ELSE 0)
      BY <1>2, <2>5, <3>1 DEF Change
    <3>3. QED
      BY <2>3, <3>1, <3>2, MovesKeepBooks
  <2>6. QED
    BY <2>1, <2>4, <2>5
<1>7. CASE PaidFor(p)
  <2> DEFINE b == Head(todo[p])
  <2>1. /\ job[p].kind = "resolve" /\ todo[p] # <<>> /\ todo[p] \in Seq(Session)
        /\ \A i, j \in DOMAIN todo[p] : todo[p][i] = todo[p][j] => i = j
        /\ \A x \in ToSet(todo[p]) : share[p][x] = 0
    BY <1>1, <1>7 DEF PaidFor, PaysOnce, Tables
  <2>2. /\ b \in Session /\ share[p][b] = 0 /\ job[b].kind = "bet"
        /\ job[b].user \in User /\ job[b].cur \in Currency
    BY <2>1, ListOfBets, NextBet
  <2>3. PICK n \in Nat : /\ Moves(p, job[b].user, job[b].cur, n)
                         /\ share' = [share EXCEPT ![p][b] = n]
    BY <1>7, <2>1, NextBet DEF PaidFor
  <2> HIDE DEF b
  <2>4. \A v \in User, k \in Currency :
          Change(p, v, k)' = Change(p, v, k)
                               + (IF v = job[b].user /\ k = job[b].cur THEN n ELSE 0)
    <3>1. SUFFICES ASSUME NEW v \in User, NEW k \in Currency
                   PROVE  Change(p, v, k)' = Change(p, v, k)
                            + (IF v = job[b].user /\ k = job[b].cur THEN n ELSE 0)
      OBVIOUS
    <3>2. UNCHANGED job /\ job[p].kind = "resolve"
      BY <1>2, <2>1
    <3>3. \A x \in Session : share'[p][x] = IF x = b THEN n ELSE share[p][x]
      BY <1>1, <2>2, <2>3 DEF Tables
    <3>4. QED
      BY <2>2, <3>2, <3>3, ShareIsAChange
  <2>5. OwnBooks(p) /\ n \in Int
    BY <1>5, <1>7 DEF Changes
  <2>6. QED
    BY <2>2, <2>3, <2>4, <2>5, MovesKeepBooks
<1>8. CASE Records(p)
  <2>1. /\ UNCHANGED <<supply, share, row, ver, lock, item>>
        /\ \A i \in Item \ {Token, Market, p} : itemLock'[i] = itemLock[i] /\ newItem'[i] = newItem[i]
        /\ pc[p] \in {"supply", "pool", "bet", "pay"}
    BY <1>1, <1>8 DEF Records, Supplied, Pooled, Placed, Marked, Writes, locals, Tables, At
  <2>2. OwnBooks(p)
    BY <1>1, <2>1 DEF Running
  <2>3. \A u \in User : u \in Item \ {Token, Market, p}
    BY ItemsAreDistinct
  <2>4. \/ job[p].kind = "buy" /\ pc[p] = "supply" /\ pc'[p] = "hold"
        \/ job[p].kind = "bet" /\ pc[p] = "pool" /\ pc'[p] = "bet"
        \/ job[p].kind = "bet" /\ pc[p] = "bet" /\ pc'[p] = "commit"
        \/ job[p].kind = "resolve"
    BY <1>1, <1>8 DEF Records, Supplied, Pooled, Placed, Marked, Tables, At, Goto
  <2>5. Cost(p)' = Cost(p)
    BY <1>2, <2>1 DEF Cost
  <2>6. ASSUME NEW u \in User, NEW c \in Currency PROVE Change(p, u, c)' = Change(p, u, c)
    <3>1. CASE job[p].kind = "resolve"
      BY <1>2, <2>1, <3>1, SharesAreKept
    <3>2. CASE job[p].kind # "resolve"
      BY <1>2, <2>4, <2>5, <3>2 DEF Change
    <3>3. QED
      BY <3>1, <3>2
  <2>7. QED
    BY <2>1, <2>2, <2>3, <2>6, StillBooks
<1>9. ~Kept(p) /\ ~Undone(p)
  BY <1>1 DEF Kept, Undone, Running, Goto, Tables
<1>10. QED
  BY <1>3, <1>4, <1>6, <1>7, <1>8, <1>9 DEF Acts, Reads, Changes

\* Every transaction keeps the invariant, whatever it does.
LEMMA TransactionsStay ==
  ASSUME Transactions, NEW p \in Session, Acts(p)
  PROVE  Transactions'
<1>1. /\ Tables /\ Apart(p) /\ TypeOK /\ UNCHANGED job
      /\ \A q \in Running : OwnBooks(q) /\ OwnRows(q)
      /\ \A q \in Session : PaysOnce(q)
  BY TablesAreTyped, StepsStayApart DEF Transactions, Apart
<1>2. ToSet(todo'[p]) \subseteq bets'[p] /\ PaysOnce(p)'
  BY ListsStayRight
<1>3. TypeOK'
  <2>1. ListsTyped'
    <3>1. \A q \in Session : ToSet(todo[q]) \subseteq bets[q]
      BY <1>1 DEF TypeOK
    <3>2. \A q \in Session \ {p} : todo'[q] = todo[q] /\ bets'[q] = bets[q]
      BY <1>1 DEF Apart
    <3>3. QED
      BY <1>2, <3>1, <3>2 DEF ListsTyped, ToSet
  <2>2. StoreTypeOK' /\ itemLock' \in [Item -> Session \cup {NoTx}]
    BY StoresStayRight
  <2>3. RowsTyped(item)' /\ RowsTyped(newItem)' /\ LocalsTyped'
    BY RowsStayTyped, LocalsStayTyped
  <2>4. QED
    BY <2>1, <2>2, <2>3 DEF TypeOK, RowsTyped, LocalsTyped, ListsTyped, Pools
<1>4. ASSUME NEW q \in Running' PROVE OwnBooks(q)' /\ OwnRows(q)'
  <2>1. q \in Session
    BY DEF Running
  <2>2. CASE q = p
    BY <2>2, OwnBooksStay, OwnRowsStay
  <2>3. CASE q # p
    <3>1. q \in Running
      BY <1>1, <2>1, <2>3 DEF Running, Apart
    <3>2. QED
      BY <1>1, <2>1, <2>3, <3>1, OthersKeepTheirBooks, OthersKeepTheirRows
  <2>4. QED
    BY <2>2, <2>3
<1>5. ASSUME NEW q \in Session PROVE PaysOnce(q)'
  BY <1>1, <1>2, OthersPayOnce
<1>6. StagesFit' /\ StoresHold' /\ BetsStand'
  BY StagesStayFit, StoresStayRight, BetsStayThere
<1>7. QED
  BY <1>3, <1>4, <1>5, <1>6 DEF Transactions

\* At first nothing is written and nobody holds a lock.
LEMMA TransactionsStart == Init => Transactions
<1> SUFFICES ASSUME Init PROVE Transactions
  OBVIOUS
<1>1. /\ row = Opening /\ ver = Opening /\ lock = [u \in User |-> NoTx]
      /\ item = newItem /\ itemLock = [i \in Item |-> NoTx]
      /\ pc = [p \in Session |-> "idle"] /\ job \in [Session -> Job]
      /\ supply = [p \in Session |-> 0] /\ bets = [p \in Session |-> {}]
      /\ todo = [p \in Session |-> <<>>] /\ raced = {}
      /\ share = [p \in Session |-> [b \in Session |-> 0]]
  BY MarketAssumption DEF Init, StoreInit
<1>2. /\ DOMAIN item = Item /\ item[Token] = 0
      /\ item[Market] = [status |-> "active", yes |-> 0, no |-> 0]
      /\ \A i \in User \cup Session : item[i] = NoItem
  BY ItemsAreDistinct DEF Init
<1>3. RowsTyped(item) /\ RowsTyped(newItem)
  BY <1>1, <1>2 DEF RowsTyped, Pools
<1>4. StoreTypeOK /\ itemLock \in [Item -> Session \cup {NoTx}]
  BY <1>1, MarketAssumption DEF StoreTypeOK
<1>5. LocalsTyped
  BY <1>1 DEF LocalsTyped, Labels
<1>6. ListsTyped
  BY <1>1 DEF ListsTyped, ToSet
<1>7. TypeOK
  BY <1>3, <1>4, <1>5, <1>6, TypesTogether
<1>8. Running = {} /\ Committed = {} /\ StagesFit
  BY <1>1 DEF Running, Committed, StagesFit, Outside
<1>9. StoresHold
  BY <1>1, MarketAssumption DEF StoresHold
<1>10. BetsStand
  BY <1>2, <1>8 DEF BetsStand, CommittedBets
<1>11. \A p \in Session : PaysOnce(p)
  BY <1>1 DEF PaysOnce, ToSet
<1>12. QED
  BY <1>7, <1>8, <1>9, <1>10, <1>11 DEF Transactions
-----------------------------------------------------------------------------
(***************************************************************************)
(* The sums over what is committed.                                        *)
(***************************************************************************)
Buys(u) == OfUser(u, Kind("buy"))
OnSide(s) == {b \in Kind("bet") : job[b].side = s}
Costs == [p \in Kind("buy") |-> Cost(p)]
Wins(u, c) == [r \in Session |-> SumFunctionOnSet(share[r], BetsOf(u, c))]

PaidBy(u)      == SumFunctionOnSet(Costs, Committed \cap Buys(u))
BoughtBy(u)    == SumFunctionOnSet(Amounts, Committed \cap Buys(u))
StakedBy(u, c) == SumFunctionOnSet(Amounts, Committed \cap BetsOf(u, c))
WonBy(u, c)    == SumFunctionOnSet(Wins(u, c), Committed \cap Kind("resolve"))
Sold           == SumFunctionOnSet(Amounts, Committed \cap Kind("buy"))
PoolOf(s)      == SumFunctionOnSet(Amounts, Committed \cap OnSide(s))

\* What a set sums to when one more of its requests commits.
LEMMA OneMoreTerm ==
  ASSUME NEW f, NEW T, IsFiniteSet(T), \A x \in T : f[x] \in Nat,
         NEW A \in SUBSET T, NEW p \in T, p \notin A
  PROVE  SumFunctionOnSet(f, A \cup {p}) = SumFunctionOnSet(f, A) + f[p]
<1>1. IsFiniteSet(A) /\ \A x \in A : f[x] \in Nat
  BY FS_Subset
<1>2. SumFunctionOnSet(f, A) \in Nat /\ f[p] \in Nat
  BY <1>1, SumIsNatural
<1>3. Integral(f, A \cup {p})
  BY <1>1 DEF Integral
<1>4. SumFunctionOnSet(f, A \cup {p}) = f[p] + SumFunctionOnSet(f, A)
  BY <1>1, <1>3, SumInsert
<1>5. QED
  BY <1>2, <1>4

\* The terms of these sums are natural numbers.
LEMMA TermsAreNatural ==
  ASSUME TypeOK
  PROVE  /\ \A S \in SUBSET Session : IsFiniteSet(S)
         /\ \A p \in Kind("buy") : Costs[p] = Cost(p) /\ Costs[p] \in Nat
         /\ \A p \in Kind("buy") \cup Kind("bet") :
              /\ p \in Session /\ p \notin Kind("resolve")
              /\ Amounts[p] = job[p].amount /\ Amounts[p] \in Nat
         /\ \A u, c : \A p \in Session : Wins(u, c)[p] \in Nat
<1>1. \A S \in SUBSET Session : IsFiniteSet(S)
  BY FS_Subset, MarketAssumption
<1>2. \A p \in Kind("buy") : Costs[p] = Cost(p) /\ Costs[p] \in Nat
  BY CostIsNatural DEF Costs
<1>3. \A p \in Kind("buy") \cup Kind("bet") :
        /\ p \in Session /\ p \notin Kind("resolve")
        /\ Amounts[p] = job[p].amount /\ Amounts[p] \in Nat
  BY JobsAreTyped DEF Kind, Amounts
<1>4. ASSUME NEW u, NEW c, NEW p \in Session PROVE Wins(u, c)[p] \in Nat
  <2>1. \A b \in BetsOf(u, c) : share[p][b] \in Nat
    BY BetsAreRequests DEF TypeOK
  <2>2. SumFunctionOnSet(share[p], BetsOf(u, c)) \in Nat
    BY <2>1, BetsAreRequests, SumIsNatural
  <2>3. QED
    BY <2>2 DEF Wins
<1>5. QED
  BY <1>1, <1>2, <1>3, <1>4

\* The sets of requests that are summed are fixed.
LEMMA SetsOfRequests ==
  /\ Kind("buy") \subseteq Session /\ Kind("bet") \subseteq Session /\ Kind("resolve") \subseteq Session
  /\ \A u : Buys(u) \subseteq Kind("buy")
  /\ \A u, c : BetsOf(u, c) \subseteq Kind("bet")
  /\ \A s : OnSide(s) \subseteq Kind("bet")
BY DEF Kind, Buys, OfUser, BetsOf, InCurrency, OnSide

\* The sets of requests that the sums run over never change.
LEMMA FixedSets ==
  ASSUME UNCHANGED job
  PROVE  /\ \A k : Kind(k)' = Kind(k)
         /\ \A u : Buys(u)' = Buys(u)
         /\ \A u, c : BetsOf(u, c)' = BetsOf(u, c)
         /\ \A s : OnSide(s)' = OnSide(s)
         /\ Amounts' = Amounts
BY DEF Kind, Buys, OfUser, BetsOf, InCurrency, OnSide, Amounts

\* What a step keeps of these sums, when it commits nothing.
LEMMA SumsAreKept ==
  ASSUME TypeOK, UNCHANGED job, Committed' = Committed,
         \A q \in Committed : supply'[q] = supply[q] /\ share'[q] = share[q],
         NEW u, NEW c
  PROVE  /\ PaidBy(u)' = PaidBy(u) /\ BoughtBy(u)' = BoughtBy(u)
         /\ StakedBy(u, c)' = StakedBy(u, c) /\ WonBy(u, c)' = WonBy(u, c)
<1>1. BoughtBy(u)' = BoughtBy(u) /\ StakedBy(u, c)' = StakedBy(u, c)
  BY FixedSets DEF BoughtBy, StakedBy
<1>2. PaidBy(u)' = PaidBy(u)
  <2> DEFINE S == Committed \cap Buys(u)
             f == Costs
             g == Costs'
  <2>1. S' = S /\ PaidBy(u) = SumFunctionOnSet(f, S) /\ PaidBy(u)' = SumFunctionOnSet(g, S)
    BY FixedSets DEF PaidBy
  <2>2. S \subseteq Kind("buy") /\ S \subseteq Session /\ S \subseteq Committed
    BY SetsOfRequests
  <2>3. \A x \in S : f[x] \in Nat /\ f[x] = g[x]
    BY <2>2, TermsAreNatural, FixedSets DEF Costs, Cost
  <2>4. IsFiniteSet(S)
    BY <2>2, TermsAreNatural
  <2> HIDE DEF S, f, g
  <2>5. Integral(f, S)
    BY <2>3 DEF Integral
  <2>6. QED
    BY <2>1, <2>3, <2>4, <2>5, SumAgrees
<1>3. WonBy(u, c)' = WonBy(u, c)
  <2> DEFINE S == Committed \cap Kind("resolve")
             f == Wins(u, c)
             g == Wins(u, c)'
  <2>1. S' = S /\ WonBy(u, c) = SumFunctionOnSet(f, S) /\ WonBy(u, c)' = SumFunctionOnSet(g, S)
    BY FixedSets DEF WonBy
  <2>2. S \subseteq Session /\ S \subseteq Committed
    BY SetsOfRequests
  <2>3. \A x \in S : f[x] \in Nat
    BY <2>2, TermsAreNatural
  <2>4. \A x \in S : f[x] = g[x]
    BY <2>2, FixedSets DEF Wins
  <2>5. IsFiniteSet(S)
    BY <2>2, TermsAreNatural
  <2> HIDE DEF S, f, g
  <2>6. Integral(f, S)
    BY <2>3 DEF Integral
  <2>7. QED
    BY <2>1, <2>4, <2>5, <2>6, SumAgrees
<1>4. QED
  BY <1>1, <1>2, <1>3

\* What a commit adds to them.
LEMMA CommitAddsTerms ==
  ASSUME TypeOK, UNCHANGED <<job, supply, share>>,
         NEW p \in Session, p \notin Committed, Committed' = Committed \cup {p},
         NEW u, NEW c
  PROVE  /\ PaidBy(u) \in Nat /\ BoughtBy(u) \in Nat /\ StakedBy(u, c) \in Nat /\ WonBy(u, c) \in Nat
         /\ PaidBy(u)' = PaidBy(u) + (IF p \in Buys(u) THEN Cost(p) ELSE 0)
         /\ BoughtBy(u)' = BoughtBy(u) + (IF p \in Buys(u) THEN job[p].amount ELSE 0)
         /\ StakedBy(u, c)' = StakedBy(u, c) + (IF p \in BetsOf(u, c) THEN job[p].amount ELSE 0)
         /\ WonBy(u, c)' = WonBy(u, c) + (IF p \in Kind("resolve")
                                          THEN SumFunctionOnSet(share[p], BetsOf(u, c)) ELSE 0)
<1>1. /\ Buys(u)' = Buys(u) /\ BetsOf(u, c)' = BetsOf(u, c) /\ Kind("resolve")' = Kind("resolve")
      /\ Amounts' = Amounts /\ Kind("buy")' = Kind("buy")
  BY FixedSets
<1>2. Costs' = Costs
  BY <1>1 DEF Costs, Cost
<1>3. Wins(u, c)' = Wins(u, c)
  BY <1>1 DEF Wins
<1>4. /\ Buys(u) \subseteq Kind("buy") /\ BetsOf(u, c) \subseteq Kind("bet")
      /\ Kind("resolve") \subseteq Session /\ Kind("buy") \subseteq Session /\ Kind("bet") \subseteq Session
  BY SetsOfRequests
<1>5. IsFiniteSet(Buys(u)) /\ IsFiniteSet(BetsOf(u, c)) /\ IsFiniteSet(Kind("resolve"))
  BY <1>4, TermsAreNatural
<1>6. /\ PaidBy(u) \in Nat
      /\ PaidBy(u)' = PaidBy(u) + (IF p \in Buys(u) THEN Cost(p) ELSE 0)
  <2> DEFINE T == Buys(u)
             A == Committed \cap T
             B == Committed' \cap T
  <2>1. IsFiniteSet(T) /\ \A x \in T : Costs[x] \in Nat /\ Costs[x] = Cost(x)
    BY <1>4, <1>5, TermsAreNatural
  <2>2. PaidBy(u) = SumFunctionOnSet(Costs, A) /\ PaidBy(u)' = SumFunctionOnSet(Costs, B)
    BY <1>1, <1>2, <1>3 DEF PaidBy
  <2>3. A \in SUBSET T /\ p \notin A /\ B = IF p \in T THEN A \cup {p} ELSE A
    OBVIOUS
  <2> HIDE DEF A, B, T
  <2>4. SumFunctionOnSet(Costs, A) \in Nat
    <3>1. IsFiniteSet(A) /\ \A x \in A : Costs[x] \in Nat
      BY <2>1, <2>3, FS_Subset
    <3>2. QED
      BY <3>1, SumIsNatural
  <2>5. SumFunctionOnSet(Costs, B) = SumFunctionOnSet(Costs, A) + (IF p \in T THEN Costs[p] ELSE 0)
    <3>1. CASE p \in T
      <4>1. SumFunctionOnSet(Costs, A \cup {p}) = SumFunctionOnSet(Costs, A) + Costs[p]
        BY <2>1, <2>3, <3>1, OneMoreTerm
      <4>2. B = A \cup {p}
        BY <2>3, <3>1
      <4>3. QED
        BY <3>1, <4>1, <4>2
    <3>2. CASE p \notin T
      <4>1. B = A
        BY <2>3, <3>2
      <4>2. QED
        BY <2>4, <3>2, <4>1
    <3>3. QED
      BY <3>1, <3>2
  <2>6. QED
    BY <2>1, <2>2, <2>4, <2>5 DEF T
<1>7. /\ BoughtBy(u) \in Nat
      /\ BoughtBy(u)' = BoughtBy(u) + (IF p \in Buys(u) THEN job[p].amount ELSE 0)
  <2> DEFINE T == Buys(u)
             A == Committed \cap T
             B == Committed' \cap T
  <2>1. IsFiniteSet(T) /\ \A x \in T : Amounts[x] \in Nat /\ Amounts[x] = job[x].amount
    BY <1>4, <1>5, TermsAreNatural
  <2>2. BoughtBy(u) = SumFunctionOnSet(Amounts, A) /\ BoughtBy(u)' = SumFunctionOnSet(Amounts, B)
    BY <1>1, <1>2, <1>3 DEF BoughtBy
  <2>3. A \in SUBSET T /\ p \notin A /\ B = IF p \in T THEN A \cup {p} ELSE A
    OBVIOUS
  <2> HIDE DEF A, B, T
  <2>4. SumFunctionOnSet(Amounts, A) \in Nat
    <3>1. IsFiniteSet(A) /\ \A x \in A : Amounts[x] \in Nat
      BY <2>1, <2>3, FS_Subset
    <3>2. QED
      BY <3>1, SumIsNatural
  <2>5. SumFunctionOnSet(Amounts, B) = SumFunctionOnSet(Amounts, A) + (IF p \in T THEN Amounts[p] ELSE 0)
    <3>1. CASE p \in T
      <4>1. SumFunctionOnSet(Amounts, A \cup {p}) = SumFunctionOnSet(Amounts, A) + Amounts[p]
        BY <2>1, <2>3, <3>1, OneMoreTerm
      <4>2. B = A \cup {p}
        BY <2>3, <3>1
      <4>3. QED
        BY <3>1, <4>1, <4>2
    <3>2. CASE p \notin T
      <4>1. B = A
        BY <2>3, <3>2
      <4>2. QED
        BY <2>4, <3>2, <4>1
    <3>3. QED
      BY <3>1, <3>2
  <2>6. QED
    BY <2>1, <2>2, <2>4, <2>5 DEF T
<1>8. /\ StakedBy(u, c) \in Nat
      /\ StakedBy(u, c)' = StakedBy(u, c) + (IF p \in BetsOf(u, c) THEN job[p].amount ELSE 0)
  <2> DEFINE T == BetsOf(u, c)
             A == Committed \cap T
             B == Committed' \cap T
  <2>1. IsFiniteSet(T) /\ \A x \in T : Amounts[x] \in Nat /\ Amounts[x] = job[x].amount
    BY <1>4, <1>5, TermsAreNatural
  <2>2. StakedBy(u, c) = SumFunctionOnSet(Amounts, A) /\ StakedBy(u, c)' = SumFunctionOnSet(Amounts, B)
    BY <1>1, <1>2, <1>3 DEF StakedBy
  <2>3. A \in SUBSET T /\ p \notin A /\ B = IF p \in T THEN A \cup {p} ELSE A
    OBVIOUS
  <2> HIDE DEF A, B, T
  <2>4. SumFunctionOnSet(Amounts, A) \in Nat
    <3>1. IsFiniteSet(A) /\ \A x \in A : Amounts[x] \in Nat
      BY <2>1, <2>3, FS_Subset
    <3>2. QED
      BY <3>1, SumIsNatural
  <2>5. SumFunctionOnSet(Amounts, B) = SumFunctionOnSet(Amounts, A) + (IF p \in T THEN Amounts[p] ELSE 0)
    <3>1. CASE p \in T
      <4>1. SumFunctionOnSet(Amounts, A \cup {p}) = SumFunctionOnSet(Amounts, A) + Amounts[p]
        BY <2>1, <2>3, <3>1, OneMoreTerm
      <4>2. B = A \cup {p}
        BY <2>3, <3>1
      <4>3. QED
        BY <3>1, <4>1, <4>2
    <3>2. CASE p \notin T
      <4>1. B = A
        BY <2>3, <3>2
      <4>2. QED
        BY <2>4, <3>2, <4>1
    <3>3. QED
      BY <3>1, <3>2
  <2>6. QED
    BY <2>1, <2>2, <2>4, <2>5 DEF T
<1>9. /\ WonBy(u, c) \in Nat
      /\ WonBy(u, c)' = WonBy(u, c) + (IF p \in Kind("resolve") THEN Wins(u, c)[p] ELSE 0)
  <2> DEFINE T == Kind("resolve")
             A == Committed \cap T
             B == Committed' \cap T
             f == Wins(u, c)
  <2>1. IsFiniteSet(T) /\ \A x \in T : f[x] \in Nat
    BY <1>4, <1>5, TermsAreNatural
  <2>2. WonBy(u, c) = SumFunctionOnSet(f, A) /\ WonBy(u, c)' = SumFunctionOnSet(f, B)
    BY <1>1, <1>2, <1>3 DEF WonBy
  <2>3. A \in SUBSET T /\ p \notin A /\ B = IF p \in T THEN A \cup {p} ELSE A
    OBVIOUS
  <2> HIDE DEF A, B, T, f
  <2>4. SumFunctionOnSet(f, A) \in Nat
    <3>1. IsFiniteSet(A) /\ \A x \in A : f[x] \in Nat
      BY <2>1, <2>3, FS_Subset
    <3>2. QED
      BY <3>1, SumIsNatural
  <2>5. SumFunctionOnSet(f, B) = SumFunctionOnSet(f, A) + (IF p \in T THEN f[p] ELSE 0)
    <3>1. CASE p \in T
      <4>1. SumFunctionOnSet(f, A \cup {p}) = SumFunctionOnSet(f, A) + f[p]
        BY <2>1, <2>3, <3>1, OneMoreTerm
      <4>2. B = A \cup {p}
        BY <2>3, <3>1
      <4>3. QED
        BY <3>1, <4>1, <4>2
    <3>2. CASE p \notin T
      <4>1. B = A
        BY <2>3, <3>2
      <4>2. QED
        BY <2>4, <3>2, <4>1
    <3>3. QED
      BY <3>1, <3>2
  <2>6. QED
    BY <2>1, <2>2, <2>4, <2>5 DEF T, f
<1>10. Wins(u, c)[p] = SumFunctionOnSet(share[p], BetsOf(u, c))
  BY DEF Wins
<1>11. QED
  BY <1>6, <1>7, <1>8, <1>9, <1>10

\* The properties speak of these sums.
SumsAgree ==
  /\ \A u : /\ Paid(OfUser(u, CommittedBuys)) = PaidBy(u)
            /\ Bought(OfUser(u, CommittedBuys)) = BoughtBy(u)
  /\ \A u, c : /\ Stakes(InCurrency(OfUser(u, CommittedBets), c)) = StakedBy(u, c)
               /\ Won(InCurrency(OfUser(u, Kind("bet")), c)) = WonBy(u, c)
  /\ \A s : Stakes({b \in CommittedBets : job[b].side = s}) = PoolOf(s)
  /\ Bought(CommittedBuys) = Sold

\* The sums of the properties are the sums over fixed sets.
LEMMA SumsAgreeNow == SumsAgree
<1>1. ASSUME NEW u
      PROVE  /\ Paid(OfUser(u, CommittedBuys)) = PaidBy(u)
             /\ Bought(OfUser(u, CommittedBuys)) = BoughtBy(u)
  <2>1. OfUser(u, CommittedBuys) = Committed \cap Buys(u)
    BY DEF OfUser, CommittedBuys, Buys
  <2>2. QED
    BY <2>1, Zenon DEF Paid, PaidBy, Costs, Bought, BoughtBy
<1>2. ASSUME NEW u, NEW c
      PROVE  /\ Stakes(InCurrency(OfUser(u, CommittedBets), c)) = StakedBy(u, c)
             /\ Won(InCurrency(OfUser(u, Kind("bet")), c)) = WonBy(u, c)
  <2>1. InCurrency(OfUser(u, CommittedBets), c) = Committed \cap BetsOf(u, c)
    BY DEF InCurrency, OfUser, CommittedBets, BetsOf
  <2>2. Stakes(InCurrency(OfUser(u, CommittedBets), c)) = StakedBy(u, c)
    BY <2>1, Zenon DEF Stakes, StakedBy
  <2>3. QED
    BY <2>2, Zenon DEF Won, WonBy, Wins, BetsOf, Resolutions
<1>3. ASSUME NEW s PROVE Stakes({b \in CommittedBets : job[b].side = s}) = PoolOf(s)
  <2>1. {b \in CommittedBets : job[b].side = s} = Committed \cap OnSide(s)
    BY DEF CommittedBets, OnSide
  <2>2. QED
    BY <2>1, Zenon DEF Stakes, PoolOf
<1>4. Bought(CommittedBuys) = Sold
  BY DEF Bought, CommittedBuys, Sold
<1>5. QED
  BY <1>1, <1>2, <1>3, <1>4 DEF SumsAgree

\* And they are after a step.
LEMMA SumsAgreeNext == SumsAgree'
BY SumsAgreeNow, PTL

\* The books, in these sums.
Balanced == \A u \in User :
  /\ row[u].bal = Opening[u].bal - PaidBy(u) - StakedBy(u, "wallet") + WonBy(u, "wallet")
  /\ Tokens(item[u]) = BoughtBy(u) - StakedBy(u, "token") + WonBy(u, "token")

\* So the books balance in one form when they do in the other.
LEMMA BalancedBooks == BooksBalance <=> Balanced
BY SumsAgreeNow DEF SumsAgree, BooksBalance, Balanced, Tokens

\* After a step as well.
LEMMA BalancedBooksNext == BooksBalance' <=> Balanced'
<1>1. (BooksBalance <=> Balanced)'
  BY BalancedBooks, PTL
<1>2. QED
  BY <1>1

\* A commit changes what a user has by what the transaction changed.
LEMMA CommitKeepsBalance ==
  ASSUME Transactions, Balanced, NEW p \in Session, Kept(p)
  PROVE  Balanced'
<1>1. /\ p \in Running /\ p \notin Committed /\ Committed' = Committed \cup {p}
      /\ UNCHANGED <<job, supply, share>> /\ TypeOK /\ pc[p] = "commit"
  BY CommitAddsOne DEF Kept, At, Transactions
<1>2. SUFFICES ASSUME NEW u \in User
               PROVE  /\ row'[u].bal = Opening[u].bal - PaidBy(u)' - StakedBy(u, "wallet")' + WonBy(u, "wallet")'
                      /\ Tokens(item'[u]) = BoughtBy(u)' - StakedBy(u, "token")' + WonBy(u, "token")'
  BY DEF Balanced, Tokens
<1>3. /\ row[u].bal = Opening[u].bal - PaidBy(u) - StakedBy(u, "wallet") + WonBy(u, "wallet")
      /\ Tokens(item[u]) = BoughtBy(u) - StakedBy(u, "token") + WonBy(u, "token")
  BY DEF Balanced
<1>4. /\ row'[u].bal = row[u].bal + Change(p, u, "wallet")
      /\ Tokens(item'[u]) = Tokens(item[u]) + Change(p, u, "token")
  <2>1. OwnBooks(p)
    BY <1>1 DEF Transactions
  <2>2. /\ row'[u] = IF lock[u] = p THEN ver[u] ELSE row[u]
        /\ item'[u] = IF itemLock[u] = p THEN newItem[u] ELSE item[u]
    BY ItemsAreDistinct DEF Kept
  <2>3. row[u].bal \in Int /\ Tokens(item[u]) \in Int
    BY BalancesAreIntegers
  <2>4. row'[u].bal = row[u].bal + Change(p, u, "wallet")
    BY <2>1, <2>2, <2>3 DEF OwnBooks
  <2>5. Tokens(item'[u]) = Tokens(item[u]) + Change(p, u, "token")
    BY <2>1, <2>2, <2>3 DEF OwnBooks
  <2>6. QED
    BY <2>4, <2>5
<1> DEFINE pay == IF p \in Buys(u) THEN Cost(p) ELSE 0
           buy == IF p \in Buys(u) THEN job[p].amount ELSE 0
           stake(c) == IF p \in BetsOf(u, c) THEN job[p].amount ELSE 0
           win(c) == IF p \in Kind("resolve") THEN SumFunctionOnSet(share[p], BetsOf(u, c)) ELSE 0
<1>5. ASSUME NEW c
      PROVE  /\ PaidBy(u) \in Nat /\ BoughtBy(u) \in Nat /\ StakedBy(u, c) \in Nat /\ WonBy(u, c) \in Nat
             /\ PaidBy(u)' = PaidBy(u) + pay /\ BoughtBy(u)' = BoughtBy(u) + buy
             /\ StakedBy(u, c)' = StakedBy(u, c) + stake(c) /\ WonBy(u, c)' = WonBy(u, c) + win(c)
  BY <1>1, CommitAddsTerms
<1>6. /\ pay \in Int /\ buy \in Int
      /\ \A c : stake(c) \in Int /\ win(c) \in Int
  <2>1. pay \in Int
    BY <1>1, SetsOfRequests, CostIsNatural
  <2>2. ASSUME NEW c PROVE buy \in Int /\ stake(c) \in Int
    BY <1>1, SetsOfRequests, JobsAreTyped DEF Kind
  <2>3. ASSUME NEW c PROVE win(c) \in Int
    <3>1. \A b \in BetsOf(u, c) : share[p][b] \in Nat
      BY <1>1, BetsAreRequests DEF TypeOK
    <3>2. SumFunctionOnSet(share[p], BetsOf(u, c)) \in Nat
      BY <3>1, BetsAreRequests, SumIsNatural
    <3>3. QED
      BY <3>2
  <2>4. QED
    BY <2>1, <2>2, <2>3
<1>7. Change(p, u, "wallet") = win("wallet") - pay - stake("wallet")
  <2>1. CASE job[p].kind = "resolve"
    <3>1. pay = 0 /\ stake("wallet") = 0 /\ Change(p, u, "wallet") = win("wallet")
      BY <2>1, BetsAreRequests DEF Buys, OfUser, Kind, Change
    <3> HIDE DEF pay, stake, win
    <3>2. QED
      BY <1>6, <3>1
  <2>2. CASE job[p].kind = "buy"
    <3>1. stake("wallet") = 0 /\ win("wallet") = 0 /\ Change(p, u, "wallet") = -pay
      BY <1>1, <2>2, BetsAreRequests DEF Buys, OfUser, Kind, Change
    <3> HIDE DEF pay, stake, win
    <3>2. QED
      BY <1>6, <3>1
  <2>3. CASE job[p].kind = "bet"
    <3>1. pay = 0 /\ win("wallet") = 0 /\ Change(p, u, "wallet") = -stake("wallet")
      BY <1>1, <2>3, BetsAreRequests DEF Buys, OfUser, Kind, Change
    <3> HIDE DEF pay, stake, win
    <3>2. QED
      BY <1>6, <3>1
  <2>4. QED
    BY <1>1, <2>1, <2>2, <2>3, JobsAreTyped
<1>8. Change(p, u, "token") = win("token") + buy - stake("token")
  <2>1. CASE job[p].kind = "resolve"
    <3>1. buy = 0 /\ stake("token") = 0 /\ Change(p, u, "token") = win("token")
      BY <2>1, BetsAreRequests DEF Buys, OfUser, Kind, Change
    <3> HIDE DEF buy, stake, win
    <3>2. QED
      BY <1>6, <3>1
  <2>2. CASE job[p].kind = "buy"
    <3>1. stake("token") = 0 /\ win("token") = 0 /\ Change(p, u, "token") = buy
      BY <1>1, <2>2, BetsAreRequests DEF Buys, OfUser, Kind, Change
    <3> HIDE DEF buy, stake, win
    <3>2. QED
      BY <1>6, <3>1
  <2>3. CASE job[p].kind = "bet"
    <3>1. buy = 0 /\ win("token") = 0 /\ Change(p, u, "token") = -stake("token")
      BY <1>1, <2>3, BetsAreRequests DEF Buys, OfUser, Kind, Change
    <3> HIDE DEF buy, stake, win
    <3>2. QED
      BY <1>6, <3>1
  <2>4. QED
    BY <1>1, <2>1, <2>2, <2>3, JobsAreTyped
<1>9. Opening[u].bal \in Int
  BY MarketAssumption DEF Wallet
<1> HIDE DEF pay, buy, stake, win
<1>10. row'[u].bal = Opening[u].bal - PaidBy(u)' - StakedBy(u, "wallet")' + WonBy(u, "wallet")'
  <2>1. /\ PaidBy(u) \in Nat /\ StakedBy(u, "wallet") \in Nat /\ WonBy(u, "wallet") \in Nat
        /\ PaidBy(u)' = PaidBy(u) + pay /\ StakedBy(u, "wallet")' = StakedBy(u, "wallet") + stake("wallet")
        /\ WonBy(u, "wallet")' = WonBy(u, "wallet") + win("wallet")
    BY <1>5
  <2>2. QED
    BY <1>3, <1>4, <1>6, <1>7, <1>9, <2>1
<1>11. Tokens(item'[u]) = BoughtBy(u)' - StakedBy(u, "token")' + WonBy(u, "token")'
  <2>1. /\ BoughtBy(u) \in Nat /\ StakedBy(u, "token") \in Nat /\ WonBy(u, "token") \in Nat
        /\ BoughtBy(u)' = BoughtBy(u) + buy /\ StakedBy(u, "token")' = StakedBy(u, "token") + stake("token")
        /\ WonBy(u, "token")' = WonBy(u, "token") + win("token")
    BY <1>5
  <2>2. QED
    BY <1>3, <1>4, <1>6, <1>8, <2>1
<1>12. QED
  BY <1>10, <1>11

\* Any other step changes nothing of it.
LEMMA BalanceStays ==
  ASSUME Transactions, Balanced, NEW p \in Session, Acts(p)
  PROVE  Balanced'
<1>1. CASE Kept(p)
  BY <1>1, CommitKeepsBalance
<1>2. CASE ~Kept(p)
  <2>1. /\ UNCHANGED <<row, item, job>> /\ Committed' = Committed
        /\ \A q \in Committed : supply'[q] = supply[q] /\ share'[q] = share[q]
    <3>1. Tables /\ Apart(p)
      BY TablesAreTyped, StepsStayApart DEF Transactions
    <3>2. UNCHANGED <<row, item>> /\ Committed' = Committed /\ p \notin Committed
      BY <1>2, CommitsAlone
    <3>3. QED
      BY <3>1, <3>2 DEF Apart, Committed
  <2>2. ASSUME NEW u \in User, NEW c
        PROVE  /\ PaidBy(u)' = PaidBy(u) /\ BoughtBy(u)' = BoughtBy(u)
               /\ StakedBy(u, c)' = StakedBy(u, c) /\ WonBy(u, c)' = WonBy(u, c)
    BY <2>1, SumsAreKept DEF Transactions
  <2>3. QED
    BY <2>1, <2>2 DEF Balanced, Tokens
<1>3. QED
  BY <1>1, <1>2

\* The pools are the sums of the committed bets.
Pooling == /\ item[Market].yes = PoolOf("yes")
           /\ item[Market].no = PoolOf("no")

\* The same of the pools.
LEMMA PoolsMatch == PoolsMatchBets <=> Pooling
BY SumsAgreeNow DEF SumsAgree, PoolsMatchBets, Pooling, Sides

\* After a step as well.
LEMMA PoolsMatchNext == PoolsMatchBets' <=> Pooling'
<1>1. (PoolsMatchBets <=> Pooling)'
  BY PoolsMatch, PTL
<1>2. QED
  BY <1>1

\* What a commit adds to the pools and to what was sold.
LEMMA CommitAddsSale ==
  ASSUME TypeOK, UNCHANGED job,
         NEW p \in Session, p \notin Committed, Committed' = Committed \cup {p}, NEW s
  PROVE  /\ Sold \in Nat /\ PoolOf(s) \in Nat
         /\ Sold' = Sold + (IF p \in Kind("buy") THEN job[p].amount ELSE 0)
         /\ PoolOf(s)' = PoolOf(s) + (IF p \in OnSide(s) THEN job[p].amount ELSE 0)
<1>1. Kind("buy")' = Kind("buy") /\ OnSide(s)' = OnSide(s) /\ Amounts' = Amounts
  BY FixedSets
<1>2. /\ Kind("buy") \subseteq Session /\ Kind("bet") \subseteq Session
      /\ OnSide(s) \subseteq Kind("bet")
  BY SetsOfRequests
<1>3. /\ Sold \in Nat
      /\ Sold' = Sold + (IF p \in Kind("buy") THEN job[p].amount ELSE 0)
  <2> DEFINE T == Kind("buy")
             A == Committed \cap T
             B == Committed' \cap T
             f == Amounts
  <2>1. IsFiniteSet(T) /\ \A x \in T : f[x] \in Nat /\ f[x] = job[x].amount
    BY <1>2, TermsAreNatural
  <2>2. Sold = SumFunctionOnSet(f, A) /\ Sold' = SumFunctionOnSet(f, B)
    BY <1>1 DEF Sold
  <2>3. A \in SUBSET T /\ p \notin A /\ B = IF p \in T THEN A \cup {p} ELSE A
    OBVIOUS
  <2> HIDE DEF A, B, T, f
  <2>4. SumFunctionOnSet(f, A) \in Nat
    <3>1. IsFiniteSet(A) /\ \A x \in A : f[x] \in Nat
      BY <2>1, <2>3, FS_Subset
    <3>2. QED
      BY <3>1, SumIsNatural
  <2>5. SumFunctionOnSet(f, B) = SumFunctionOnSet(f, A) + (IF p \in T THEN f[p] ELSE 0)
    <3>1. CASE p \in T
      <4>1. SumFunctionOnSet(f, A \cup {p}) = SumFunctionOnSet(f, A) + f[p]
        BY <2>1, <2>3, <3>1, OneMoreTerm
      <4>2. B = A \cup {p}
        BY <2>3, <3>1
      <4>3. QED
        BY <3>1, <4>1, <4>2
    <3>2. CASE p \notin T
      <4>1. B = A
        BY <2>3, <3>2
      <4>2. QED
        BY <2>4, <3>2, <4>1
    <3>3. QED
      BY <3>1, <3>2
  <2>6. QED
    BY <2>1, <2>2, <2>4, <2>5 DEF T, f
<1>4. /\ PoolOf(s) \in Nat
      /\ PoolOf(s)' = PoolOf(s) + (IF p \in OnSide(s) THEN job[p].amount ELSE 0)
  <2> DEFINE T == OnSide(s)
             A == Committed \cap T
             B == Committed' \cap T
             f == Amounts
  <2>1. IsFiniteSet(T) /\ \A x \in T : f[x] \in Nat /\ f[x] = job[x].amount
    BY <1>2, TermsAreNatural
  <2>2. PoolOf(s) = SumFunctionOnSet(f, A) /\ PoolOf(s)' = SumFunctionOnSet(f, B)
    BY <1>1 DEF PoolOf
  <2>3. A \in SUBSET T /\ p \notin A /\ B = IF p \in T THEN A \cup {p} ELSE A
    OBVIOUS
  <2> HIDE DEF A, B, T, f
  <2>4. SumFunctionOnSet(f, A) \in Nat
    <3>1. IsFiniteSet(A) /\ \A x \in A : f[x] \in Nat
      BY <2>1, <2>3, FS_Subset
    <3>2. QED
      BY <3>1, SumIsNatural
  <2>5. SumFunctionOnSet(f, B) = SumFunctionOnSet(f, A) + (IF p \in T THEN f[p] ELSE 0)
    <3>1. CASE p \in T
      <4>1. SumFunctionOnSet(f, A \cup {p}) = SumFunctionOnSet(f, A) + f[p]
        BY <2>1, <2>3, <3>1, OneMoreTerm
      <4>2. B = A \cup {p}
        BY <2>3, <3>1
      <4>3. QED
        BY <3>1, <4>1, <4>2
    <3>2. CASE p \notin T
      <4>1. B = A
        BY <2>3, <3>2
      <4>2. QED
        BY <2>4, <3>2, <4>1
    <3>3. QED
      BY <3>1, <3>2
  <2>6. QED
    BY <2>1, <2>2, <2>4, <2>5 DEF T, f
<1>5. QED
  BY <1>3, <1>4

\* What the commit of a request of each kind leaves in the rows of the token
\* and the prediction.
LEMMA CommitWrites ==
  ASSUME Transactions, NEW p \in Session, Kept(p)
  PROVE  /\ item'[Token] = IF p \in Kind("buy") THEN supply[p] + job[p].amount ELSE item[Token]
         /\ p \in Kind("buy") => item'[Market] = item[Market]
         /\ p \in Kind("bet") => item'[Market] = InPool(item[Market], job[p].side, job[p].amount)
         /\ p \in Kind("resolve") => item'[Market] = [item[Market] EXCEPT !.status = "resolved"]
<1>1. /\ pc[p] = "commit" /\ p \in Running /\ OwnRows(p)
      /\ item'[Token] = IF itemLock[Token] = p THEN newItem[Token] ELSE item[Token]
      /\ item'[Market] = IF itemLock[Market] = p THEN newItem[Market] ELSE item[Market]
  BY CommitAddsOne, ItemsAreDistinct DEF Transactions, Kept, At
<1>2. job[p].kind \in {"buy", "bet", "resolve"}
  BY JobsAreTyped DEF Transactions
<1>3. CASE job[p].kind = "buy"
  <2>1. itemLock[Token] = p /\ itemLock[Market] # p /\ newItem[Token] = supply[p] + job[p].amount
    BY <1>1, <1>3 DEF OwnRows, WroteToken, WrotePools, WroteStatus
  <2>2. p \in Kind("buy") /\ p \notin Kind("bet") /\ p \notin Kind("resolve")
    BY <1>3 DEF Kind
  <2>3. QED
    BY <1>1, <2>1, <2>2
<1>4. CASE job[p].kind = "bet"
  <2>1. /\ itemLock[Token] # p /\ itemLock[Market] = p
        /\ newItem[Market] = InPool(item[Market], job[p].side, job[p].amount)
    BY <1>1, <1>4 DEF OwnRows, WroteToken, WrotePools, WroteStatus
  <2>2. p \in Kind("bet") /\ p \notin Kind("buy") /\ p \notin Kind("resolve")
    BY <1>4 DEF Kind
  <2>3. QED
    BY <1>1, <2>1, <2>2
<1>5. CASE job[p].kind = "resolve"
  <2>1. /\ itemLock[Token] # p /\ itemLock[Market] = p
        /\ newItem[Market] = [item[Market] EXCEPT !.status = "resolved"]
    BY <1>1, <1>5 DEF OwnRows, WroteToken, WrotePools, WroteStatus
  <2>2. p \in Kind("resolve") /\ p \notin Kind("bet") /\ p \notin Kind("buy")
    BY <1>5 DEF Kind
  <2>3. QED
    BY <1>1, <2>1, <2>2
<1>6. QED
  BY <1>2, <1>3, <1>4, <1>5

\* UpdatePools adds the stake of a bet whose row is committed with it.
LEMMA PoolingStays ==
  ASSUME Transactions, Pooling, NEW p \in Session, Acts(p)
  PROVE  Pooling'
<1>1. CASE Kept(p)
  <2>1. /\ p \notin Committed /\ Committed' = Committed \cup {p} /\ UNCHANGED job /\ TypeOK
    BY <1>1, CommitAddsOne DEF Transactions
  <2>2. /\ item[Market] \in Pools /\ job[p].kind \in {"buy", "bet", "resolve"}
        /\ job[p].kind = "bet" => job[p].side \in Sides /\ job[p].amount \in Nat
    BY <2>1, JobsAreTyped, TypesTogether DEF RowsTyped
  <2>3. ASSUME NEW s
        PROVE  /\ PoolOf(s) \in Nat
               /\ PoolOf(s)' = PoolOf(s) + (IF job[p].kind = "bet" /\ job[p].side = s
                                            THEN job[p].amount ELSE 0)
    BY <2>1, CommitAddsSale DEF OnSide, Kind
  <2>4. CASE job[p].kind = "bet"
    <3>1. item'[Market] = InPool(item[Market], job[p].side, job[p].amount)
      BY <1>1, <2>4, CommitWrites DEF Kind
    <3> DEFINE m == item[Market]
               n == item'[Market]
    <3>2. /\ n.yes = m.yes + (IF job[p].side = "yes" THEN job[p].amount ELSE 0)
          /\ n.no = m.no + (IF job[p].side = "no" THEN job[p].amount ELSE 0)
      BY <2>2, <2>4, <3>1 DEF InPool, Pools, Sides
    <3>3. QED
      BY <2>3, <2>4, <3>2 DEF Pooling
  <2>5. CASE job[p].kind # "bet"
    <3>1. item'[Market].yes = item[Market].yes /\ item'[Market].no = item[Market].no
      BY <1>1, <2>2, <2>5, CommitWrites DEF Kind, Pools
    <3>2. QED
      BY <2>3, <2>5, <3>1 DEF Pooling
  <2>6. QED
    BY <2>4, <2>5
<1>2. CASE ~Kept(p)
  <2>1. item' = item /\ Committed' = Committed /\ UNCHANGED job
    BY <1>2, CommitsAlone, TablesAreTyped, StepsStayApart DEF Apart, Transactions
  <2>2. QED
    BY <2>1, FixedSets DEF Pooling, PoolOf
<1>3. QED
  BY <1>1, <1>2

-----------------------------------------------------------------------------
(***************************************************************************)
(* The recorded supply.                                                    *)
(***************************************************************************)
\* Requests that overlapped another stay known as such.
LEMMA RacedGrows ==
  ASSUME NEW p \in Session, Acts(p)
  PROVE  raced \subseteq raced'
<1>1. CASE ReadToken(p) \/ ReadForBet(p) \/ ReadForResolution(p)
  BY <1>1 DEF ReadToken, ReadForBet, ReadForResolution
<1>2. CASE ListBets(p)
  BY <1>2, Zenon DEF ListBets
<1>3. CASE PassedOver(p)
  BY <1>3 DEF PassedOver
<1>4. CASE Changes(p) \/ Records(p)
  BY <1>4 DEF Changes, Debited, Held, Staked, PaidFor, Records, Supplied, Pooled, Placed, Marked, locals
<1>5. CASE Kept(p) \/ Undone(p)
  BY <1>5 DEF Kept, Undone, locals
<1>6. QED
  BY <1>1, <1>2, <1>3, <1>4, <1>5 DEF Acts, Reads

\* A transaction begins with its read, and with none of the other steps.
LEMMA BeginsWithARead ==
  ASSUME Transactions, NEW p \in Session, Acts(p), p \in Running', p \notin Running
  PROVE  ReadToken(p) \/ ReadForBet(p) \/ ReadForResolution(p)
<1>1. Tables
  BY TablesAreTyped DEF Transactions
<1>2. CASE ListBets(p)
  BY <1>2 DEF ListBets, At, Running
<1>3. CASE PassedOver(p)
  BY <1>3 DEF PassedOver, At, Running
<1>4. CASE Changes(p)
  BY <1>4 DEF Changes, Debited, Held, Staked, PaidFor, At, Running
<1>5. CASE Records(p)
  BY <1>5 DEF Records, Supplied, Pooled, Placed, Marked, At, Running
<1>6. CASE Kept(p) \/ Undone(p)
  BY <1>6 DEF Kept, Undone, At, Running
<1>7. QED
  BY <1>2, <1>3, <1>4, <1>5, <1>6 DEF Acts, Reads

\* UpdateTokenSupply writes what was read plus the amount: less than was sold
\* only after an overlap.
LEMMA SalesStay ==
  ASSUME Transactions, SupplyCountsSales, PurchasesFit, NEW p \in Session, Acts(p)
  PROVE  SupplyCountsSales' /\ PurchasesFit'
<1> DEFINE R == Running \cap Kind("buy")
           s == item[Token]
           t == item'[Token]
<1>1. /\ Tables /\ Apart(p) /\ TypeOK /\ UNCHANGED job /\ MaxSupply \in Nat /\ s \in Nat
      /\ Kind("buy")' = Kind("buy") /\ raced \subseteq raced'
  BY TablesAreTyped, StepsStayApart, FixedSets, RacedGrows, MarketAssumption
     DEF Transactions, Apart, TypeOK
<1>2. Bought(CommittedBuys) = Sold /\ Bought(CommittedBuys)' = Sold'
  BY SumsAgreeNow, SumsAgreeNext DEF SumsAgree
<1>3. /\ s <= MaxSupply /\ s <= Sold
      /\ raced \cap Kind("buy") = {} => s = Sold
  BY <1>2 DEF SupplyCountsSales
<1>4. /\ \A q \in R : supply[q] + job[q].amount <= MaxSupply /\ supply[q] <= Sold
      /\ raced \cap Kind("buy") = {} => \A q, r \in R : q = r /\ supply[q] = s
  BY <1>2 DEF PurchasesFit
<1>5. \A q \in Kind("buy") : q \in Session /\ supply[q] \in Nat /\ job[q].amount \in Nat
  BY <1>1, JobsAreTyped DEF Kind, Tables
<1> DEFINE Supplies == /\ t <= MaxSupply /\ t <= Sold'
                       /\ raced' \cap Kind("buy") = {} => t = Sold'
           Fits == /\ \A q \in R' : supply'[q] + job[q].amount <= MaxSupply /\ supply'[q] <= Sold'
                   /\ raced' \cap Kind("buy") = {} => \A q, r \in R' : q = r /\ supply'[q] = t
<1>6. SUFFICES Supplies /\ Fits
  BY <1>1, <1>2 DEF SupplyCountsSales, PurchasesFit
<1>7. CASE Kept(p)
  <2>1. /\ p \in Running /\ p \notin Committed /\ Committed' = Committed \cup {p}
        /\ supply' = supply /\ raced' = raced /\ Running' = Running \ {p}
    BY <1>7, CommitAddsOne
  <2>2. t = IF p \in Kind("buy") THEN supply[p] + job[p].amount ELSE s
    BY <1>7, CommitWrites
  <2>3. Sold \in Nat /\ Sold' = Sold + (IF p \in Kind("buy") THEN job[p].amount ELSE 0)
    BY <1>1, <2>1, CommitAddsSale
  <2>4. R' = R \ {p}
    BY <1>1, <2>1
  <2> HIDE DEF R, s, t
  <2>5. CASE p \in Kind("buy")
    <3>1. p \in R
      BY <2>1, <2>5 DEF R
    <3>2. t = supply[p] + job[p].amount /\ Sold' = Sold + job[p].amount
      BY <2>2, <2>3, <2>5
    <3>3. Supplies
      BY <1>3, <1>4, <1>5, <2>1, <2>3, <2>5, <3>1, <3>2
    <3>4. \A q \in R' : supply'[q] + job[q].amount <= MaxSupply /\ supply'[q] <= Sold'
      <4>1. SUFFICES ASSUME NEW q \in R' PROVE supply[q] + job[q].amount <= MaxSupply /\ supply[q] <= Sold'
        BY <2>1
      <4>2. q \in R /\ q \in Kind("buy")
        BY <2>4 DEF R
      <4>3. QED
        BY <1>4, <1>5, <2>3, <2>5, <3>2, <4>2
    <3>5. raced' \cap Kind("buy") = {} => R' = {}
      BY <1>4, <2>1, <2>4, <3>1
    <3>6. QED
      BY <3>3, <3>4, <3>5
  <2>6. CASE p \notin Kind("buy")
    BY <1>3, <1>4, <2>1, <2>2, <2>3, <2>4, <2>6
  <2>7. QED
    BY <2>5, <2>6
<1>8. CASE ReadToken(p)
  <2>1. ~Kept(p)
    BY <1>8 DEF ReadToken, Kept, At
  <2>2. t = s /\ Sold' = Sold
    BY <1>1, <2>1, CommitsAlone, FixedSets DEF Sold
  <2>3. /\ p \in Kind("buy") /\ p \notin R
        /\ supply'[p] = s /\ \A q \in Session \ {p} : supply'[q] = supply[q]
        /\ p \in Running' => s + job[p].amount <= MaxSupply
        /\ R # {} => p \in raced'
    <3>1. /\ pc[p] = "idle" /\ job[p].kind = "buy" /\ supply' = [supply EXCEPT ![p] = s]
          /\ pc' = [pc EXCEPT ![p] = IF s + job[p].amount > MaxSupply THEN "failed" ELSE "debit"]
          /\ R # {} => raced' = raced \cup {p}
      BY <1>8 DEF ReadToken, At, Goto
    <3>2. p \in Kind("buy") /\ p \notin R
      BY <3>1 DEF Kind, Running
    <3> HIDE DEF R, s
    <3>3. p \in Running' => s + job[p].amount <= MaxSupply
      BY <1>1, <1>5, <3>1, <3>2 DEF Tables, Running
    <3>4. supply'[p] = s /\ \A q \in Session \ {p} : supply'[q] = supply[q]
      BY <1>1, <3>1 DEF Tables
    <3>5. QED
      BY <3>1, <3>2, <3>3, <3>4
  <2>4. R' \subseteq R \cup {p} /\ R \subseteq Session
    BY <1>1 DEF Running, Apart
  <2>5. p \in R' => p \in Running'
    BY <1>1
  <2> HIDE DEF R, s, t
  <2>6. Supplies
    BY <1>1, <1>3, <2>2
  <2>7. \A q \in R' : supply'[q] + job[q].amount <= MaxSupply /\ supply'[q] <= Sold'
    BY <1>3, <1>4, <2>2, <2>3, <2>4, <2>5
  <2>8. raced' \cap Kind("buy") = {} => R' \subseteq {p}
    BY <2>3, <2>4
  <2>9. QED
    BY <2>2, <2>3, <2>6, <2>7, <2>8
<1>9. CASE ~Kept(p) /\ ~ReadToken(p)
  <2>1. t = s /\ Sold' = Sold
    BY <1>1, <1>9, CommitsAlone, FixedSets DEF Sold
  <2>2. supply' = supply
    <3>1. CASE ReadForBet(p) \/ ReadForResolution(p)
      BY <3>1 DEF ReadForBet, ReadForResolution
    <3>2. CASE ListBets(p)
      BY <3>2, Zenon DEF ListBets
    <3>3. CASE PassedOver(p) \/ PaidFor(p)
      BY <3>3 DEF PassedOver, PaidFor
    <3>4. CASE Debited(p) \/ Held(p) \/ Staked(p)
      BY <3>4 DEF Debited, Held, Staked, locals
    <3>5. CASE Records(p) \/ Undone(p)
      BY <3>5 DEF Records, Supplied, Pooled, Placed, Marked, Undone, locals
    <3>6. QED
      BY <1>9, <3>1, <3>2, <3>3, <3>4, <3>5 DEF Acts, Reads, Changes
  <2>3. R' \subseteq R
    <3>1. p \in R' => p \in R
      <4>1. SUFFICES ASSUME p \in Running', p \in Kind("buy"), p \notin Running PROVE FALSE
        BY <1>1
      <4>2. ReadForBet(p) \/ ReadForResolution(p)
        BY <1>9, <4>1, BeginsWithARead
      <4>3. QED
        BY <4>1, <4>2 DEF ReadForBet, ReadForResolution, Kind
    <3>2. \A q \in Session \ {p} : q \in R' => q \in R
      BY <1>1 DEF Running, Apart
    <3>3. R' \subseteq Session
      BY DEF Running
    <3> HIDE DEF R
    <3>4. QED
      BY <3>1, <3>2, <3>3
  <2> HIDE DEF R, s, t
  <2>4. QED
    BY <1>1, <1>3, <1>4, <2>1, <2>2, <2>3
<1>10. QED
  BY <1>7, <1>8, <1>9

-----------------------------------------------------------------------------
(***************************************************************************)
(* Resolutions.                                                            *)
(***************************************************************************)
\* Who decides, and who is settling, changes with these steps only.
LEMMA DecidingChanges ==
  ASSUME Transactions, NEW p \in Session, Acts(p)
  PROVE  /\ Deciding' \subseteq Deciding \cup {p}
         /\ p \in Deciding' /\ p \notin Deciding => ReadForResolution(p) /\ pc'[p] = "list"
         /\ Settling' \subseteq Settling \cup {p}
         /\ p \in Settling' /\ p \notin Settling => ListBets(p)
<1>1. /\ Tables /\ Apart(p) /\ UNCHANGED job /\ \A k : Kind(k)' = Kind(k)
  BY TablesAreTyped, StepsStayApart, FixedSets DEF Transactions, Apart
<1>2. /\ Deciding' \subseteq Deciding \cup {p} /\ Settling' \subseteq Settling \cup {p}
  BY <1>1 DEF Deciding, Settling, Running, Committed, Apart, At
<1>3. ASSUME p \in Deciding', p \notin Deciding PROVE ReadForResolution(p) /\ pc'[p] = "list"
  <2>1. p \in Kind("resolve") /\ p \notin Running /\ p \notin Committed
    BY <1>1, <1>3 DEF Deciding
  <2>2. p \in Running'
    <3>1. ~Kept(p)
      BY <2>1, CommitAddsOne
    <3>2. Committed' = Committed
      BY <3>1, CommitsAlone
    <3>3. QED
      BY <1>3, <2>1, <3>2 DEF Deciding
  <2>3. ReadToken(p) \/ ReadForBet(p) \/ ReadForResolution(p)
    BY <2>1, <2>2, BeginsWithARead
  <2>4. ReadForResolution(p)
    BY <2>1, <2>3 DEF ReadToken, ReadForBet, Kind
  <2>5. QED
    BY <1>1, <2>2, <2>4 DEF ReadForResolution, Goto, Tables, Running
<1>4. ASSUME p \in Settling', p \notin Settling PROVE ListBets(p)
  <2>1. p \in Running' /\ p \in Kind("resolve") /\ pc'[p] # "list"
    BY <1>1, <1>4 DEF Settling, At
  <2>2. CASE p \in Running
    <3>1. pc[p] = "list"
      BY <1>4, <2>1, <2>2 DEF Settling, At
    <3>2. ~(ReadToken(p) \/ ReadForBet(p) \/ ReadForResolution(p))
      BY <3>1 DEF ReadToken, ReadForBet, ReadForResolution, At
    <3>3. ~PassedOver(p) /\ ~Changes(p)
      BY <3>1 DEF PassedOver, Changes, Debited, Held, Staked, PaidFor, At
    <3>4. ~Records(p) /\ ~Kept(p)
      BY <3>1 DEF Records, Supplied, Pooled, Placed, Marked, Kept, At
    <3>5. ~Undone(p)
      BY <1>1, <2>1 DEF Undone, Goto, Tables, Running
    <3>6. QED
      BY <3>2, <3>3, <3>4, <3>5 DEF Acts, Reads
  <2>3. CASE p \notin Running
    <3>1. ReadToken(p) \/ ReadForBet(p) \/ ReadForResolution(p)
      BY <2>1, <2>3, BeginsWithARead
    <3>2. ReadForResolution(p)
      BY <2>1, <3>1 DEF ReadToken, ReadForBet, Kind
    <3>3. pc'[p] \in {"list", "failed"}
      BY <1>1, <3>2 DEF ReadForResolution, Goto, Tables
    <3>4. QED
      BY <2>1, <3>3 DEF Running
  <2>4. QED
    BY <2>2, <2>3
<1>5. QED
  BY <1>2, <1>3, <1>4

\* A prediction is found active before it is resolved, and its bets are
\* listed after.
LEMMA ResolutionsStay ==
  ASSUME Transactions, ResolutionsFit, NEW p \in Session, Acts(p)
  PROVE  ResolutionsFit'
<1> DEFINE Open1 == item[Market].status = "active"
           Done == item[Market].status = "resolved"
           Under == (Running \cup Committed) \cap Kind("bet")
<1>1. /\ Tables /\ Apart(p) /\ TypeOK /\ UNCHANGED job /\ \A k : Kind(k)' = Kind(k)
      /\ raced \subseteq raced' /\ item[Market] \in Pools
  BY TablesAreTyped, StepsStayApart, FixedSets, RacedGrows, TypesTogether
     DEF Transactions, Apart, RowsTyped
<1>2. /\ \A r, s \in Deciding \ raced : r = s
      /\ Resolutions # {} <=> Done
      /\ \A r \in Resolutions \cup Settling : Under \ raced \subseteq bets[r]
  BY DEF ResolutionsFit
<1>3. (Resolutions # {} <=> Done)'
  <2>1. CASE Kept(p)
    <3>1. Committed' = Committed \cup {p} /\ job[p].kind \in {"buy", "bet", "resolve"}
      BY <1>1, <2>1, CommitAddsOne, JobsAreTyped
    <3>2. CASE p \in Kind("resolve")
      <4>1. Resolutions' # {}
        BY <1>1, <3>1, <3>2 DEF Resolutions
      <4>2. item'[Market].status = "resolved"
        BY <1>1, <2>1, <3>2, CommitWrites DEF Pools
      <4>3. QED
        BY <4>1, <4>2
    <3>3. CASE p \notin Kind("resolve")
      <4>1. Resolutions' = Resolutions
        BY <1>1, <3>1, <3>3 DEF Resolutions
      <4>2. item'[Market].status = item[Market].status
        <5>1. CASE job[p].kind = "buy"
          BY <2>1, <5>1, CommitWrites DEF Kind
        <5>2. CASE job[p].kind = "bet"
          <6>1. item'[Market] = InPool(item[Market], job[p].side, job[p].amount)
            BY <2>1, <5>2, CommitWrites DEF Kind
          <6>2. QED
            BY <1>1, <6>1 DEF InPool, Pools
        <5>3. QED
          BY <3>1, <3>3, <5>1, <5>2 DEF Kind
      <4>3. QED
        BY <1>2, <4>1, <4>2
    <3>4. QED
      BY <3>2, <3>3
  <2>2. CASE ~Kept(p)
    BY <1>1, <1>2, <2>2, CommitsAlone DEF Resolutions
  <2>3. QED
    BY <2>1, <2>2
<1>4. ASSUME NEW r \in Deciding' \ raced', NEW s \in Deciding' \ raced' PROVE r = s
  <2>1. r \in Deciding \cup {p} /\ s \in Deciding \cup {p} /\ r \notin raced /\ s \notin raced
    BY <1>1, <1>4, DecidingChanges
  <2>2. CASE p \in Deciding' /\ p \notin Deciding
    <3>1. ReadForResolution(p) /\ pc'[p] = "list"
      BY <2>2, DecidingChanges
    <3>2. Open1
      BY <1>1, <3>1 DEF ReadForResolution, Goto, Tables, Open
    <3>3. Resolutions = {}
      BY <1>1, <1>2, <3>2 DEF Pools
    <3>4. Running \cap Kind("resolve") # {} => p \in raced'
      BY <3>1, <3>2 DEF ReadForResolution, Open
    <3>5. p \notin raced' => Deciding = {}
      BY <3>3, <3>4 DEF Deciding, Resolutions
    <3>6. r = p \/ s = p => p \notin raced'
      BY <1>4
    <3>7. QED
      BY <1>2, <2>1, <3>5, <3>6
  <2>3. CASE p \notin Deciding' \/ p \in Deciding
    <3>1. r \in Deciding \ raced /\ s \in Deciding \ raced
      BY <1>4, <2>1, <2>3
    <3>2. QED
      BY <1>2, <3>1
  <2>4. QED
    BY <2>2, <2>3
<1>5. Under' \subseteq Under \cup {p}
  BY <1>1 DEF Running, Committed, Apart
<1>6. ASSUME NEW r \in Resolutions' \cup Settling', r \in Resolutions \cup Settling
      PROVE  Under' \ raced' \subseteq bets'[r]
  <2>1. bets'[r] = bets[r]
    <3>1. r \in Session
      BY <1>6 DEF Resolutions, Settling, Kind
    <3>2. CASE ListBets(p)
      <4>1. r # p
        <5>1. pc[p] = "list"
          BY <3>2 DEF ListBets, At
        <5>2. QED
          BY <1>6, <5>1 DEF Resolutions, Settling, Committed, At
      <4>2. QED
        BY <1>1, <3>1, <4>1 DEF Apart
    <3>3. CASE ~ListBets(p)
      <4>1. CASE Reads(p)
        BY <3>3, <4>1 DEF Reads, ReadToken, ReadForBet, ReadForResolution, PassedOver
      <4>2. CASE Changes(p)
        BY <4>2 DEF Changes, Debited, Held, Staked, PaidFor, locals
      <4>3. CASE Records(p)
        BY <4>3 DEF Records, Supplied, Pooled, Placed, Marked, locals
      <4>4. CASE Kept(p) \/ Undone(p)
        BY <4>4 DEF Kept, Undone, locals
      <4>5. QED
        BY <4>1, <4>2, <4>3, <4>4 DEF Acts
    <3>4. QED
      BY <3>2, <3>3
  <2>2. Under \ raced \subseteq bets[r]
    BY <1>2, <1>6
  <2>3. p \in Under' \ raced' => p \in Under
    <3>1. SUFFICES ASSUME p \in Under', p \notin Under PROVE p \in raced'
      OBVIOUS
    <3>2. p \in Kind("bet") /\ p \notin Running /\ p \notin Committed
      BY <1>1, <3>1
    <3>3. p \in Running'
      <4>1. ~Kept(p)
        BY <3>2, CommitAddsOne
      <4>2. Committed' = Committed
        BY <4>1, CommitsAlone
      <4>3. QED
        BY <3>1, <3>2, <4>2
    <3>4. ReadForBet(p)
      <4>1. ReadToken(p) \/ ReadForBet(p) \/ ReadForResolution(p)
        BY <3>2, <3>3, BeginsWithARead
      <4>2. QED
        BY <3>2, <4>1 DEF ReadToken, ReadForResolution, Kind
    <3>5. Open1 /\ Open
      BY <1>1, <3>3, <3>4 DEF ReadForBet, Goto, Tables, Running, Open
    <3>6. Resolutions = {}
      BY <1>1, <1>2, <3>5 DEF Pools
    <3>7. Settling # {}
      BY <1>6, <3>6
    <3>8. QED
      BY <3>4, <3>5, <3>7 DEF ReadForBet
  <2> HIDE DEF Under
  <2>4. QED
    BY <1>1, <1>5, <2>1, <2>2, <2>3
<1>7. ASSUME NEW r \in Resolutions' \cup Settling', r \notin Resolutions \cup Settling
      PROVE  Under' \ raced' \subseteq bets'[r]
  <2>1. r = p /\ ListBets(p)
    <3>1. CASE r \in Settling'
      <4>1. r = p
        BY <1>7, <3>1, DecidingChanges
      <4>2. QED
        BY <1>7, <3>1, <4>1, DecidingChanges
    <3>2. CASE r \notin Settling'
      <4>1. r \in Resolutions' /\ r \in Committed' /\ r \notin Committed /\ r \in Kind("resolve")
        BY <1>1, <1>7, <3>2 DEF Resolutions
      <4>2. Kept(p)
        BY <4>1, CommitsAlone
      <4>3. r = p /\ p \in Running /\ pc[p] = "commit"
        BY <4>1, <4>2, CommitAddsOne DEF Kept, At
      <4>4. r \in Settling
        BY <4>1, <4>3 DEF Settling, At
      <4>5. QED
        BY <1>7, <4>4
    <3>3. QED
      BY <3>1, <3>2
  <2>2. /\ bets'[p] = {b \in Session : item[b] # NoItem}
        /\ raced' = raced \cup (Running \cap Kind("bet"))
    BY <1>1, <2>1 DEF ListBets, Tables
  <2>3. bets'[p] = CommittedBets
    <3>1. BetsStand /\ CommittedBets \subseteq Session
      BY DEF Transactions, CommittedBets, Kind
    <3>2. QED
      BY <2>2, <3>1 DEF BetsStand
  <2>4. p \notin Under'
    <3>1. job[p].kind = "resolve"
      <4>1. r \in Kind("resolve")
        BY <1>1, <1>7 DEF Resolutions, Settling
      <4>2. QED
        BY <2>1, <4>1 DEF Kind
    <3>2. p \notin Kind("bet")
      BY <3>1 DEF Kind
    <3>3. QED
      BY <1>1, <3>2
  <2>5. Under' \ raced' \subseteq CommittedBets
    <3>1. Under' \subseteq Under
      BY <1>5, <2>4
    <3>2. Under \subseteq (Running \cap Kind("bet")) \cup CommittedBets
      BY DEF CommittedBets
    <3> HIDE DEF Under
    <3>3. QED
      BY <2>2, <3>1, <3>2
  <2>6. QED
    BY <2>1, <2>3, <2>5
<1>8. QED
  BY <1>3, <1>4, <1>6, <1>7 DEF ResolutionsFit

-----------------------------------------------------------------------------
(***************************************************************************)
(* The invariant, and what follows from it.                                *)
(***************************************************************************)
MarketInv == /\ Transactions
             /\ BooksBalance /\ PoolsMatchBets
             /\ SupplyCountsSales /\ PurchasesFit
             /\ ResolutionsFit

\* The invariant holds at first,
LEMMA MarketInvStart == Init => MarketInv
<1> SUFFICES ASSUME Init PROVE MarketInv
  OBVIOUS
<1>1. Transactions
  BY TransactionsStart
<1>2. /\ Running = {} /\ Committed = {} /\ raced = {} /\ row = Opening
      /\ item[Token] = 0 /\ item[Market] = [status |-> "active", yes |-> 0, no |-> 0]
      /\ \A u \in User : Tokens(item[u]) = 0
  BY ItemsAreDistinct DEF Init, StoreInit, Running, Committed, Tokens
<1>3. \A T : Committed \cap T = {}
  BY <1>2
<1>4. /\ \A u : PaidBy(u) = 0 /\ BoughtBy(u) = 0
      /\ \A u, c : StakedBy(u, c) = 0 /\ WonBy(u, c) = 0
      /\ Sold = 0 /\ \A s : PoolOf(s) = 0
  BY <1>3, EmptySum DEF PaidBy, BoughtBy, StakedBy, WonBy, Sold, PoolOf
<1>5. BooksBalance
  <2>1. \A u \in User : Opening[u].bal \in Int
    BY MarketAssumption DEF Wallet
  <2>2. Balanced
    BY <1>2, <1>4, <2>1 DEF Balanced
  <2>3. QED
    BY <2>2, BalancedBooks
<1>6. PoolsMatchBets
  <2>1. Pooling
    BY <1>2, <1>4 DEF Pooling
  <2>2. QED
    BY <2>1, PoolsMatch
<1>7. Bought(CommittedBuys) = 0 /\ MaxSupply \in Nat
  BY <1>4, SumsAgreeNow, MarketAssumption DEF SumsAgree
<1>8. SupplyCountsSales /\ PurchasesFit
  BY <1>2, <1>7 DEF SupplyCountsSales, PurchasesFit
<1>9. ResolutionsFit
  BY <1>2 DEF ResolutionsFit, Deciding, Resolutions, Settling
<1>10. QED
  BY <1>1, <1>5, <1>6, <1>8, <1>9 DEF MarketInv

\* each step of a request keeps it,
LEMMA MarketInvStays ==
  ASSUME MarketInv, [Next]_vars
  PROVE  MarketInv'
<1>1. Transactions
  BY DEF MarketInv
<1>2. CASE UNCHANGED vars
  <2>1. Transactions'
    <3> USE <1>2 DEF vars, storeVars, itemVars
    <3>1. UNCHANGED <<row, ver, lock, item, newItem, itemLock>>
      OBVIOUS
    <3>2. UNCHANGED <<pc, job, supply, bets, todo, share, raced>>
      OBVIOUS
    <3>3. Transactions' = Transactions
      BY <3>1, <3>2 DEF Transactions, TypeOK, StoreTypeOK, Kind, Bet, StagesFit, StoresHold, Running,
         BetsStand, CommittedBets, Committed, PaysOnce, OwnBooks, Change, Cost, BetsOf, InCurrency,
         OfUser, Tokens, OwnRows, WroteToken, WrotePools, WroteStatus, WroteBet, InPool, ToSet
    <3>4. QED
      BY <1>1, <3>3
  <2>2. UNCHANGED <<row, item, pc, job, supply, bets, share, raced>>
    BY <1>2 DEF vars, storeVars, itemVars
  <2>3. BooksBalance' = BooksBalance /\ PoolsMatchBets' = PoolsMatchBets
    BY <2>2 DEF BooksBalance, PoolsMatchBets, Paid, Bought, Stakes, Won, Amounts, Cost, OfUser, InCurrency,
       CommittedBuys, CommittedBets, Resolutions, Committed, Kind
  <2>4. SupplyCountsSales' = SupplyCountsSales /\ PurchasesFit' = PurchasesFit
    BY <2>2 DEF SupplyCountsSales, PurchasesFit, Bought, Amounts, CommittedBuys, Committed, Running, Kind
  <2>5. ResolutionsFit' = ResolutionsFit
    BY <2>2 DEF ResolutionsFit, Deciding, Resolutions, Settling, Committed, Running, Kind, At
  <2>6. QED
    BY <2>1, <2>3, <2>4, <2>5 DEF MarketInv
<1>3. ASSUME NEW p \in Session, Acts(p) PROVE MarketInv'
  <2>1. Transactions'
    BY <1>1, <1>3, TransactionsStay
  <2>2. BooksBalance'
    <3>1. Balanced
      BY BalancedBooks DEF MarketInv
    <3>2. Balanced'
      BY <1>1, <1>3, <3>1, BalanceStays
    <3>3. QED
      BY <3>2, BalancedBooksNext
  <2>3. PoolsMatchBets'
    <3>1. Pooling
      BY PoolsMatch DEF MarketInv
    <3>2. Pooling'
      BY <1>1, <1>3, <3>1, PoolingStays
    <3>3. QED
      BY <3>2, PoolsMatchNext
  <2>4. SupplyCountsSales' /\ PurchasesFit'
    BY <1>1, <1>3, SalesStay DEF MarketInv
  <2>5. ResolutionsFit'
    BY <1>1, <1>3, ResolutionsStay DEF MarketInv
  <2>6. QED
    BY <2>1, <2>2, <2>3, <2>4, <2>5 DEF MarketInv
<1>4. UNCHANGED vars \/ \E p \in Session : Acts(p)
  BY <1>1, NextCases DEF Acts
<1>5. QED
  BY <1>2, <1>3, <1>4

\* and so it always holds.
LEMMA MarketInvHolds == Spec => []MarketInv
BY MarketInvStart, MarketInvStays, PTL DEF Spec

\* At most one of the resolutions that overlapped no other is committed.
LEMMA OneResolution ==
  ASSUME MarketInv
  PROVE  ResolutionExact
<1>1. /\ \A r, s \in Deciding \ raced : r = s
      /\ Resolutions # {} <=> item[Market].status = "resolved"
      /\ \A r \in Resolutions \cup Settling :
           ((Running \cup Committed) \cap Kind("bet")) \ raced \subseteq bets[r]
  BY DEF MarketInv, ResolutionsFit
<1> DEFINE R == Resolutions \ raced
<1>2. Cardinality(R) <= 1
  <2>1. \A r, s \in R : r = s
    BY <1>1 DEF Deciding, Resolutions
  <2>2. CASE R = {}
    BY <2>2, FS_EmptySet
  <2>3. CASE R # {}
    <3>1. PICK r \in R : TRUE
      BY <2>3
    <3>2. R = {r}
      BY <2>1, <3>1
    <3>3. Cardinality({r}) = 1
      BY FS_Singleton
    <3> HIDE DEF R
    <3>4. QED
      BY <3>2, <3>3
  <2>4. QED
    BY <2>2, <2>3
<1>3. \A r \in Resolutions : CommittedBets \ raced \subseteq bets[r]
  BY <1>1 DEF CommittedBets
<1>4. QED
  BY <1>1, <1>2, <1>3 DEF ResolutionExact

\* Wallets, holdings, pools and the recorded supply are what the committed
\* purchases, bets and payouts of creator_token.go and prediction.go make of
\* them: each request's transaction takes effect whole, once, or not at all.
THEOREM MarketBooksHold == Spec => []BooksHold
<1>1. MarketInv => BooksHold
  BY DEF MarketInv, Transactions, BooksHold
<1>2. QED
  BY <1>1, MarketInvHolds, PTL

\* ResolvePrediction settles a prediction twice, or passes over a bet, only
\* when the requests overlapped: of the resolutions that found no other under
\* way at most one commits, and it has read every bet that overlapped none.
THEOREM MarketResolutionExact == Spec => []ResolutionExact
BY OneResolution, MarketInvHolds, PTL
=============================================================================
