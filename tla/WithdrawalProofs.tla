-------------------------- MODULE WithdrawalProofs --------------------------
(***************************************************************************)
(* Proofs about Withdrawal: what the requests and the settlements of       *)
(* internal/usecase/withdrawal_usecase.go keep, for any number of users,   *)
(* requests and payouts, any amounts, limits and size of the pool.         *)
(***************************************************************************)
EXTENDS Withdrawal, SumLemmas

-----------------------------------------------------------------------------
(***************************************************************************)
(* The inductive invariant.                                                *)
(***************************************************************************)
\* A request before its row is there, and before its debit is committed.
BeforeRow    == {"rq_count", "rq_amount", "rq_begin", "rq_balance", "rq_debit", "rq_row"}
AfterRow     == {"rq_audits", "rq_commit", "rq_incr", "rq_incrby"}
BeforeCommit == BeforeRow \cup {"rq_audits", "rq_commit"}

\* The transaction has made its debit; may have made its credit.
Debiting  == {"rq_row", "rq_audits", "rq_commit"}
Crediting == {"st_record", "st_status", "st_commit"}

\* A settlement that has found the payout pending, until it writes its verdict.
Deciding == {"st_credit", "st_record", "st_status"}
Found    == Deciding \cup {"st_commit"}

\* A locked row differs from its new version by the one movement the
\* transaction of the lock has made.
LocksAreMoves ==
  \A u \in User :
    /\ (row[u] = NoWallet) <=> (Opening[u] = NoWallet)
    /\ lock[u] = NoTx => ver[u] = row[u]
    /\ \A p \in Session : lock[u] = p =>
         /\ row[u] # NoWallet /\ ver[u] # NoWallet
         /\ \/ /\ pc[p] \in Debiting /\ u = Client(p)
               /\ ver[u].bal = row[u].bal - Gross[item[p]]
            \/ /\ pc[p] \in Crediting /\ u = Beneficiary(p)
               /\ ver[u].bal = row[u].bal + Due(p)

\* A debit, and the refund of a rejection, are made under the lock.
MovesAreLocked ==
  \A p \in Session :
    /\ pc[p] \in Debiting => lock[Client(p)] = p
    /\ pc[p] \in Crediting /\ verdict[p] = "rejected" => lock[Client(p)] = p

\* A payout is requested once, has no row until the request writes it, and
\* keeps it; nobody settles it before.
RequestsAreSingle ==
  /\ \A p \in Session : pc[p] \in BeforeRow => status[item[p]] = "none"
  /\ \A p \in Session : pc[p] \in AfterRow \cup Settling => status[item[p]] # "none"
  /\ \A p \in Session : pc[p] \in BeforeCommit => item[p] \notin debited
  /\ \A p, q \in Session : p # q /\ item[p] = item[q] /\ pc[p] \in Requesting
       => pc[q] \notin Requesting

\* A payout no two settlements of which overlapped, and no settlement of
\* which broke off between the status and the money: one at most is at work.
SettledOnce(w) ==
  /\ refunded[w] = IF status[w] = "rejected" /\ ~Settlement(w) THEN 1 ELSE 0
  /\ commission[w] > 0 => commission[w] = 1 /\ status[w] = "approved" /\ ~Settlement(w)
  /\ \A p \in Session : item[p] = w =>
       /\ pc[p] \in Deciding => status[w] = "pending"
       /\ pc[p] = "st_commit" => status[w] = verdict[p]
  /\ \A p, q \in Session : p # q /\ item[p] = w /\ item[q] = w /\ pc[p] \in Found
       => pc[q] \notin Found

Control == /\ TypeOK
           /\ LocksAreMoves
           /\ MovesAreLocked
           /\ RequestsAreSingle
           /\ DebitHasRow

Settled == \A w \in Payout \ (overlap \cup torn) : SettledOnce(w)

-----------------------------------------------------------------------------
(***************************************************************************)
(* The wallets, in the transactions of this file.                          *)
(***************************************************************************)
\* A transaction that ends without a commit leaves the rows, and the new
\* versions and the locks of the others.
LEMMA RollbackTakesEffect ==
  ASSUME StoreTypeOK, NEW p, Rollback(p)
  PROVE  /\ StoreTypeOK' /\ row' = row
         /\ \A u \in User : /\ lock[u] = p => lock'[u] = NoTx /\ ver'[u] = row[u]
                            /\ lock[u] # p => lock'[u] = lock[u] /\ ver'[u] = ver[u]
BY StoreAssumption DEF Rollback, StoreTypeOK

\* The same for a transaction whose use case returns an error.
LEMMA AbortTakesEffect ==
  ASSUME StoreTypeOK, NEW p, Abort(p)
  PROVE  /\ StoreTypeOK' /\ row' = row
         /\ pc' = [pc EXCEPT ![p] = "failed"] /\ broken' = [broken EXCEPT ![p] = FALSE]
         /\ \A u \in User : /\ lock[u] = p => lock'[u] = NoTx /\ ver'[u] = row[u]
                            /\ lock[u] # p => lock'[u] = lock[u] /\ ver'[u] = ver[u]
BY RollbackTakesEffect DEF Abort, Goto

\* A step that leaves the wallets leaves their types.
LEMMA UnchangedStore ==
  ASSUME StoreTypeOK, UNCHANGED storeVars
  PROVE  StoreTypeOK' /\ row' = row /\ ver' = ver /\ lock' = lock
BY DEF storeVars, StoreTypeOK

\* A commit makes the new versions of the transaction the rows.
LEMMA CommitTakesEffect ==
  ASSUME StoreTypeOK, NEW p, Commit(p)
  PROVE  /\ StoreTypeOK' /\ ver' = ver
         /\ \A u \in User : /\ lock[u] = p => lock'[u] = NoTx /\ row'[u] = ver[u]
                            /\ lock[u] # p => lock'[u] = lock[u] /\ row'[u] = row[u]
BY StoreAssumption DEF Commit, StoreTypeOK

\* The two statements of this file, both in a transaction.
Debits(p, u, a)  == Move(p, "debit", u, a, TRUE)
Credits(p, u, a) == Move(p, "credit", u, a, TRUE)

\* A debit takes the amount off the new version of one row, and its lock.
LEMMA DebitTakesEffect ==
  ASSUME StoreTypeOK, NEW p \in Session, NEW u \in User, NEW a \in Nat, lock[u] # p,
         Debits(p, u, a)
  PROVE  /\ StoreTypeOK' /\ row' = row
         /\ lock[u] = NoTx /\ lock' = [lock EXCEPT ![u] = p]
         /\ row[u] # NoWallet /\ ver'[u] # NoWallet /\ ver'[u].bal = row[u].bal - a
         /\ \A v \in User \ {u} : ver'[v] = ver[v]
<1>1. /\ row' = row /\ lock[u] = NoTx /\ lock' = [lock EXCEPT ![u] = p]
      /\ row[u] # NoWallet /\ row[u].bal >= a
      /\ ver' = [ver EXCEPT ![u] = DebitBalance(row[u], a)]
  BY DEF Debits, Move, Covered, Write, Lock, Unlocked, Seen, Moved
<1>2. DebitBalance(row[u], a) \in Wallet /\ DebitBalance(row[u], a).bal = row[u].bal - a
  <2>1. row[u].bal \in Nat /\ row[u].frz \in Nat /\ row[u].bal - a \in Nat
    BY <1>1 DEF StoreTypeOK, Wallet
  <2>2. QED
    BY <2>1 DEF DebitBalance, Wallet
<1>3. QED
  BY <1>1, <1>2, StoreAssumption DEF StoreTypeOK

\* A credit adds it, and takes the lock.
LEMMA CreditTakesEffect ==
  ASSUME StoreTypeOK, NEW p \in Session, NEW u \in User, NEW a \in Nat, lock[u] # p,
         Credits(p, u, a)
  PROVE  /\ StoreTypeOK' /\ row' = row
         /\ lock[u] = NoTx /\ lock' = [lock EXCEPT ![u] = p]
         /\ row[u] # NoWallet /\ ver'[u] # NoWallet /\ ver'[u].bal = row[u].bal + a
         /\ \A v \in User \ {u} : ver'[v] = ver[v]
<1>1. /\ row' = row /\ lock[u] = NoTx /\ lock' = [lock EXCEPT ![u] = p]
      /\ row[u] # NoWallet
      /\ ver' = [ver EXCEPT ![u] = CreditBalance(row[u], a)]
  BY DEF Credits, Move, Write, Lock, Unlocked, Seen, Moved
<1>2. CreditBalance(row[u], a) \in Wallet /\ CreditBalance(row[u], a).bal = row[u].bal + a
  <2>1. row[u].bal \in Nat /\ row[u].frz \in Nat
    BY <1>1 DEF StoreTypeOK, Wallet
  <2>2. QED
    BY <2>1 DEF CreditBalance, Wallet
<1>3. QED
  BY <1>1, <1>2, StoreAssumption DEF StoreTypeOK

\* The parties and the amounts of a request.
LEMMA PartiesAreKnown ==
  ASSUME TypeOK, NEW p \in Session
  PROVE  /\ item[p] \in Payout /\ Client(p) \in User /\ Client(p) = Owner[item[p]]
         /\ Beneficiary(p) \in User /\ Due(p) \in Nat /\ Gross[item[p]] \in Nat
         /\ verdict[p] = "rejected" => Beneficiary(p) = Client(p)
BY WithdrawalAssumption DEF TypeOK, Client, Beneficiary, Due

\* Nobody holds a lock but in the transaction that has moved money.
LEMMA LocksAreHeldByMovers ==
  ASSUME LocksAreMoves, NEW p \in Session, NEW u \in User, lock[u] = p
  PROVE  pc[p] \in Debiting \cup Crediting
BY DEF LocksAreMoves

\* The statement that moves money, with what it needs of the invariant.
LEMMA DebitOfRequest ==
  ASSUME TypeOK, LocksAreMoves, NEW p \in Session, At(p, "rq_debit"),
         Debits(p, Client(p), Gross[item[p]])
  PROVE  /\ StoreTypeOK' /\ row' = row
         /\ lock[Client(p)] = NoTx /\ lock' = [lock EXCEPT ![Client(p)] = p]
         /\ row[Client(p)] # NoWallet /\ ver'[Client(p)] # NoWallet
         /\ ver'[Client(p)].bal = row[Client(p)].bal - Gross[item[p]]
         /\ \A v \in User \ {Client(p)} : ver'[v] = ver[v]
<1>1. /\ StoreTypeOK /\ Client(p) \in User /\ Gross[item[p]] \in Nat
      /\ lock[Client(p)] # p
  BY PartiesAreKnown, LocksAreHeldByMovers DEF TypeOK, At, Debiting, Crediting
<1>2. QED
  BY <1>1, DebitTakesEffect

\* The statement of a settlement that pays somebody, likewise.
LEMMA CreditOfSettlement ==
  ASSUME TypeOK, LocksAreMoves, NEW p \in Session, At(p, "st_credit"),
         Credits(p, Beneficiary(p), Due(p))
  PROVE  /\ StoreTypeOK' /\ row' = row
         /\ lock[Beneficiary(p)] = NoTx /\ lock' = [lock EXCEPT ![Beneficiary(p)] = p]
         /\ row[Beneficiary(p)] # NoWallet /\ ver'[Beneficiary(p)] # NoWallet
         /\ ver'[Beneficiary(p)].bal = row[Beneficiary(p)].bal + Due(p)
         /\ \A v \in User \ {Beneficiary(p)} : ver'[v] = ver[v]
<1>1. /\ StoreTypeOK /\ Beneficiary(p) \in User /\ Due(p) \in Nat
      /\ lock[Beneficiary(p)] # p
  BY PartiesAreKnown, LocksAreHeldByMovers DEF TypeOK, At, Debiting, Crediting
<1>2. QED
  BY <1>1, CreditTakesEffect

-----------------------------------------------------------------------------
(***************************************************************************)
(* One lemma per part of the invariant, one step per action.               *)
(***************************************************************************)
\* The types.
LEMMA TypesStayCorrect ==
  ASSUME TypeOK, LocksAreMoves, [Next]_vars
  PROVE  TypeOK'
<1> USE DEF TypeOK, At, Goto, Ended, Requesting, Settling, rows, redis, money,
  history
<1>1. ASSUME NEW p \in Session, StartRequest(p) PROVE TypeOK'
  BY <1>1, PartiesAreKnown, UnchangedStore DEF StartRequest
<1>2. ASSUME NEW p \in Session, CheckDailyCount(p) PROVE TypeOK'
  BY <1>2, PartiesAreKnown, UnchangedStore DEF CheckDailyCount
<1>3. ASSUME NEW p \in Session, CheckDailyAmount(p) PROVE TypeOK'
  BY <1>3, PartiesAreKnown, UnchangedStore DEF CheckDailyAmount
<1>4. ASSUME NEW p \in Session, BeginTx(p) PROVE TypeOK'
  BY <1>4, PartiesAreKnown, UnchangedStore DEF BeginTx
<1>5. ASSUME NEW p \in Session, CheckBalance(p) PROVE TypeOK'
  BY <1>5, AbortTakesEffect, UnchangedStore DEF CheckBalance, Tear
<1>6. ASSUME NEW p \in Session, DebitWallet(p) PROVE TypeOK'
  BY <1>6, AbortTakesEffect, DebitOfRequest DEF DebitWallet, Debits, Client
<1>7. ASSUME NEW p \in Session, CreateRow(p) PROVE TypeOK'
  <2>1. CASE Abort(p)
    BY <1>7, <2>1, AbortTakesEffect DEF CreateRow
  <2>2. CASE UNCHANGED <<storeVars, broken>> /\ Goto(p, "rq_audits")
    BY <1>7, <2>2, UnchangedStore DEF CreateRow
  <2>3. QED
    BY <1>7, <2>1, <2>2 DEF CreateRow
<1>8. ASSUME NEW p \in Session, CreateFeeAudits(p) PROVE TypeOK'
  BY <1>8, AbortTakesEffect, UnchangedStore DEF CreateFeeAudits, Tear
<1>9. ASSUME NEW p \in Session, CommitRequest(p) PROVE TypeOK'
  BY <1>9, CommitTakesEffect, PartiesAreKnown DEF CommitRequest
<1>10. ASSUME NEW p \in Session, CountRequest(p) PROVE TypeOK'
  BY <1>10, PartiesAreKnown, UnchangedStore DEF CountRequest
<1>11. ASSUME NEW p \in Session, CountAmount(p) PROVE TypeOK'
  BY <1>11, PartiesAreKnown, UnchangedStore DEF CountAmount
<1>12. ASSUME NEW p \in Session, StartSettlement(p) PROVE TypeOK'
  BY <1>12, PartiesAreKnown, UnchangedStore DEF StartSettlement
<1>13. ASSUME NEW p \in Session, GetWithdrawal(p) PROVE TypeOK'
  <2>1. /\ StoreTypeOK' /\ broken' \in [Session -> BOOLEAN]
        /\ pc' \in [Session -> Ended \cup Requesting \cup Settling]
    BY <1>13, AbortTakesEffect, UnchangedStore DEF GetWithdrawal
  <2>2. overlap' \subseteq Payout
    BY <1>13 DEF GetWithdrawal
  <2>3. QED
    BY <1>13, <2>1, <2>2 DEF GetWithdrawal
<1>14. ASSUME NEW p \in Session, CreditSettlement(p) PROVE TypeOK'
  BY <1>14, AbortTakesEffect, UnchangedStore, CreditOfSettlement DEF
    CreditSettlement, Credits
<1>15. ASSUME NEW p \in Session, RecordSettlement(p) PROVE TypeOK'
  BY <1>15, PartiesAreKnown, UnchangedStore DEF RecordSettlement
<1>16. ASSUME NEW p \in Session, WriteStatus(p) PROVE TypeOK'
  <2>1. /\ StoreTypeOK' /\ broken' \in [Session -> BOOLEAN]
        /\ pc' \in [Session -> Ended \cup Requesting \cup Settling]
    BY <1>16, AbortTakesEffect, UnchangedStore DEF WriteStatus
  <2>2. status' \in [Payout -> {"none", "pending", "approved", "rejected"}] /\ torn' \subseteq Payout
    BY <1>16 DEF WriteStatus, Tear
  <2>3. QED
    BY <1>16, <2>1, <2>2 DEF WriteStatus
<1>17. ASSUME NEW p \in Session, CommitSettlement(p) PROVE TypeOK'
  <2>1. CASE broken[p]
    <3>1. /\ StoreTypeOK' /\ broken' \in [Session -> BOOLEAN]
        /\ pc' \in [Session -> Ended \cup Requesting \cup Settling]
      BY <1>17, <2>1, AbortTakesEffect DEF CommitSettlement
    <3>2. torn' \subseteq Payout
      BY <1>17, <2>1 DEF CommitSettlement, Tear
    <3>3. QED
      BY <1>17, <2>1, <3>1, <3>2 DEF CommitSettlement
  <2>2. CASE ~broken[p]
    <3>1. StoreTypeOK' /\ pc' \in [Session -> Ended \cup Requesting \cup Settling]
      BY <1>17, <2>2, CommitTakesEffect DEF CommitSettlement
    <3>2. refunded' \in [Payout -> Nat] /\ commission' \in [Payout -> Nat]
      BY <1>17, <2>2 DEF CommitSettlement, Plus
    <3>3. QED
      BY <1>17, <2>2, <3>1, <3>2 DEF CommitSettlement
  <2>3. QED
    BY <2>1, <2>2
<1>18. ASSUME NEW p \in Session, Stops(p) PROVE TypeOK'
  <2>1. /\ StoreTypeOK' /\ pc' = [pc EXCEPT ![p] = "failed"] /\ broken' = [broken EXCEPT ![p] = FALSE]
    BY <1>18, AbortTakesEffect DEF Stops
  <2>2. torn' \subseteq Payout /\ uncounted' \subseteq User
    BY <1>18, PartiesAreKnown DEF Stops
  <2>3. QED
    BY <1>18, <2>1, <2>2 DEF Stops
<1>19. ASSUME NEW w \in Payout, HoldEnds(w) PROVE TypeOK'
  BY <1>19, PartiesAreKnown, UnchangedStore DEF HoldEnds
<1>20. CASE UNCHANGED vars
  BY <1>20, UnchangedStore DEF vars
<1>21. QED
  BY <1>1, <1>2, <1>3, <1>4, <1>5, <1>6, <1>7, <1>8, <1>9, <1>10, <1>11,
    <1>12, <1>13, <1>14, <1>15, <1>16, <1>17, <1>18, <1>19, <1>20 DEF Next,
    Advance, Finished

\* A payout is requested once.
LEMMA RequestsStaySingle ==
  ASSUME TypeOK, RequestsAreSingle, DebitHasRow, [Next]_vars
  PROVE  (RequestsAreSingle /\ DebitHasRow)'
<1> USE DEF TypeOK, RequestsAreSingle, DebitHasRow, At, Goto, Ended,
  Requesting, Settling, BeforeRow, AfterRow, BeforeCommit, rows, redis, money,
  history
<1>1. ASSUME NEW p \in Session, StartRequest(p) PROVE (RequestsAreSingle /\ DebitHasRow)'
  BY <1>1 DEF StartRequest
<1>2. ASSUME NEW p \in Session, CheckDailyCount(p) PROVE (RequestsAreSingle /\ DebitHasRow)'
  BY <1>2 DEF CheckDailyCount
<1>3. ASSUME NEW p \in Session, CheckDailyAmount(p) PROVE (RequestsAreSingle /\ DebitHasRow)'
  BY <1>3 DEF CheckDailyAmount
<1>4. ASSUME NEW p \in Session, BeginTx(p) PROVE (RequestsAreSingle /\ DebitHasRow)'
  BY <1>4 DEF BeginTx
<1>5. ASSUME NEW p \in Session, CheckBalance(p) PROVE (RequestsAreSingle /\ DebitHasRow)'
  BY <1>5, AbortTakesEffect DEF CheckBalance
<1>6. ASSUME NEW p \in Session, DebitWallet(p) PROVE (RequestsAreSingle /\ DebitHasRow)'
  <2>1. /\ Abort(p) \/ Goto(p, "rq_row")
        /\ At(p, "rq_debit")
        /\ UNCHANGED <<item, rows, money>>
    BY <1>6, Zenon DEF DebitWallet
  <2>2. QED
    BY <2>1, AbortTakesEffect
<1>7. ASSUME NEW p \in Session, CreateRow(p) PROVE (RequestsAreSingle /\ DebitHasRow)'
  BY <1>7, AbortTakesEffect DEF CreateRow
<1>8. ASSUME NEW p \in Session, CreateFeeAudits(p) PROVE (RequestsAreSingle /\ DebitHasRow)'
  BY <1>8, AbortTakesEffect DEF CreateFeeAudits
<1>9. ASSUME NEW p \in Session, CommitRequest(p) PROVE (RequestsAreSingle /\ DebitHasRow)'
  BY <1>9 DEF CommitRequest
<1>10. ASSUME NEW p \in Session, CountRequest(p) PROVE (RequestsAreSingle /\ DebitHasRow)'
  BY <1>10 DEF CountRequest
<1>11. ASSUME NEW p \in Session, CountAmount(p) PROVE (RequestsAreSingle /\ DebitHasRow)'
  BY <1>11 DEF CountAmount
<1>12. ASSUME NEW p \in Session, StartSettlement(p) PROVE (RequestsAreSingle /\ DebitHasRow)'
  BY <1>12 DEF StartSettlement
<1>13. ASSUME NEW p \in Session, GetWithdrawal(p) PROVE (RequestsAreSingle /\ DebitHasRow)'
  BY <1>13, AbortTakesEffect DEF GetWithdrawal
<1>14. ASSUME NEW p \in Session, CreditSettlement(p) PROVE (RequestsAreSingle /\ DebitHasRow)'
  <2>1. /\ Abort(p) \/ Goto(p, "st_record")
        /\ At(p, "st_credit")
        /\ UNCHANGED <<item, rows, money>>
    BY <1>14, Zenon DEF CreditSettlement
  <2>2. QED
    BY <2>1, AbortTakesEffect
<1>15. ASSUME NEW p \in Session, RecordSettlement(p) PROVE (RequestsAreSingle /\ DebitHasRow)'
  BY <1>15 DEF RecordSettlement
<1>16. ASSUME NEW p \in Session, WriteStatus(p) PROVE (RequestsAreSingle /\ DebitHasRow)'
  BY <1>16, AbortTakesEffect DEF WriteStatus
<1>17. ASSUME NEW p \in Session, CommitSettlement(p) PROVE (RequestsAreSingle /\ DebitHasRow)'
  BY <1>17, AbortTakesEffect DEF CommitSettlement
<1>18. ASSUME NEW p \in Session, Stops(p) PROVE (RequestsAreSingle /\ DebitHasRow)'
  BY <1>18, AbortTakesEffect DEF Stops
<1>19. ASSUME NEW w \in Payout, HoldEnds(w) PROVE (RequestsAreSingle /\ DebitHasRow)'
  BY <1>19 DEF HoldEnds
<1>20. CASE UNCHANGED vars
  BY <1>20 DEF vars
<1>21. QED
  BY <1>1, <1>2, <1>3, <1>4, <1>5, <1>6, <1>7, <1>8, <1>9, <1>10, <1>11,
    <1>12, <1>13, <1>14, <1>15, <1>16, <1>17, <1>18, <1>19, <1>20 DEF Next,
    Advance, Finished

\* A step that leaves the wallets, and neither enters nor leaves a transaction
\* that has moved money.
LEMMA OthersKeepLocks ==
  ASSUME TypeOK, LocksAreMoves, MovesAreLocked, NEW p \in Session,
         UNCHANGED <<storeVars, item>>, NEW l, pc' = [pc EXCEPT ![p] = l],
         l \in Debiting <=> pc[p] \in Debiting, l \in Crediting <=> pc[p] \in Crediting,
         \A q \in Session : pc[q] \in Crediting => verdict'[q] = verdict[q]
  PROVE  LocksAreMoves' /\ MovesAreLocked'
<1>1. /\ row' = row /\ ver' = ver /\ lock' = lock /\ item' = item
      /\ \A q \in Session : /\ pc'[q] \in Debiting <=> pc[q] \in Debiting
                            /\ pc'[q] \in Crediting <=> pc[q] \in Crediting
                            /\ Client(q)' = Client(q)
                            /\ pc[q] \in Crediting => Beneficiary(q)' = Beneficiary(q) /\ Due(q)' = Due(q)
  BY DEF TypeOK, storeVars, Client, Beneficiary, Due
<1>2. LocksAreMoves'
  BY <1>1 DEF LocksAreMoves
<1>3. MovesAreLocked'
  BY <1>1 DEF MovesAreLocked
<1>4. QED
  BY <1>2, <1>3

\* A transaction that has ended holds no lock.
LEMMA AbortKeepsLocks ==
  ASSUME TypeOK, LocksAreMoves, MovesAreLocked, NEW p \in Session, Abort(p),
         UNCHANGED <<item, verdict>>
  PROVE  LocksAreMoves' /\ MovesAreLocked'
<1>1. /\ StoreTypeOK /\ row' = row /\ item' = item /\ verdict' = verdict
      /\ \A u \in User : /\ lock[u] = p => lock'[u] = NoTx /\ ver'[u] = row[u]
                         /\ lock[u] # p => lock'[u] = lock[u] /\ ver'[u] = ver[u]
      /\ pc'[p] = "failed" /\ \A q \in Session \ {p} : pc'[q] = pc[q]
  BY AbortTakesEffect DEF TypeOK
<1>2. \A q \in Session : Client(q)' = Client(q) /\ Beneficiary(q)' = Beneficiary(q) /\ Due(q)' = Due(q)
  BY <1>1 DEF Client, Beneficiary, Due
<1>3. \A u \in User : lock'[u] # p
  BY <1>1, StoreAssumption
<1>4. LocksAreMoves'
  BY <1>1, <1>2, <1>3, StoreAssumption DEF LocksAreMoves
<1>5. MovesAreLocked'
  <2>1. "failed" \notin Debiting /\ "failed" \notin Crediting
    BY DEF Debiting, Crediting
  <2>2. \A q \in Session : Client(q) \in User
    BY PartiesAreKnown
  <2>3. QED
    BY <1>1, <1>2, <2>1, <2>2 DEF MovesAreLocked
<1>6. QED
  BY <1>4, <1>5

\* Nor does one that has been committed.
LEMMA CommitKeepsLocks ==
  ASSUME TypeOK, LocksAreMoves, MovesAreLocked, NEW p \in Session, Commit(p),
         UNCHANGED <<item, verdict>>,
         NEW l, pc' = [pc EXCEPT ![p] = l], l \notin Debiting, l \notin Crediting
  PROVE  LocksAreMoves' /\ MovesAreLocked'
<1>1. /\ StoreTypeOK /\ ver' = ver /\ item' = item /\ verdict' = verdict
      /\ \A u \in User : /\ lock[u] = p => lock'[u] = NoTx /\ row'[u] = ver[u]
                         /\ lock[u] # p => lock'[u] = lock[u] /\ row'[u] = row[u]
      /\ pc'[p] = l /\ \A q \in Session \ {p} : pc'[q] = pc[q]
  BY CommitTakesEffect DEF TypeOK
<1>2. \A q \in Session : Client(q)' = Client(q) /\ Beneficiary(q)' = Beneficiary(q) /\ Due(q)' = Due(q)
  BY <1>1 DEF Client, Beneficiary, Due
<1>3. \A u \in User : lock'[u] # p
  BY <1>1, StoreAssumption
<1>4. LocksAreMoves'
  BY <1>1, <1>2, <1>3, StoreAssumption DEF LocksAreMoves
<1>5. MovesAreLocked'
  <2>1. \A q \in Session : Client(q) \in User
    BY PartiesAreKnown
  <2>2. QED
    BY <1>1, <1>2, <2>1 DEF MovesAreLocked
<1>6. QED
  BY <1>4, <1>5

\* A transaction that makes its movement takes the lock of the wallet.
LEMMA MoveKeepsLocks ==
  ASSUME TypeOK, LocksAreMoves, MovesAreLocked, NEW p \in Session, UNCHANGED <<item, verdict, row>>,
         NEW u \in User, lock[u] = NoTx, lock' = [lock EXCEPT ![u] = p],
         row[u] # NoWallet, ver'[u] # NoWallet, \A v \in User \ {u} : ver'[v] = ver[v],
         NEW l, pc' = [pc EXCEPT ![p] = l], pc[p] \notin Debiting \cup Crediting,
         \/ /\ l \in Debiting /\ l \notin Crediting /\ u = Client(p)
            /\ ver'[u].bal = row[u].bal - Gross[item[p]]
         \/ /\ l \in Crediting /\ l \notin Debiting /\ u = Beneficiary(p)
            /\ ver'[u].bal = row[u].bal + Due(p)
  PROVE  LocksAreMoves' /\ MovesAreLocked'
<1>1. /\ pc'[p] = l /\ \A q \in Session \ {p} : pc'[q] = pc[q]
      /\ lock'[u] = p /\ p # NoTx /\ \A v \in User \ {u} : lock'[v] = lock[v]
  BY StoreAssumption DEF TypeOK, StoreTypeOK
<1>2. \A q \in Session : Client(q)' = Client(q) /\ Beneficiary(q)' = Beneficiary(q) /\ Due(q)' = Due(q)
  BY DEF Client, Beneficiary, Due
<1>3. \A v \in User : lock[v] # p
  BY LocksAreHeldByMovers
<1>4. LocksAreMoves'
  <2>1. SUFFICES ASSUME NEW v \in User
                 PROVE  /\ (row[v] = NoWallet) <=> (Opening[v] = NoWallet)
                        /\ lock'[v] = NoTx => ver'[v] = row[v]
                        /\ \A q \in Session : lock'[v] = q =>
                             /\ row[v] # NoWallet /\ ver'[v] # NoWallet
                             /\ \/ /\ pc'[q] \in Debiting /\ v = Client(q)
                                   /\ ver'[v].bal = row[v].bal - Gross[item[q]]
                                \/ /\ pc'[q] \in Crediting /\ v = Beneficiary(q)
                                   /\ ver'[v].bal = row[v].bal + Due(q)
    BY <1>2 DEF LocksAreMoves
  <2>2. CASE v = u
    BY <1>1, <2>2 DEF LocksAreMoves
  <2>3. CASE v # u
    BY <1>1, <1>3, <2>3 DEF LocksAreMoves
  <2>4. QED
    BY <2>2, <2>3
<1>5. MovesAreLocked'
  <2>1. SUFFICES ASSUME NEW q \in Session
                 PROVE  /\ pc'[q] \in Debiting => lock'[Client(q)] = q
                        /\ pc'[q] \in Crediting /\ verdict[q] = "rejected" => lock'[Client(q)] = q
    BY <1>2 DEF MovesAreLocked
  <2>2. Client(q) \in User /\ (verdict[q] = "rejected" => Beneficiary(q) = Client(q))
    BY PartiesAreKnown
  <2>3. CASE q = p
    BY <1>1, <2>2, <2>3
  <2>4. CASE q # p
    <3>1. lock[Client(q)] = q => lock'[Client(q)] = q
      BY <1>1, <2>2, <2>4, StoreAssumption
    <3>2. QED
      BY <1>1, <2>4, <3>1 DEF MovesAreLocked
  <2>5. QED
    BY <2>3, <2>4
<1>6. QED
  BY <1>4, <1>5

\* What differs from the row under a lock is the one movement the
\* transaction has made.
LEMMA LocksStayMoves ==
  ASSUME TypeOK, LocksAreMoves, MovesAreLocked, [Next]_vars
  PROVE  (LocksAreMoves /\ MovesAreLocked)'
<1>1. ASSUME NEW p \in Session, StartRequest(p) PROVE (LocksAreMoves /\ MovesAreLocked)'
  BY <1>1, OthersKeepLocks DEF StartRequest, At, Goto, Debiting, Crediting
<1>2. ASSUME NEW p \in Session, CheckDailyCount(p) PROVE (LocksAreMoves /\ MovesAreLocked)'
  BY <1>2, OthersKeepLocks DEF CheckDailyCount, At, Goto, Debiting,
    Crediting
<1>3. ASSUME NEW p \in Session, CheckDailyAmount(p) PROVE (LocksAreMoves /\ MovesAreLocked)'
  BY <1>3, OthersKeepLocks DEF CheckDailyAmount, At, Goto, Debiting,
    Crediting
<1>4. ASSUME NEW p \in Session, BeginTx(p) PROVE (LocksAreMoves /\ MovesAreLocked)'
  BY <1>4, OthersKeepLocks DEF BeginTx, At, Goto, Debiting, Crediting
<1>5. ASSUME NEW p \in Session, CheckBalance(p) PROVE (LocksAreMoves /\ MovesAreLocked)'
  BY <1>5, OthersKeepLocks, AbortKeepsLocks DEF CheckBalance, At, Goto,
    Debiting, Crediting
<1>6. ASSUME NEW p \in Session, DebitWallet(p) PROVE (LocksAreMoves /\ MovesAreLocked)'
  <2>1. CASE Abort(p)
    BY <1>6, <2>1, AbortKeepsLocks DEF DebitWallet
  <2>2. CASE Debits(p, Client(p), Gross[item[p]]) /\ Goto(p, "rq_row")
    <3>1. pc' = [pc EXCEPT ![p] = "rq_row"] /\ pc[p] = "rq_debit" /\ UNCHANGED <<item, verdict>>
      BY <1>6, <2>2 DEF DebitWallet, At, Goto
    <3>2. "rq_row" \in Debiting /\ "rq_row" \notin Crediting /\ pc[p] \notin Debiting \cup Crediting
      BY <3>1 DEF Debiting, Crediting
    <3>3. QED
      BY <1>6, <2>2, <3>1, <3>2, DebitOfRequest, MoveKeepsLocks, PartiesAreKnown DEF DebitWallet
  <2>3. QED
    BY <1>6, <2>1, <2>2 DEF DebitWallet, Debits, Client
<1>7. ASSUME NEW p \in Session, CreateRow(p) PROVE (LocksAreMoves /\ MovesAreLocked)'
  BY <1>7, OthersKeepLocks, AbortKeepsLocks DEF CreateRow, At, Goto,
    Debiting, Crediting
<1>8. ASSUME NEW p \in Session, CreateFeeAudits(p) PROVE (LocksAreMoves /\ MovesAreLocked)'
  BY <1>8, OthersKeepLocks, AbortKeepsLocks DEF CreateFeeAudits, At, Goto,
    Debiting, Crediting
<1>9. ASSUME NEW p \in Session, CommitRequest(p) PROVE (LocksAreMoves /\ MovesAreLocked)'
  BY <1>9, CommitKeepsLocks DEF CommitRequest, Goto, Debiting, Crediting
<1>10. ASSUME NEW p \in Session, CountRequest(p) PROVE (LocksAreMoves /\ MovesAreLocked)'
  BY <1>10, OthersKeepLocks DEF CountRequest, At, Goto, Debiting, Crediting
<1>11. ASSUME NEW p \in Session, CountAmount(p) PROVE (LocksAreMoves /\ MovesAreLocked)'
  BY <1>11, OthersKeepLocks DEF CountAmount, At, Goto, Debiting, Crediting
<1>12. ASSUME NEW p \in Session, StartSettlement(p) PROVE (LocksAreMoves /\ MovesAreLocked)'
  <2>1. /\ UNCHANGED <<storeVars, item>> /\ pc' = [pc EXCEPT ![p] = "st_begin"]
        /\ pc[p] = "idle" /\ \A q \in Session \ {p} : verdict'[q] = verdict[q]
    BY <1>12 DEF StartSettlement, At, Goto, TypeOK
  <2>2. QED
    BY <2>1, OthersKeepLocks DEF Debiting, Crediting
<1>13. ASSUME NEW p \in Session, GetWithdrawal(p) PROVE (LocksAreMoves /\ MovesAreLocked)'
  BY <1>13, OthersKeepLocks, AbortKeepsLocks DEF GetWithdrawal, At, Goto,
    Debiting, Crediting
<1>14. ASSUME NEW p \in Session, CreditSettlement(p) PROVE (LocksAreMoves /\ MovesAreLocked)'
  <2>1. CASE Abort(p)
    BY <1>14, <2>1, AbortKeepsLocks DEF CreditSettlement
  <2>2. CASE Credits(p, Beneficiary(p), Due(p)) /\ Goto(p, "st_record")
    <3>1. pc' = [pc EXCEPT ![p] = "st_record"] /\ pc[p] = "st_credit" /\ UNCHANGED <<item, verdict>>
      BY <1>14, <2>2 DEF CreditSettlement, At, Goto
    <3>2. "st_record" \in Crediting /\ "st_record" \notin Debiting /\ pc[p] \notin Debiting \cup Crediting
      BY <3>1 DEF Debiting, Crediting
    <3>3. QED
      BY <1>14, <2>2, <3>1, <3>2, CreditOfSettlement, MoveKeepsLocks, PartiesAreKnown DEF CreditSettlement
  <2>3. CASE verdict[p] = "approved" /\ Goto(p, "st_record") /\ UNCHANGED storeVars
    <3>1. /\ UNCHANGED <<row, ver, lock, item, verdict>>
          /\ pc'[p] \notin Debiting /\ \A q \in Session \ {p} : pc'[q] = pc[q]
          /\ pc[p] \notin Debiting \cup Crediting
      BY <1>14, <2>3 DEF CreditSettlement, At, Goto, TypeOK, storeVars, Debiting, Crediting
    <3>2. \A q \in Session : Client(q)' = Client(q) /\ Beneficiary(q)' = Beneficiary(q) /\ Due(q)' = Due(q)
      BY <3>1 DEF Client, Beneficiary, Due
    <3>3. \A u \in User : lock[u] # p
      BY <3>1, LocksAreHeldByMovers
    <3>4. LocksAreMoves'
      BY <3>1, <3>2, <3>3 DEF LocksAreMoves
    <3>5. MovesAreLocked'
      BY <2>3, <3>1, <3>2 DEF MovesAreLocked
    <3>6. QED
      BY <3>4, <3>5
  <2>4. QED
    BY <1>14, <2>1, <2>2, <2>3 DEF CreditSettlement, Credits
<1>15. ASSUME NEW p \in Session, RecordSettlement(p) PROVE (LocksAreMoves /\ MovesAreLocked)'
  BY <1>15, OthersKeepLocks DEF RecordSettlement, At, Goto, Debiting,
    Crediting
<1>16. ASSUME NEW p \in Session, WriteStatus(p) PROVE (LocksAreMoves /\ MovesAreLocked)'
  BY <1>16, OthersKeepLocks, AbortKeepsLocks DEF WriteStatus, At, Goto,
    Debiting, Crediting
<1>17. ASSUME NEW p \in Session, CommitSettlement(p) PROVE (LocksAreMoves /\ MovesAreLocked)'
  BY <1>17, CommitKeepsLocks, AbortKeepsLocks DEF CommitSettlement, Goto,
    Debiting, Crediting
<1>18. ASSUME NEW p \in Session, Stops(p) PROVE (LocksAreMoves /\ MovesAreLocked)'
  BY <1>18, OthersKeepLocks, AbortKeepsLocks DEF Stops, At, Goto, Debiting,
    Crediting
<1>19. ASSUME NEW w \in Payout, HoldEnds(w) PROVE (LocksAreMoves /\ MovesAreLocked)'
  BY <1>19 DEF HoldEnds, storeVars, LocksAreMoves, MovesAreLocked, Client,
    Beneficiary, Due
<1>20. CASE UNCHANGED vars
    BY <1>20 DEF vars, storeVars, LocksAreMoves, MovesAreLocked, Client,
    Beneficiary, Due
<1>21. QED
  BY <1>1, <1>2, <1>3, <1>4, <1>5, <1>6, <1>7, <1>8, <1>9, <1>10, <1>11,
    <1>12, <1>13, <1>14, <1>15, <1>16, <1>17, <1>18, <1>19, <1>20 DEF Next,
    Advance, Finished

\* A payout is settled once.
LEMMA SettlementsStaySingle ==
  ASSUME Control, [Next]_vars, NEW x \in Payout \ (overlap' \cup torn'),
         x \notin overlap, x \notin torn, SettledOnce(x)
  PROVE  SettledOnce(x)'
<1> USE DEF Control, TypeOK, RequestsAreSingle, SettledOnce, Settlement, At,
  Goto, Ended, Requesting, Settling, BeforeRow, AfterRow, Deciding, Found,
  rows, redis, money, history
<1>1. ASSUME NEW p \in Session, StartRequest(p) PROVE SettledOnce(x)'
  BY <1>1 DEF StartRequest
<1>2. ASSUME NEW p \in Session, CheckDailyCount(p) PROVE SettledOnce(x)'
  BY <1>2 DEF CheckDailyCount
<1>3. ASSUME NEW p \in Session, CheckDailyAmount(p) PROVE SettledOnce(x)'
  BY <1>3 DEF CheckDailyAmount
<1>4. ASSUME NEW p \in Session, BeginTx(p) PROVE SettledOnce(x)'
  BY <1>4 DEF BeginTx
<1>5. ASSUME NEW p \in Session, CheckBalance(p) PROVE SettledOnce(x)'
  BY <1>5, AbortTakesEffect DEF CheckBalance
<1>6. ASSUME NEW p \in Session, DebitWallet(p) PROVE SettledOnce(x)'
  <2>1. /\ Abort(p) \/ Goto(p, "rq_row")
        /\ At(p, "rq_debit")
        /\ UNCHANGED <<item, verdict, rows, money>>
    BY <1>6, Zenon DEF DebitWallet
  <2>2. QED
    BY <2>1, AbortTakesEffect
<1>7. ASSUME NEW p \in Session, CreateRow(p) PROVE SettledOnce(x)'
  BY <1>7, AbortTakesEffect DEF CreateRow
<1>8. ASSUME NEW p \in Session, CreateFeeAudits(p) PROVE SettledOnce(x)'
  BY <1>8, AbortTakesEffect DEF CreateFeeAudits
<1>9. ASSUME NEW p \in Session, CommitRequest(p) PROVE SettledOnce(x)'
  BY <1>9 DEF CommitRequest
<1>10. ASSUME NEW p \in Session, CountRequest(p) PROVE SettledOnce(x)'
  BY <1>10 DEF CountRequest
<1>11. ASSUME NEW p \in Session, CountAmount(p) PROVE SettledOnce(x)'
  BY <1>11 DEF CountAmount
<1>12. ASSUME NEW p \in Session, StartSettlement(p) PROVE SettledOnce(x)'
  BY <1>12 DEF StartSettlement
<1>13. ASSUME NEW p \in Session, GetWithdrawal(p) PROVE SettledOnce(x)'
  <2>1. CASE Abort(p)
    BY <1>13, <2>1, AbortTakesEffect DEF GetWithdrawal
  <2>2. CASE Goto(p, "st_credit")
    <3>1. /\ pc[p] = "st_get" /\ pc' = [pc EXCEPT ![p] = "st_credit"]
          /\ UNCHANGED <<item, verdict, status, refunded, commission>>
      BY <1>13, <2>2 DEF GetWithdrawal
    <3>2. CASE item[p] = x
      <4>1. status[x] = "pending" /\ (Settlers(p, x) # {} => x \in overlap')
        <5>1. ASSUME Abort(p) PROVE FALSE
          <6>1. pc' = [pc EXCEPT ![p] = "failed"]
            BY <5>1, AbortTakesEffect, Zenon
          <6>2. QED
            BY <3>1, <6>1
        <5>2. QED
          BY <1>13, <3>2, <5>1 DEF GetWithdrawal
      <4>2. \A q \in Session \ {p} : item[q] = x => pc[q] \notin Found
        BY <4>1 DEF Settlers
      <4>3. ~Settlement(x) /\ ~Settlement(x)'
        BY <3>1, <3>2, <4>2
      <4>4. QED
        BY <3>1, <3>2, <4>1, <4>2, <4>3
    <3>3. CASE item[p] # x
      BY <3>1, <3>3
    <3>4. QED
      BY <3>2, <3>3
  <2>3. QED
    BY <1>13, <2>1, <2>2 DEF GetWithdrawal
<1>14. ASSUME NEW p \in Session, CreditSettlement(p) PROVE SettledOnce(x)'
  <2>1. /\ Abort(p) \/ Goto(p, "st_record")
        /\ At(p, "st_credit")
        /\ UNCHANGED <<item, verdict, rows, money>>
    BY <1>14, Zenon DEF CreditSettlement
  <2>2. QED
    BY <2>1, AbortTakesEffect
<1>15. ASSUME NEW p \in Session, RecordSettlement(p) PROVE SettledOnce(x)'
  BY <1>15 DEF RecordSettlement
<1>16. ASSUME NEW p \in Session, WriteStatus(p) PROVE SettledOnce(x)'
  <2>1. /\ pc[p] = "st_status" /\ UNCHANGED <<item, verdict, refunded, commission>>
    BY <1>16 DEF WriteStatus
  <2>2. CASE pc' = [pc EXCEPT ![p] = "st_commit"] /\ status' = [status EXCEPT ![item[p]] = verdict[p]]
    <3>1. CASE item[p] = x
      <4>1. ~Settlement(x) /\ Settlement(x)'
        BY <2>1, <2>2, <3>1
      <4>2. QED
        BY <2>1, <2>2, <3>1, <4>1
    <3>2. CASE item[p] # x
      BY <2>1, <2>2, <3>2
    <3>3. QED
      BY <3>1, <3>2
  <2>3. CASE Abort(p) /\ Tear(p) /\ status' = [status EXCEPT ![item[p]] = verdict[p]]
    <3>1. item[p] # x
      BY <2>3 DEF Tear
    <3>2. QED
      BY <2>1, <2>3, <3>1, AbortTakesEffect
  <2>4. CASE Abort(p) /\ UNCHANGED status
    BY <2>1, <2>4, AbortTakesEffect
  <2>5. QED
    BY <1>16, <2>2, <2>3, <2>4 DEF WriteStatus
<1>17. ASSUME NEW p \in Session, CommitSettlement(p) PROVE SettledOnce(x)'
  <2>1. /\ pc[p] = "st_commit" /\ UNCHANGED <<item, verdict, status>>
    BY <1>17 DEF CommitSettlement
  <2>2. CASE broken[p]
    <3>1. item[p] # x /\ Abort(p) /\ UNCHANGED money
      BY <1>17, <2>2 DEF CommitSettlement, Tear
    <3>2. QED
      BY <2>1, <3>1, AbortTakesEffect
  <2>3. CASE ~broken[p]
    <3>1. PICK l \in {"done", "failed"} : pc' = [pc EXCEPT ![p] = l]
      BY <1>17, <2>3 DEF CommitSettlement
    <3>2. /\ refunded' = Plus(refunded, item[p], lock[Beneficiary(p)] = p /\ verdict[p] = "rejected")
          /\ commission' = Plus(commission, item[p], lock[Beneficiary(p)] = p /\ verdict[p] = "approved")
      BY <1>17, <2>3 DEF CommitSettlement
    <3>3. CASE item[p] = x
      <4>1. Settlement(x) /\ ~Settlement(x)' /\ status[x] = verdict[p]
        BY <2>1, <3>1, <3>3
      <4>2. verdict[p] = "rejected" => lock[Beneficiary(p)] = p
        BY <2>1, PartiesAreKnown DEF MovesAreLocked, Crediting
      <4>3. refunded[x] = 0 /\ commission[x] = 0
        BY <4>1
      <4>4. /\ verdict[p] = "rejected" => refunded'[x] = 1 /\ commission'[x] = 0
            /\ verdict[p] = "approved" => refunded'[x] = 0 /\ commission'[x] \in {0, 1}
        BY <3>2, <3>3, <4>2, <4>3 DEF Plus
      <4>5. QED
        BY <2>1, <3>1, <3>3, <4>1, <4>4
    <3>4. CASE item[p] # x
      BY <2>1, <3>1, <3>2, <3>4 DEF Plus
    <3>5. QED
      BY <3>3, <3>4
  <2>4. QED
    BY <2>2, <2>3
<1>18. ASSUME NEW p \in Session, Stops(p) PROVE SettledOnce(x)'
  BY <1>18, AbortTakesEffect DEF Stops
<1>19. ASSUME NEW w \in Payout, HoldEnds(w) PROVE SettledOnce(x)'
  BY <1>19 DEF HoldEnds
<1>20. CASE UNCHANGED vars
  BY <1>20 DEF vars
<1>21. QED
  BY <1>1, <1>2, <1>3, <1>4, <1>5, <1>6, <1>7, <1>8, <1>9, <1>10, <1>11,
    <1>12, <1>13, <1>14, <1>15, <1>16, <1>17, <1>18, <1>19, <1>20 DEF Next,
    Advance, Finished

-----------------------------------------------------------------------------
(***************************************************************************)
(* The balances.                                                           *)
(***************************************************************************)
DebitsOf(u)   == SumFunctionOnSet(Gross, RequestedBy(u, debited))
RefundsOf(u)  == SumFunctionOnSet(Counted(refunded, Gross, Payout), RequestedBy(u, Payout))
CommissionsOf(u) == IF u = AgencyOwner
                    THEN SumFunctionOnSet(Counted(commission, FeeAgency, Payout), Payout) ELSE 0

\* The ledger, for one user.
Balanced(u) == row[u] # NoWallet =>
                 row[u].bal = Opening[u].bal - DebitsOf(u) + RefundsOf(u) + CommissionsOf(u)

\* The property that the runs check, in these terms.
LEMMA BalancesAreLedgers == BalancesAddUp <=> \A u \in User : Balanced(u)
BY DEF BalancesAddUp, Balanced, DebitsOf, RefundsOf, CommissionsOf, Counted

\* The payouts of a user, and the amounts, have sums.
LEMMA PayoutsAreFinite ==
  ASSUME NEW S \in SUBSET Payout, NEW u
  PROVE  /\ IsFiniteSet(S) /\ RequestedBy(u, S) \in SUBSET Payout /\ IsFiniteSet(RequestedBy(u, S))
         /\ \A w \in Payout : Gross[w] \in Nat /\ FeeAgency[w] \in Nat
         /\ \A w \in S : Gross[w] \in Nat
         /\ SumFunctionOnSet(Gross, RequestedBy(u, S)) \in Nat
<1>1. /\ RequestedBy(u, S) \in SUBSET Payout /\ \A w \in Payout : Gross[w] \in Nat /\ FeeAgency[w] \in Nat
  BY WithdrawalAssumption DEF RequestedBy
<1>2. IsFiniteSet(S) /\ IsFiniteSet(RequestedBy(u, S))
  BY <1>1, WithdrawalAssumption, FS_Subset
<1>3. SumFunctionOnSet(Gross, RequestedBy(u, S)) \in Nat
  BY <1>1, <1>2, SumIsNatural
<1>4. QED
  BY <1>1, <1>2, <1>3

\* Every part of the ledger is a number.
LEMMA LedgersAreNumbers ==
  ASSUME TypeOK, NEW u \in User
  PROVE  /\ DebitsOf(u) \in Nat /\ RefundsOf(u) \in Nat /\ CommissionsOf(u) \in Nat
         /\ row[u] # NoWallet => row[u].bal \in Nat
         /\ Opening[u] # NoWallet => Opening[u].bal \in Nat
<1>1. DebitsOf(u) \in Nat
  BY PayoutsAreFinite DEF DebitsOf, TypeOK
<1>2. RefundsOf(u) \in Nat
  BY PayoutsAreFinite, CountedSum DEF RefundsOf, TypeOK
<1>3. CommissionsOf(u) \in Nat
  BY PayoutsAreFinite, CountedSum DEF CommissionsOf, TypeOK
<1>4. QED
  BY <1>1, <1>2, <1>3, WithdrawalAssumption DEF TypeOK, StoreTypeOK, Wallet

\* A debit that is committed is in the debits of its user, once.
LEMMA OneMoreDebit ==
  ASSUME TypeOK, NEW w \in Payout \ debited, debited' = debited \cup {w}, NEW u \in User
  PROVE  /\ Owner[w] = u => DebitsOf(u)' = DebitsOf(u) + Gross[w]
         /\ Owner[w] # u => DebitsOf(u)' = DebitsOf(u)
<1> DEFINE S == RequestedBy(u, debited)
<1>1. /\ S \in SUBSET Payout /\ IsFiniteSet(S) /\ w \notin S
      /\ SumFunctionOnSet(Gross, S) \in Nat
  <2>1. debited \in SUBSET Payout
    BY DEF TypeOK
  <2>2. w \notin RequestedBy(u, debited)
    BY DEF RequestedBy
  <2>3. QED
    BY <2>1, <2>2, PayoutsAreFinite
<1>2. /\ DebitsOf(u) = SumFunctionOnSet(Gross, S)
      /\ DebitsOf(u)' = SumFunctionOnSet(Gross, RequestedBy(u, debited \cup {w}))
  BY DEF DebitsOf
<1>3. \A y \in Payout : Gross[y] \in Nat
  BY WithdrawalAssumption
<1>4. CASE Owner[w] = u
  <2> DEFINE T == S \cup {w}
  <2>1. RequestedBy(u, debited \cup {w}) = T
    BY <1>4 DEF RequestedBy
  <2> HIDE DEF S, T
  <2>2. Integral(Gross, S \cup {w})
    BY <1>1, <1>3 DEF Integral
  <2>3. SumFunctionOnSet(Gross, T) = Gross[w] + SumFunctionOnSet(Gross, S)
    BY <1>1, <2>2, SumInsert DEF T
  <2>4. Gross[w] \in Nat
    BY <1>3
  <2>5. DebitsOf(u)' = DebitsOf(u) + Gross[w]
    BY <1>1, <1>2, <2>1, <2>3, <2>4
  <2>6. QED
    BY <1>4, <2>5
<1>5. CASE Owner[w] # u
  <2>1. RequestedBy(u, debited \cup {w}) = S
    BY <1>5 DEF RequestedBy
  <2>2. QED
    BY <1>2, <1>5, <2>1
<1>6. QED
  BY <1>4, <1>5

\* So are a refund and a commission.
LEMMA OneMoreRefund ==
  ASSUME TypeOK, TypeOK', NEW w \in Payout, NEW u \in User,
         refunded'[w] = refunded[w] + 1, \A y \in Payout \ {w} : refunded'[y] = refunded[y]
  PROVE  /\ Owner[w] = u => RefundsOf(u)' = RefundsOf(u) + Gross[w]
         /\ Owner[w] # u => RefundsOf(u)' = RefundsOf(u)
<1> DEFINE S == RequestedBy(u, Payout)
<1>1. S \in SUBSET Payout /\ IsFiniteSet(S) /\ (w \in S <=> Owner[w] = u)
  BY PayoutsAreFinite DEF RequestedBy
<1>2. \A y \in Payout : Gross[y] \in Nat
  BY PayoutsAreFinite
<1>3. /\ RefundsOf(u) = SumFunctionOnSet(Counted(refunded, Gross, Payout), S)
      /\ RefundsOf(u)' = SumFunctionOnSet(Counted(refunded', Gross, Payout), S)
  BY DEF RefundsOf, Counted
<1>4. /\ refunded \in [Payout -> Nat] /\ refunded' \in [Payout -> Nat]
  BY DEF TypeOK
<1> HIDE DEF S
<1>5. CASE w \in S
  BY <1>1, <1>2, <1>3, <1>4, <1>5, CountOnce
<1>6. CASE w \notin S
  BY <1>1, <1>2, <1>3, <1>4, <1>6, CountElsewhere
<1>7. QED
  BY <1>5, <1>6

\* A commission goes to the owner of the agency, and to nobody else.
LEMMA OneMoreCommission ==
  ASSUME TypeOK, TypeOK', NEW w \in Payout,
         commission'[w] = commission[w] + 1, \A y \in Payout \ {w} : commission'[y] = commission[y]
  PROVE  /\ CommissionsOf(AgencyOwner)' = CommissionsOf(AgencyOwner) + FeeAgency[w]
         /\ \A u \in User : u # AgencyOwner => CommissionsOf(u)' = CommissionsOf(u)
<1>1. Payout \in SUBSET Payout /\ IsFiniteSet(Payout) /\ \A y \in Payout : FeeAgency[y] \in Nat
  BY PayoutsAreFinite
<1>2. /\ CommissionsOf(AgencyOwner) = SumFunctionOnSet(Counted(commission, FeeAgency, Payout), Payout)
      /\ CommissionsOf(AgencyOwner)' = SumFunctionOnSet(Counted(commission', FeeAgency, Payout), Payout)
      /\ \A u \in User : u # AgencyOwner => CommissionsOf(u)' = 0 /\ CommissionsOf(u) = 0
  BY DEF CommissionsOf, Counted
<1>3. /\ commission \in [Payout -> Nat] /\ commission' \in [Payout -> Nat]
  BY DEF TypeOK
<1>4. SumFunctionOnSet(Counted(commission', FeeAgency, Payout), Payout)
        = SumFunctionOnSet(Counted(commission, FeeAgency, Payout), Payout) + FeeAgency[w]
  BY <1>1, <1>3, CountOnce
<1>5. QED
  BY <1>2, <1>4

\* A step that commits nothing.
LEMMA RowsKeepBalance ==
  ASSUME BalancesAddUp, UNCHANGED <<row, money>>
  PROVE  BalancesAddUp'
BY DEF BalancesAddUp, money

\* The statements that do, for one user.
LEMMA DebitKeepsBalance ==
  ASSUME Control, NEW u \in User, Balanced(u), NEW p \in Session, CommitRequest(p)
  PROVE  Balanced(u)'
<1>1. /\ pc[p] = "rq_commit" /\ debited' = debited \cup {item[p]}
      /\ refunded' = refunded /\ commission' = commission
  BY DEF CommitRequest, At
<1>2. /\ item[p] \in Payout \ debited /\ lock[Client(p)] = p /\ Client(p) = Owner[item[p]]
      /\ Client(p) \in User /\ Gross[item[p]] \in Nat /\ pc[p] \notin Crediting
  BY <1>1, PartiesAreKnown DEF Control, RequestsAreSingle, BeforeCommit, MovesAreLocked, Debiting, Crediting
<1>3. /\ lock[u] = p => row'[u] = ver[u]
      /\ lock[u] # p => row'[u] = row[u]
  BY CommitTakesEffect DEF CommitRequest, Control, TypeOK
<1>4. RefundsOf(u)' = RefundsOf(u) /\ CommissionsOf(u)' = CommissionsOf(u)
  BY <1>1 DEF RefundsOf, CommissionsOf
<1>5. /\ Owner[item[p]] = u => DebitsOf(u)' = DebitsOf(u) + Gross[item[p]]
      /\ Owner[item[p]] # u => DebitsOf(u)' = DebitsOf(u)
  BY <1>1, <1>2, OneMoreDebit DEF Control
<1>6. /\ DebitsOf(u) \in Nat /\ RefundsOf(u) \in Nat /\ CommissionsOf(u) \in Nat
      /\ row[u] # NoWallet => row[u].bal \in Nat
      /\ Opening[u] # NoWallet => Opening[u].bal \in Nat
      /\ (row[u] = NoWallet) <=> (Opening[u] = NoWallet)
  BY LedgersAreNumbers DEF Control, LocksAreMoves
<1>7. CASE u = Client(p)
  <2>1. row[u] # NoWallet /\ ver[u].bal = row[u].bal - Gross[item[p]]
    BY <1>2, <1>7 DEF Control, LocksAreMoves
  <2>2. row[u].bal = Opening[u].bal - DebitsOf(u) + RefundsOf(u) + CommissionsOf(u)
    BY <2>1 DEF Balanced
  <2>3. row'[u].bal = Opening[u].bal - DebitsOf(u)' + RefundsOf(u)' + CommissionsOf(u)'
    BY <1>2, <1>3, <1>4, <1>5, <1>6, <1>7, <2>1, <2>2
  <2>4. QED
    BY <2>3 DEF Balanced
<1>8. CASE u # Client(p)
  <2>1. lock[u] # p
    BY <1>2, <1>8 DEF Control, LocksAreMoves
  <2>2. QED
    BY <1>2, <1>3, <1>4, <1>5, <1>8, <2>1 DEF Balanced
<1>9. QED
  BY <1>7, <1>8

\* The COMMIT of a settlement, with a refund, a commission or neither.
LEMMA SettlementKeepsBalance ==
  ASSUME Control, TypeOK', NEW u \in User, Balanced(u),
         NEW p \in Session, CommitSettlement(p), ~broken[p]
  PROVE  Balanced(u)'
<1> DEFINE b == Beneficiary(p)
           paid == lock[b] = p
<1>1. /\ pc[p] = "st_commit" /\ debited' = debited
      /\ refunded' = Plus(refunded, item[p], paid /\ verdict[p] = "rejected")
      /\ commission' = Plus(commission, item[p], paid /\ verdict[p] = "approved")
  BY DEF CommitSettlement, At
<1>2. /\ item[p] \in Payout /\ b \in User /\ Due(p) \in Nat /\ pc[p] \notin Debiting
      /\ verdict[p] \in {"approved", "rejected"}
  BY <1>1, PartiesAreKnown DEF Control, TypeOK, Debiting
<1>3. /\ lock[u] = p => row'[u] = ver[u]
      /\ lock[u] # p => row'[u] = row[u]
  BY CommitTakesEffect DEF CommitSettlement, Control, TypeOK
<1>4. DebitsOf(u)' = DebitsOf(u)
  BY <1>1 DEF DebitsOf
<1>5. /\ DebitsOf(u) \in Nat /\ RefundsOf(u) \in Nat /\ CommissionsOf(u) \in Nat
      /\ row[u] # NoWallet => row[u].bal \in Nat
      /\ Opening[u] # NoWallet => Opening[u].bal \in Nat
      /\ (row[u] = NoWallet) <=> (Opening[u] = NoWallet)
  BY LedgersAreNumbers DEF Control, LocksAreMoves
<1>6. lock[u] = p => u = b /\ paid /\ row[u] # NoWallet /\ ver[u].bal = row[u].bal + Due(p)
  BY <1>2 DEF Control, LocksAreMoves
<1>7. CASE ~paid
  <2>1. refunded' = refunded /\ commission' = commission
    BY <1>1, <1>7 DEF Plus
  <2>2. RefundsOf(u)' = RefundsOf(u) /\ CommissionsOf(u)' = CommissionsOf(u)
    BY <2>1 DEF RefundsOf, CommissionsOf
  <2>3. QED
    BY <1>3, <1>4, <1>6, <1>7, <2>2 DEF Balanced
<1>8. CASE paid
  <2>1. /\ u = b => RefundsOf(u)' + CommissionsOf(u)' = RefundsOf(u) + CommissionsOf(u) + Due(p)
        /\ u # b => RefundsOf(u)' = RefundsOf(u) /\ CommissionsOf(u)' = CommissionsOf(u)
        /\ RefundsOf(u)' \in Nat /\ CommissionsOf(u)' \in Nat
    <3>1. CASE verdict[p] = "rejected"
      <4>1. /\ refunded'[item[p]] = refunded[item[p]] + 1 /\ commission' = commission
            /\ \A y \in Payout \ {item[p]} : refunded'[y] = refunded[y]
        BY <1>1, <1>2, <1>8, <3>1 DEF Plus, Control, TypeOK
      <4>2. CommissionsOf(u)' = CommissionsOf(u)
        BY <4>1 DEF CommissionsOf
      <4>3. b = Owner[item[p]] /\ Due(p) = Gross[item[p]]
        BY <3>1 DEF Beneficiary, Client, Due
      <4>4. /\ Owner[item[p]] = u => RefundsOf(u)' = RefundsOf(u) + Gross[item[p]]
            /\ Owner[item[p]] # u => RefundsOf(u)' = RefundsOf(u)
        BY <1>2, <4>1, OneMoreRefund DEF Control
      <4>5. QED
        BY <1>2, <1>5, <4>2, <4>3, <4>4
    <3>2. CASE verdict[p] = "approved"
      <4>1. /\ commission'[item[p]] = commission[item[p]] + 1 /\ refunded' = refunded
            /\ \A y \in Payout \ {item[p]} : commission'[y] = commission[y]
        BY <1>1, <1>2, <1>8, <3>2 DEF Plus, Control, TypeOK
      <4>2. RefundsOf(u)' = RefundsOf(u)
        BY <4>1 DEF RefundsOf
      <4>3. b = AgencyOwner /\ Due(p) = FeeAgency[item[p]]
        BY <3>2 DEF Beneficiary, Due
      <4>4. /\ CommissionsOf(AgencyOwner)' = CommissionsOf(AgencyOwner) + FeeAgency[item[p]]
            /\ u # AgencyOwner => CommissionsOf(u)' = CommissionsOf(u)
        BY <1>2, <4>1, OneMoreCommission DEF Control
      <4>5. QED
        BY <1>2, <1>5, <4>2, <4>3, <4>4
    <3>3. QED
      BY <1>2, <3>1, <3>2
  <2>2. CASE u = b
    <3>1. row[u] # NoWallet /\ row'[u] = ver[u] /\ ver[u].bal = row[u].bal + Due(p)
      BY <1>3, <1>6, <1>8, <2>2
    <3>2. row[u].bal = Opening[u].bal - DebitsOf(u) + RefundsOf(u) + CommissionsOf(u)
      BY <3>1 DEF Balanced
    <3>3. RefundsOf(u)' + CommissionsOf(u)' = RefundsOf(u) + CommissionsOf(u) + Due(p)
      BY <2>1, <2>2
    <3>4. Opening[u].bal \in Nat
      BY <1>5, <3>1
    <3> HIDE DEF b, paid
    <3>5. row'[u].bal = Opening[u].bal - DebitsOf(u)' + RefundsOf(u)' + CommissionsOf(u)'
      <4>1. row'[u].bal = row[u].bal + Due(p)
        BY <3>1
      <4>2. QED
        BY <1>2, <1>4, <1>5, <2>1, <3>2, <3>3, <3>4, <4>1
    <3>6. QED
      BY <3>5 DEF Balanced
  <2>3. CASE u # b
    <3>1. lock[u] # p
      BY <1>6, <2>3
    <3>2. QED
      BY <1>3, <1>4, <2>1, <2>3, <3>1 DEF Balanced
  <2>4. QED
    BY <2>2, <2>3
<1>9. QED
  BY <1>7, <1>8

\* The balances go on adding up.
LEMMA BalancesStayTrue ==
  ASSUME Control, TypeOK', BalancesAddUp, [Next]_vars
  PROVE  BalancesAddUp'
<1> USE DEF Control, TypeOK
<1>1. ASSUME NEW p \in Session, StartRequest(p) PROVE BalancesAddUp'
  BY <1>1, UnchangedStore, RowsKeepBalance DEF StartRequest
<1>2. ASSUME NEW p \in Session, CheckDailyCount(p) PROVE BalancesAddUp'
  BY <1>2, UnchangedStore, RowsKeepBalance DEF CheckDailyCount
<1>3. ASSUME NEW p \in Session, CheckDailyAmount(p) PROVE BalancesAddUp'
  BY <1>3, UnchangedStore, RowsKeepBalance DEF CheckDailyAmount
<1>4. ASSUME NEW p \in Session, BeginTx(p) PROVE BalancesAddUp'
  BY <1>4, UnchangedStore, RowsKeepBalance DEF BeginTx
<1>5. ASSUME NEW p \in Session, CheckBalance(p) PROVE BalancesAddUp'
  BY <1>5, AbortTakesEffect, UnchangedStore, RowsKeepBalance DEF
    CheckBalance
<1>6. ASSUME NEW p \in Session, DebitWallet(p) PROVE BalancesAddUp'
  <2>1. UNCHANGED row
    BY <1>6, AbortTakesEffect, DebitOfRequest DEF DebitWallet, Debits, Client
  <2>2. QED
    BY <1>6, <2>1, RowsKeepBalance DEF DebitWallet
<1>7. ASSUME NEW p \in Session, CreateRow(p) PROVE BalancesAddUp'
  BY <1>7, AbortTakesEffect, UnchangedStore, RowsKeepBalance DEF CreateRow
<1>8. ASSUME NEW p \in Session, CreateFeeAudits(p) PROVE BalancesAddUp'
  BY <1>8, AbortTakesEffect, UnchangedStore, RowsKeepBalance DEF
    CreateFeeAudits
<1>9. ASSUME NEW p \in Session, CommitRequest(p) PROVE BalancesAddUp'
  <2>1. \A u \in User : Balanced(u)
    BY BalancesAreLedgers
  <2>2. \A u \in User : Balanced(u)'
    BY <1>9, <2>1, DebitKeepsBalance
  <2>3. QED
    BY <2>2 DEF BalancesAddUp, Balanced, DebitsOf, RefundsOf, CommissionsOf, Counted
<1>10. ASSUME NEW p \in Session, CountRequest(p) PROVE BalancesAddUp'
  BY <1>10, UnchangedStore, RowsKeepBalance DEF CountRequest
<1>11. ASSUME NEW p \in Session, CountAmount(p) PROVE BalancesAddUp'
  BY <1>11, UnchangedStore, RowsKeepBalance DEF CountAmount
<1>12. ASSUME NEW p \in Session, StartSettlement(p) PROVE BalancesAddUp'
  BY <1>12, UnchangedStore, RowsKeepBalance DEF StartSettlement
<1>13. ASSUME NEW p \in Session, GetWithdrawal(p) PROVE BalancesAddUp'
  BY <1>13, AbortTakesEffect, UnchangedStore, RowsKeepBalance DEF
    GetWithdrawal
<1>14. ASSUME NEW p \in Session, CreditSettlement(p) PROVE BalancesAddUp'
  <2>1. UNCHANGED row
    BY <1>14, AbortTakesEffect, CreditOfSettlement, UnchangedStore DEF CreditSettlement, Credits
  <2>2. QED
    BY <1>14, <2>1, RowsKeepBalance DEF CreditSettlement
<1>15. ASSUME NEW p \in Session, RecordSettlement(p) PROVE BalancesAddUp'
  BY <1>15, UnchangedStore, RowsKeepBalance DEF RecordSettlement
<1>16. ASSUME NEW p \in Session, WriteStatus(p) PROVE BalancesAddUp'
  BY <1>16, AbortTakesEffect, UnchangedStore, RowsKeepBalance DEF
    WriteStatus
<1>17. ASSUME NEW p \in Session, CommitSettlement(p) PROVE BalancesAddUp'
  <2>1. CASE broken[p]
    BY <1>17, <2>1, AbortTakesEffect, RowsKeepBalance DEF CommitSettlement
  <2>2. CASE ~broken[p]
    <3>1. \A u \in User : Balanced(u)
      BY BalancesAreLedgers
    <3>2. \A u \in User : Balanced(u)'
      BY <1>17, <2>2, <3>1, SettlementKeepsBalance
    <3>3. QED
      BY <3>2 DEF BalancesAddUp, Balanced, DebitsOf, RefundsOf, CommissionsOf, Counted
  <2>3. QED
    BY <2>1, <2>2
<1>18. ASSUME NEW p \in Session, Stops(p) PROVE BalancesAddUp'
  BY <1>18, AbortTakesEffect, UnchangedStore, RowsKeepBalance DEF Stops
<1>19. ASSUME NEW w \in Payout, HoldEnds(w) PROVE BalancesAddUp'
  BY <1>19, UnchangedStore, RowsKeepBalance DEF HoldEnds
<1>20. CASE UNCHANGED vars
  BY <1>20, RowsKeepBalance DEF vars, storeVars
<1>21. QED
  BY <1>1, <1>2, <1>3, <1>4, <1>5, <1>6, <1>7, <1>8, <1>9, <1>10, <1>11,
    <1>12, <1>13, <1>14, <1>15, <1>16, <1>17, <1>18, <1>19, <1>20 DEF Next,
    Advance, Finished

-----------------------------------------------------------------------------
(***************************************************************************)
(* The daily limits.                                                       *)
(***************************************************************************)
AcceptedBy(u) == Cardinality(RequestedBy(u, debited))

\* A request that has passed the first limit, or both, and is not counted.
UnderCount  == {"rq_amount", "rq_begin", "rq_balance", "rq_debit", "rq_row", "rq_audits",
                "rq_commit", "rq_incr"}
UnderAmount == (UnderCount \ {"rq_amount"}) \cup {"rq_incrby"}

\* The counters of a user who is not in uncounted are behind what was debited
\* by her one request at most, which has passed the limits.
LimitsHold(u) ==
  /\ \A p, q \in Session :
       Client(p) = u /\ Client(q) = u /\ pc[p] \in Requesting /\ pc[q] \in Requesting => p = q
  /\ AcceptedBy(u) <= MaxPerDay /\ DebitsOf(u) <= MaxDailyAmount
  /\ (\A p \in Session : Client(p) = u => pc[p] # "rq_incr") => count[u] = AcceptedBy(u)
  /\ (\A p \in Session : Client(p) = u => pc[p] \notin {"rq_incr", "rq_incrby"})
       => amount[u] = DebitsOf(u)
  /\ \A p \in Session : Client(p) = u =>
       /\ pc[p] = "rq_incr" => count[u] + 1 = AcceptedBy(u)
       /\ pc[p] \in {"rq_incr", "rq_incrby"} => amount[u] + Gross[item[p]] = DebitsOf(u)
       /\ pc[p] \in UnderCount => count[u] < MaxPerDay
       /\ pc[p] \in UnderAmount => amount[u] + Gross[item[p]] <= MaxDailyAmount

\* The counters and what they count are numbers.
LEMMA CountersAreNumbers ==
  ASSUME TypeOK, NEW u \in User
  PROVE  /\ AcceptedBy(u) \in Nat /\ DebitsOf(u) \in Nat /\ count[u] \in Nat /\ amount[u] \in Nat
         /\ \A p \in Session : Gross[item[p]] \in Nat /\ Client(p) \in User
         /\ {MaxPerDay, MaxDailyAmount} \subseteq Nat
<1>1. IsFiniteSet(RequestedBy(u, debited))
  BY PayoutsAreFinite DEF TypeOK
<1>2. AcceptedBy(u) \in Nat
  BY <1>1, FS_CardinalityType DEF AcceptedBy
<1>3. QED
  BY <1>2, LedgersAreNumbers, PartiesAreKnown, WithdrawalAssumption DEF TypeOK

\* A step that commits no debit leaves both sums.
LEMMA SameDebits ==
  ASSUME UNCHANGED <<debited, item>>, NEW u
  PROVE  /\ AcceptedBy(u)' = AcceptedBy(u) /\ DebitsOf(u)' = DebitsOf(u)
         /\ \A p \in Session : Client(p)' = Client(p)
BY DEF AcceptedBy, DebitsOf, Client

\* One more request of the user has been debited.
LEMMA OneMoreAccepted ==
  ASSUME TypeOK, NEW w \in Payout \ debited, debited' = debited \cup {w}, NEW u \in User
  PROVE  /\ Owner[w] = u => AcceptedBy(u)' = AcceptedBy(u) + 1
         /\ Owner[w] # u => AcceptedBy(u)' = AcceptedBy(u)
<1> DEFINE S == RequestedBy(u, debited)
           T == S \cup {w}
<1>1. w \notin S /\ AcceptedBy(u)' = Cardinality(RequestedBy(u, debited \cup {w}))
  BY DEF RequestedBy, AcceptedBy
<1>2. IsFiniteSet(S)
  BY PayoutsAreFinite DEF TypeOK
<1>3. Owner[w] = u => RequestedBy(u, debited \cup {w}) = T
  BY DEF RequestedBy
<1>4. Owner[w] # u => RequestedBy(u, debited \cup {w}) = S
  BY DEF RequestedBy
<1>5. Cardinality(T) = Cardinality(S) + 1
  BY <1>1, <1>2, FS_AddElement
<1> HIDE DEF T
<1>6. QED
  BY <1>1, <1>3, <1>4, <1>5 DEF AcceptedBy

\* A step of a request that the limits see keeps within them.
LEMMA LimitsStay ==
  ASSUME Control, [Next]_vars, NEW u \in User \ uncounted', u \notin uncounted, LimitsHold(u)
  PROVE  LimitsHold(u)'
<1> USE DEF Control, TypeOK, LimitsHold, RequestsAreSingle, BeforeCommit,
  BeforeRow, At, Goto, Ended, Requesting, Settling, UnderCount, UnderAmount,
  rows, redis, money
<1>1. ASSUME NEW p \in Session, StartRequest(p) PROVE LimitsHold(u)'
  <2>1. /\ pc[p] = "idle" /\ UNCHANGED <<item, debited, count, amount>>
        /\ \/ pc' = [pc EXCEPT ![p] = "rq_count"]
           \/ pc' = [pc EXCEPT ![p] = "failed"]
    BY <1>1 DEF StartRequest
  <2>2. Client(p) = u => \A q \in Session \ {p} : Client(q) = u => pc[q] \notin Requesting
    BY <1>1 DEF StartRequest, Uncounted
  <2>3. QED
    BY <2>1, <2>2, CountersAreNumbers, SameDebits
<1>2. ASSUME NEW p \in Session, CheckDailyCount(p) PROVE LimitsHold(u)'
  BY <1>2, CountersAreNumbers, SameDebits DEF CheckDailyCount
<1>3. ASSUME NEW p \in Session, CheckDailyAmount(p) PROVE LimitsHold(u)'
  BY <1>3, CountersAreNumbers, SameDebits DEF CheckDailyAmount
<1>4. ASSUME NEW p \in Session, BeginTx(p) PROVE LimitsHold(u)'
  BY <1>4, CountersAreNumbers, SameDebits DEF BeginTx
<1>5. ASSUME NEW p \in Session, CheckBalance(p) PROVE LimitsHold(u)'
  BY <1>5, AbortTakesEffect, CountersAreNumbers, SameDebits DEF CheckBalance
<1>6. ASSUME NEW p \in Session, DebitWallet(p) PROVE LimitsHold(u)'
  <2>1. /\ Abort(p) \/ Goto(p, "rq_row")
        /\ At(p, "rq_debit")
        /\ UNCHANGED <<item, redis, money>>
    BY <1>6, Zenon DEF DebitWallet
  <2>2. QED
    BY <2>1, AbortTakesEffect, CountersAreNumbers, SameDebits
<1>7. ASSUME NEW p \in Session, CreateRow(p) PROVE LimitsHold(u)'
  BY <1>7, AbortTakesEffect, CountersAreNumbers, SameDebits DEF CreateRow
<1>8. ASSUME NEW p \in Session, CreateFeeAudits(p) PROVE LimitsHold(u)'
  BY <1>8, AbortTakesEffect, CountersAreNumbers, SameDebits DEF
    CreateFeeAudits
<1>9. ASSUME NEW p \in Session, CommitRequest(p) PROVE LimitsHold(u)'
  <2>1. /\ pc[p] = "rq_commit" /\ item[p] \in Payout \ debited
        /\ debited' = debited \cup {item[p]} /\ UNCHANGED <<item, count, amount>>
        /\ \/ pc' = [pc EXCEPT ![p] = "rq_incr"]
           \/ pc' = [pc EXCEPT ![p] = "failed"] /\ Client(p) # u
    BY <1>9 DEF CommitRequest
  <2>2. /\ Owner[item[p]] = Client(p)
        /\ \A q \in Session : Client(q)' = Client(q)
    BY <2>1 DEF Client
  <2>3. /\ Client(p) = u => AcceptedBy(u)' = AcceptedBy(u) + 1
                              /\ DebitsOf(u)' = DebitsOf(u) + Gross[item[p]]
        /\ Client(p) # u => AcceptedBy(u)' = AcceptedBy(u) /\ DebitsOf(u)' = DebitsOf(u)
    BY <2>1, <2>2, OneMoreAccepted, OneMoreDebit
  <2>4. CASE Client(p) = u
    <3>1. /\ pc' = [pc EXCEPT ![p] = "rq_incr"]
          /\ \A q \in Session \ {p} : Client(q) = u => pc[q] \notin Requesting
      BY <2>1, <2>4
    <3>2. /\ count[u] = AcceptedBy(u) /\ amount[u] = DebitsOf(u)
          /\ count[u] < MaxPerDay /\ amount[u] + Gross[item[p]] <= MaxDailyAmount
      BY <2>1, <2>4, <3>1
    <3>3. QED
      BY <2>1, <2>2, <2>3, <2>4, <3>1, <3>2, CountersAreNumbers
  <2>5. CASE Client(p) # u
    BY <2>1, <2>2, <2>3, <2>5, CountersAreNumbers
  <2>6. QED
    BY <2>4, <2>5
<1>10. ASSUME NEW p \in Session, CountRequest(p) PROVE LimitsHold(u)'
  BY <1>10, CountersAreNumbers, SameDebits DEF CountRequest
<1>11. ASSUME NEW p \in Session, CountAmount(p) PROVE LimitsHold(u)'
  BY <1>11, CountersAreNumbers, SameDebits DEF CountAmount
<1>12. ASSUME NEW p \in Session, StartSettlement(p) PROVE LimitsHold(u)'
  BY <1>12, CountersAreNumbers, SameDebits DEF StartSettlement
<1>13. ASSUME NEW p \in Session, GetWithdrawal(p) PROVE LimitsHold(u)'
  BY <1>13, AbortTakesEffect, CountersAreNumbers, SameDebits DEF
    GetWithdrawal
<1>14. ASSUME NEW p \in Session, CreditSettlement(p) PROVE LimitsHold(u)'
  <2>1. /\ Abort(p) \/ Goto(p, "st_record")
        /\ At(p, "st_credit")
        /\ UNCHANGED <<item, redis, money>>
    BY <1>14, Zenon DEF CreditSettlement
  <2>2. QED
    BY <2>1, AbortTakesEffect, CountersAreNumbers, SameDebits
<1>15. ASSUME NEW p \in Session, RecordSettlement(p) PROVE LimitsHold(u)'
  BY <1>15, CountersAreNumbers, SameDebits DEF RecordSettlement
<1>16. ASSUME NEW p \in Session, WriteStatus(p) PROVE LimitsHold(u)'
  BY <1>16, AbortTakesEffect, CountersAreNumbers, SameDebits DEF WriteStatus
<1>17. ASSUME NEW p \in Session, CommitSettlement(p) PROVE LimitsHold(u)'
  BY <1>17, AbortTakesEffect, CountersAreNumbers, SameDebits DEF
    CommitSettlement
<1>18. ASSUME NEW p \in Session, Stops(p) PROVE LimitsHold(u)'
  BY <1>18, AbortTakesEffect, CountersAreNumbers, SameDebits DEF Stops
<1>19. ASSUME NEW w \in Payout, HoldEnds(w) PROVE LimitsHold(u)'
  BY <1>19, CountersAreNumbers, SameDebits DEF HoldEnds
<1>20. CASE UNCHANGED vars
  BY <1>20, SameDebits DEF vars
<1>21. QED
  BY <1>1, <1>2, <1>3, <1>4, <1>5, <1>6, <1>7, <1>8, <1>9, <1>10, <1>11,
    <1>12, <1>13, <1>14, <1>15, <1>16, <1>17, <1>18, <1>19, <1>20 DEF Next,
    Advance, Finished

\* What is on record as overlapped, torn or uncounted stays on record.
NothingForgotten == overlap \subseteq overlap' /\ torn \subseteq torn' /\ uncounted \subseteq uncounted'

\* No step forgets any of it.
LEMMA HistoryGrows ==
  ASSUME [Next]_vars
  PROVE  NothingForgotten
<1> USE DEF NothingForgotten, history, rows, redis, money
<1>1. ASSUME NEW p \in Session, StartRequest(p) PROVE NothingForgotten
  BY <1>1 DEF StartRequest, Tear
<1>2. ASSUME NEW p \in Session, CheckDailyCount(p) PROVE NothingForgotten
  BY <1>2 DEF CheckDailyCount, Tear
<1>3. ASSUME NEW p \in Session, CheckDailyAmount(p) PROVE NothingForgotten
  BY <1>3 DEF CheckDailyAmount, Tear
<1>4. ASSUME NEW p \in Session, BeginTx(p) PROVE NothingForgotten
  BY <1>4 DEF BeginTx, Tear
<1>5. ASSUME NEW p \in Session, CheckBalance(p) PROVE NothingForgotten
  BY <1>5 DEF CheckBalance, Tear
<1>6. ASSUME NEW p \in Session, DebitWallet(p) PROVE NothingForgotten
  <2>1. UNCHANGED history
    BY <1>6, Zenon DEF DebitWallet
  <2>2. QED
    BY <2>1
<1>7. ASSUME NEW p \in Session, CreateRow(p) PROVE NothingForgotten
  BY <1>7 DEF CreateRow, Tear
<1>8. ASSUME NEW p \in Session, CreateFeeAudits(p) PROVE NothingForgotten
  BY <1>8 DEF CreateFeeAudits, Tear
<1>9. ASSUME NEW p \in Session, CommitRequest(p) PROVE NothingForgotten
  BY <1>9 DEF CommitRequest, Tear
<1>10. ASSUME NEW p \in Session, CountRequest(p) PROVE NothingForgotten
  BY <1>10 DEF CountRequest, Tear
<1>11. ASSUME NEW p \in Session, CountAmount(p) PROVE NothingForgotten
  BY <1>11 DEF CountAmount, Tear
<1>12. ASSUME NEW p \in Session, StartSettlement(p) PROVE NothingForgotten
  BY <1>12 DEF StartSettlement, Tear
<1>13. ASSUME NEW p \in Session, GetWithdrawal(p) PROVE NothingForgotten
  BY <1>13 DEF GetWithdrawal, Tear
<1>14. ASSUME NEW p \in Session, CreditSettlement(p) PROVE NothingForgotten
  <2>1. UNCHANGED history
    BY <1>14, Zenon DEF CreditSettlement
  <2>2. QED
    BY <2>1
<1>15. ASSUME NEW p \in Session, RecordSettlement(p) PROVE NothingForgotten
  BY <1>15 DEF RecordSettlement, Tear
<1>16. ASSUME NEW p \in Session, WriteStatus(p) PROVE NothingForgotten
  BY <1>16 DEF WriteStatus, Tear
<1>17. ASSUME NEW p \in Session, CommitSettlement(p) PROVE NothingForgotten
  BY <1>17 DEF CommitSettlement, Tear
<1>18. ASSUME NEW p \in Session, Stops(p) PROVE NothingForgotten
  BY <1>18 DEF Stops, Tear
<1>19. ASSUME NEW w \in Payout, HoldEnds(w) PROVE NothingForgotten
  BY <1>19 DEF HoldEnds, Tear
<1>20. CASE UNCHANGED vars
  BY <1>20 DEF vars
<1>21. QED
  BY <1>1, <1>2, <1>3, <1>4, <1>5, <1>6, <1>7, <1>8, <1>9, <1>10, <1>11,
    <1>12, <1>13, <1>14, <1>15, <1>16, <1>17, <1>18, <1>19, <1>20 DEF Next,
    Advance, Finished

-----------------------------------------------------------------------------
(***************************************************************************)
(* The theorems.                                                           *)
(***************************************************************************)
\* What the requests are doing, where the locks are and what they cover.
LEMMA ControlHolds == Spec => []Control
<1>1. Init => Control
  <2> SUFFICES ASSUME Init PROVE Control
    OBVIOUS
  <2>1. TypeOK
    BY WithdrawalAssumption DEF Init, StoreInit, TypeOK, StoreTypeOK, Ended
  <2>2. LocksAreMoves /\ MovesAreLocked
    BY WithdrawalAssumption, StoreAssumption DEF Init, StoreInit, LocksAreMoves, MovesAreLocked,
                                                 Debiting, Crediting
  <2>3. RequestsAreSingle /\ DebitHasRow
    BY DEF Init, RequestsAreSingle, DebitHasRow, BeforeRow, AfterRow, BeforeCommit, Requesting, Settling
  <2>4. QED
    BY <2>1, <2>2, <2>3 DEF Control
<1>2. Control /\ [Next]_vars => Control'
  BY TypesStayCorrect, LocksStayMoves, RequestsStaySingle DEF Control
<1>3. QED
  BY <1>1, <1>2, PTL DEF Spec

\* Wallets and withdrawals tell the same story: every balance is what the
\* committed debits, refunds and commissions make of it, no debit is without
\* a row, and status and money agree on every withdrawal that no two
\* settlements found pending at once and whose status no transaction tore off.
THEOREM WithdrawalBooksHold == Spec => []BooksHold
<1>1. Init => Settled /\ BalancesAddUp
  <2> SUFFICES ASSUME Init PROVE Settled /\ BalancesAddUp
    OBVIOUS
  <2>1. Settled
    BY DEF Init, Settled, SettledOnce, Settlement, At, Deciding, Found
  <2>2. ASSUME NEW u \in User, row[u] # NoWallet PROVE Balanced(u)
    <3>1. /\ IsFiniteSet(RequestedBy(u, Payout)) /\ IsFiniteSet(Payout)
          /\ RequestedBy(u, Payout) \subseteq Payout /\ RequestedBy(u, {}) = {}
          /\ \A w \in Payout : Gross[w] \in Nat /\ FeeAgency[w] \in Nat
      BY PayoutsAreFinite, WithdrawalAssumption DEF RequestedBy
    <3>2. debited = {} /\ refunded = [w \in Payout |-> 0] /\ commission = [w \in Payout |-> 0]
      BY DEF Init
    <3>3. DebitsOf(u) = 0
      BY <3>1, <3>2, EmptySum DEF DebitsOf
    <3>4. RefundsOf(u) = 0
      BY <3>1, <3>2, CountNone DEF RefundsOf
    <3>5. CommissionsOf(u) = 0
      BY <3>1, <3>2, CountNone DEF CommissionsOf
    <3>6. row[u].bal = Opening[u].bal /\ Opening[u].bal \in Nat
      BY <2>2, WithdrawalAssumption DEF Init, StoreInit, Wallet
    <3>7. QED
      BY <3>3, <3>4, <3>5, <3>6 DEF Balanced
  <2>3. BalancesAddUp
    BY <2>2, BalancesAreLedgers DEF Balanced
  <2>4. QED
    BY <2>1, <2>3
<1>2. Control /\ Settled /\ [Next]_vars => Settled'
  <2> SUFFICES ASSUME Control, Settled, [Next]_vars,
                      NEW w \in Payout, w \notin overlap', w \notin torn'
               PROVE  SettledOnce(w)'
    BY DEF Settled
  <2>1. w \notin overlap /\ w \notin torn
    BY HistoryGrows DEF NothingForgotten
  <2>2. QED
    BY <2>1, SettlementsStaySingle DEF Settled
<1>3. Control /\ Control' /\ BalancesAddUp /\ [Next]_vars => BalancesAddUp'
  BY BalancesStayTrue DEF Control
<1>4. Control /\ Settled /\ BalancesAddUp => BooksHold
  BY DEF Control, Settled, SettledOnce, BooksHold, StatusMatchesMoney
<1>5. QED
  BY <1>1, <1>2, <1>3, <1>4, ControlHolds, PTL DEF Spec

\* The daily limits bound what a user has been debited in a day, and the
\* number of her requests, as long as her requests do not overlap, keep their
\* counters and read them.
THEOREM LimitsBoundTheDay == Spec => []DailyLimits
<1> DEFINE Limited == \A u \in User \ uncounted : LimitsHold(u)
<1>1. Init => Limited
  <2> SUFFICES ASSUME Init, NEW u \in User PROVE LimitsHold(u)
    OBVIOUS
  <2>1. /\ debited = {} /\ count[u] = 0 /\ amount[u] = 0
        /\ \A p \in Session : pc[p] = "idle"
    BY DEF Init
  <2>2. RequestedBy(u, debited) = {}
    BY <2>1 DEF RequestedBy
  <2>3. AcceptedBy(u) = 0 /\ DebitsOf(u) = 0
    BY <2>2, EmptySum, FS_EmptySet DEF AcceptedBy, DebitsOf
  <2>4. QED
    <3>1. 0 <= MaxPerDay /\ 0 <= MaxDailyAmount
      BY WithdrawalAssumption
    <3>2. "idle" \notin Requesting \cup UnderCount \cup UnderAmount
      BY DEF Requesting, UnderCount, UnderAmount
    <3>3. \A p \in Session : /\ pc[p] \notin Requesting /\ pc[p] \notin UnderCount /\ pc[p] \notin UnderAmount
                            /\ pc[p] # "rq_incr" /\ pc[p] # "rq_incrby"
      BY <2>1, <3>2
    <3>4. /\ AcceptedBy(u) <= MaxPerDay /\ DebitsOf(u) <= MaxDailyAmount
          /\ count[u] = AcceptedBy(u) /\ amount[u] = DebitsOf(u)
      BY <2>1, <2>3, <3>1
    <3>5. QED
      BY <3>3, <3>4, Zenon DEF LimitsHold
<1>2. Control /\ Limited /\ [Next]_vars => Limited'
  <2> SUFFICES ASSUME Control, Limited, [Next]_vars, NEW u \in User, u \notin uncounted'
               PROVE  LimitsHold(u)'
    OBVIOUS
  <2>1. u \notin uncounted
    BY HistoryGrows DEF NothingForgotten
  <2>2. LimitsHold(u)
    BY <2>1
  <2>3. QED
    BY <2>1, <2>2, LimitsStay
<1>3. Limited => DailyLimits
  BY DEF LimitsHold, DailyLimits, AcceptedBy, DebitsOf
<1> HIDE DEF Limited
<1>4. QED
  BY <1>1, <1>2, <1>3, ControlHolds, PTL DEF Spec
=============================================================================
