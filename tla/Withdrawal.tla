----------------------------- MODULE Withdrawal -----------------------------
(***************************************************************************)
(* internal/usecase/withdrawal_usecase.go: a creator asks for a            *)
(* withdrawal, an administrator (or the request itself, for small amounts) *)
(* approves or rejects it.                                                 *)
(*                                                                         *)
(* The wallet statements run in the RunInTx transaction, but the           *)
(* withdrawals repository always uses the pool: its rows are committed at  *)
(* once, on a second connection, and do not roll back with the debit or    *)
(* the refund around them.                                                 *)
(***************************************************************************)
EXTENDS WalletStore, Functions

CONSTANTS Payout,       \* the withdrawals (ids are made fresh)
          Owner,        \* who asks for a payout
          Gross,        \* AmountRequested
          FeeAgency,    \* the fee of the creator's agency, zero without one
          AgencyOwner,  \* the user who gets that fee
          Small,        \* payouts approved at once: a small amount of an old account
          MinAmount, MaxAmount, Multiple,
          MaxPerDay, MaxDailyAmount,
          PoolSize,     \* MaxConns of the database pool
          Opening

ASSUME WithdrawalAssumption ==
  /\ Owner \in [Payout -> User]
  /\ Gross \in [Payout -> Nat]
  /\ FeeAgency \in [Payout -> Nat]
  /\ \A w \in Payout : FeeAgency[w] <= Gross[w]
  /\ AgencyOwner \in User
  /\ Small \subseteq Payout
  /\ {MinAmount, MaxAmount, MaxPerDay, MaxDailyAmount} \subseteq Nat
  /\ {Multiple, PoolSize} \subseteq Nat \ {0}
  /\ Opening \in [User -> Wallet \cup {NoWallet}]
  /\ IsFiniteSet(Payout)

VARIABLES
  pc,          \* pc[p]: the next statement of request p
  item,        \* item[p]: the payout it is about
  verdict,     \* verdict[p]: what a settlement decides
  broken,      \* broken[p]: a statement of p's transaction failed
  status,      \* status[w]: withdrawals.status, "none" without a row
  held,        \* payouts of new accounts, younger than 24 hours
  count,       \* Redis: withdrawal:daily_count of a user, for the day
  amount,      \* Redis: withdrawal:daily_amount
  debited,     \* payouts whose debit is committed
  refunded,    \* refunded[w]: committed refunds
  commission,  \* commission[w]: committed credits of the agency's fee
  overlap,     \* payouts that two settlements found pending at once
  torn,        \* payouts whose status was written but not the money, see Tear
  uncounted    \* users with a request the daily limits did not see in time
rows == <<status, held>>
redis == <<count, amount>>
money == <<debited, refunded, commission>>
history == <<overlap, torn, uncounted>>
vars == <<storeVars, pc, item, verdict, broken, rows, redis, money, history>>

Ended == {"idle", "done", "failed"}
Requesting == {"rq_count", "rq_amount", "rq_begin", "rq_balance", "rq_debit", "rq_row",
               "rq_audits", "rq_commit", "rq_incr", "rq_incrby"}
Settling == {"st_begin", "st_get", "st_credit", "st_record", "st_status", "st_commit"}
Transacting == {"rq_balance", "rq_debit", "rq_row", "rq_audits", "rq_commit"}
               \cup (Settling \ {"st_begin"})

TypeOK == /\ StoreTypeOK
          /\ pc \in [Session -> Ended \cup Requesting \cup Settling]
          /\ item \in [Session -> Payout]
          /\ verdict \in [Session -> {"approved", "rejected"}]
          /\ broken \in [Session -> BOOLEAN]
          /\ status \in [Payout -> {"none", "pending", "approved", "rejected"}]
          /\ held \subseteq Payout
          /\ count \in [User -> Nat]
          /\ amount \in [User -> Nat]
          /\ debited \subseteq Payout
          /\ refunded \in [Payout -> Nat]
          /\ commission \in [Payout -> Nat]
          /\ overlap \subseteq Payout
          /\ torn \subseteq Payout
          /\ uncounted \subseteq User

Init == /\ StoreInit(Opening)
        /\ pc = [p \in Session |-> "idle"]
        /\ item \in [Session -> Payout]
        /\ verdict = [p \in Session |-> "approved"]
        /\ broken = [p \in Session |-> FALSE]
        /\ status = [w \in Payout |-> "none"]
        /\ held \in SUBSET (Payout \ Small)
        /\ count = [u \in User |-> 0]
        /\ amount = [u \in User |-> 0]
        /\ debited = {}
        /\ refunded = [w \in Payout |-> 0]
        /\ commission = [w \in Payout |-> 0]
        /\ overlap = {}
        /\ torn = {}
        /\ uncounted = {}

At(p, l) == pc[p] = l
Goto(p, l) == pc' = [pc EXCEPT ![p] = l]
Active(p) == pc[p] \notin Ended
InTx(p) == pc[p] \in Transacting
Client(p) == Owner[item[p]]

\* Another request of p's user that has not been counted yet.
Uncounted(p) == \E q \in Session \ {p} : Client(q) = Client(p) /\ pc[q] \in Requesting

\* The transactions hold a connection each; one more is free.
ConnectionFree == Cardinality({p \in Session : InTx(p)}) < PoolSize

Abort(p) == /\ Rollback(p)
            /\ Goto(p, "failed")
            /\ broken' = [broken EXCEPT ![p] = FALSE]

-----------------------------------------------------------------------------
(***************************************************************************)
(* RequestWithdrawal                                                       *)
(***************************************************************************)
Acceptable(a) == a >= MinAmount /\ a <= MaxAmount /\ a % Multiple = 0

StartRequest(p) ==
  /\ At(p, "idle")
  /\ status[item[p]] = "none"
  /\ \A q \in Session \ {p} : item[q] = item[p] => At(q, "idle")
  /\ Goto(p, IF Acceptable(Gross[item[p]]) THEN "rq_count" ELSE "failed")
  /\ uncounted' = IF Uncounted(p) THEN uncounted \cup {Client(p)} ELSE uncounted
  /\ UNCHANGED <<storeVars, item, verdict, broken, rows, redis, money, overlap, torn>>

\* An error of Redis reads as zero, in both limits.
CheckDailyCount(p) ==
  /\ At(p, "rq_count")
  /\ \/ /\ Goto(p, IF count[Client(p)] >= MaxPerDay THEN "failed" ELSE "rq_amount")
        /\ UNCHANGED uncounted
     \/ /\ Goto(p, IF MaxPerDay = 0 THEN "failed" ELSE "rq_amount")
        /\ uncounted' = uncounted \cup {Client(p)}
  /\ UNCHANGED <<storeVars, item, verdict, broken, rows, redis, money, overlap, torn>>

CheckDailyAmount(p) ==
  LET over(read) == read + Gross[item[p]] > MaxDailyAmount
  IN  /\ At(p, "rq_amount")
      /\ \/ /\ Goto(p, IF over(amount[Client(p)]) THEN "failed" ELSE "rq_begin")
            /\ UNCHANGED uncounted
         \/ /\ Goto(p, IF over(0) THEN "failed" ELSE "rq_begin")
            /\ uncounted' = uncounted \cup {Client(p)}
      /\ UNCHANGED <<storeVars, item, verdict, broken, rows, redis, money, overlap, torn>>

\* RunInTx: tx, err := r.db.Begin(ctx)
BeginTx(p) ==
  /\ ConnectionFree
  /\ \/ At(p, "rq_begin") /\ Goto(p, "rq_balance")
     \/ At(p, "st_begin") /\ Goto(p, "st_get")
  /\ UNCHANGED <<storeVars, item, verdict, broken, rows, redis, money, history>>

\* GetByUserID, a plain SELECT.
CheckBalance(p) ==
  LET w == Seen(p, Client(p))
  IN  /\ At(p, "rq_balance")
      /\ IF w # NoWallet /\ w.bal >= Gross[item[p]]
         THEN Goto(p, "rq_debit") /\ UNCHANGED <<storeVars, broken>>
         ELSE Abort(p)
      /\ UNCHANGED <<item, verdict, rows, redis, money, history>>

DebitWallet(p) ==
  LET w == item[p]
  IN  /\ At(p, "rq_debit")
      /\ \/ Move(p, "debit", Owner[w], Gross[w], TRUE) /\ Goto(p, "rq_row") /\ UNCHANGED broken
         \/ Refused(p, "debit", Owner[w], Gross[w]) /\ Abort(p)
      /\ UNCHANGED <<item, verdict, rows, redis, money, history>>

\* Mutant: the error of the INSERT is only logged.
CreateRowOrNot(p) ==
  /\ At(p, "rq_row")
  /\ ConnectionFree
  /\ \/ status' = [status EXCEPT ![item[p]] = "pending"]
     \/ UNCHANGED status
  /\ Goto(p, "rq_audits")
  /\ UNCHANGED <<storeVars, item, verdict, broken, held, redis, money, history>>

\* repo.Create runs on the pool.  When it fails the row may be there or not.
CreateRow(p) ==
  /\ At(p, "rq_row")
  /\ ConnectionFree
  /\ \/ status' = [status EXCEPT ![item[p]] = "pending"]
     \/ UNCHANGED status
  /\ \/ /\ status'[item[p]] = "pending"
        /\ Goto(p, "rq_audits")
        /\ UNCHANGED <<storeVars, broken>>
     \/ Abort(p)
  /\ UNCHANGED <<item, verdict, held, redis, money, history>>

\* The rows of withdrawal_fee_audits, on the pool too.
CreateFeeAudits(p) ==
  /\ At(p, "rq_audits")
  /\ ConnectionFree
  /\ \/ Goto(p, "rq_commit") /\ UNCHANGED <<storeVars, broken>>
     \/ Abort(p)
  /\ UNCHANGED <<item, verdict, rows, redis, money, history>>

\* The answer of COMMIT may be lost: then the request fails, uncounted.
CommitRequest(p) ==
  /\ At(p, "rq_commit")
  /\ Commit(p)
  /\ debited' = debited \cup {item[p]}
  /\ \/ Goto(p, "rq_incr") /\ UNCHANGED uncounted
     \/ Goto(p, "failed") /\ uncounted' = uncounted \cup {Client(p)}
  /\ UNCHANGED <<item, verdict, broken, rows, redis, refunded, commission, overlap, torn>>

CountRequest(p) ==
  /\ At(p, "rq_incr")
  /\ \/ count' = [count EXCEPT ![Client(p)] = @ + 1] /\ UNCHANGED uncounted
     \/ uncounted' = uncounted \cup {Client(p)} /\ UNCHANGED count
  /\ Goto(p, "rq_incrby")
  /\ UNCHANGED <<storeVars, item, verdict, broken, rows, amount, money, overlap, torn>>

\* Mutant: the second counter is raised by one as well.
CountOne(p) ==
  /\ At(p, "rq_incrby")
  /\ amount' = [amount EXCEPT ![Client(p)] = @ + 1]
  /\ Goto(p, IF item[p] \in Small THEN "st_begin" ELSE "done")
  /\ UNCHANGED <<storeVars, item, verdict, broken, rows, count, money, history>>

\* Then a small payout of an old account is approved in the same call.
CountAmount(p) ==
  /\ At(p, "rq_incrby")
  /\ \/ amount' = [amount EXCEPT ![Client(p)] = @ + Gross[item[p]]] /\ UNCHANGED uncounted
     \/ uncounted' = uncounted \cup {Client(p)} /\ UNCHANGED amount
  /\ Goto(p, IF item[p] \in Small THEN "st_begin" ELSE "done")
  /\ UNCHANGED <<storeVars, item, verdict, broken, rows, count, money, overlap, torn>>

(***************************************************************************)
(* ApproveWithdrawal and RejectWithdrawal                                  *)
(***************************************************************************)
StartSettlement(p) ==
  /\ At(p, "idle")
  /\ status[item[p]] # "none"
  /\ \E v \in {"approved", "rejected"} : verdict' = [verdict EXCEPT ![p] = v]
  /\ Goto(p, "st_begin")
  /\ UNCHANGED <<storeVars, item, broken, rows, redis, money, history>>

\* Other settlements of w that found it pending.
Settlers(p, w) == {q \in Session \ {p} : item[q] = w /\ pc[q] \in Settling \ {"st_begin", "st_get"}}

\* Mutant: the status is not looked at.
GetAnyWithdrawal(p) ==
  /\ At(p, "st_get")
  /\ ConnectionFree
  /\ Goto(p, "st_credit")
  /\ UNCHANGED <<storeVars, item, verdict, broken, rows, redis, money, history>>

\* The withdrawal and its user are read on the pool, without a lock.
GetWithdrawal(p) ==
  LET w == item[p]
  IN  /\ At(p, "st_get")
      /\ ConnectionFree
      /\ IF status[w] = "pending" /\ ~(verdict[p] = "approved" /\ w \in held)
         THEN /\ Goto(p, "st_credit")
              /\ overlap' = IF Settlers(p, w) # {} THEN overlap \cup {w} ELSE overlap
              /\ UNCHANGED <<storeVars, broken>>
         ELSE Abort(p) /\ UNCHANGED overlap
      /\ UNCHANGED <<item, verdict, rows, redis, money, torn, uncounted>>

\* Rejecting returns the gross amount; approving pays the agency, unless
\* there is no fee or the agency is not found.
Beneficiary(p) == IF verdict[p] = "rejected" THEN Client(p) ELSE AgencyOwner
Due(p) == IF verdict[p] = "rejected" THEN Gross[item[p]] ELSE FeeAgency[item[p]]

CreditSettlement(p) ==
  /\ At(p, "st_credit")
  /\ \/ /\ Due(p) > 0 \/ verdict[p] = "rejected"
        /\ Move(p, "credit", Beneficiary(p), Due(p), TRUE)
        /\ Goto(p, "st_record")
        /\ UNCHANGED broken
     \/ /\ Due(p) > 0 \/ verdict[p] = "rejected"
        /\ Refused(p, "credit", Beneficiary(p), Due(p))
        /\ Abort(p)
     \/ /\ verdict[p] = "approved"
        /\ Goto(p, "st_record")
        /\ UNCHANGED <<storeVars, broken>>
  /\ UNCHANGED <<item, verdict, rows, redis, money, history>>

\* txRepo.Create uses the transaction; its error is only logged.
RecordSettlement(p) ==
  /\ At(p, "st_record")
  /\ \E b \in BOOLEAN : broken' = [broken EXCEPT ![p] = b]
  /\ Goto(p, "st_status")
  /\ UNCHANGED <<storeVars, item, verdict, rows, redis, money, history>>

\* The status is committed but the money around it is not.
Tear(p) == torn' = torn \cup {item[p]}

\* repo.UpdateStatus runs on the pool: neither a broken transaction nor the
\* rollback that follows an error undoes it.
WriteStatus(p) ==
  /\ At(p, "st_status")
  /\ ConnectionFree
  /\ \/ /\ status' = [status EXCEPT ![item[p]] = verdict[p]]
        /\ \/ Goto(p, "st_commit") /\ UNCHANGED <<storeVars, broken, torn>>
           \/ Abort(p) /\ Tear(p)
     \/ Abort(p) /\ UNCHANGED <<status, torn>>
  /\ UNCHANGED <<item, verdict, held, redis, money, overlap, uncounted>>

Plus(f, w, b) == IF b THEN [f EXCEPT ![w] = @ + 1] ELSE f

CommitSettlement(p) ==
  LET w == item[p]
      paid == lock[Beneficiary(p)] = p   \* the credit was made
  IN  /\ At(p, "st_commit")
      /\ IF broken[p]
         THEN Abort(p) /\ Tear(p) /\ UNCHANGED money
         ELSE /\ Commit(p)
              /\ \E l \in {"done", "failed"} : Goto(p, l)
              /\ refunded' = Plus(refunded, w, paid /\ verdict[p] = "rejected")
              /\ commission' = Plus(commission, w, paid /\ verdict[p] = "approved")
              /\ UNCHANGED <<debited, broken, torn>>
      /\ UNCHANGED <<item, verdict, rows, redis, overlap, uncounted>>

-----------------------------------------------------------------------------
\* A statement fails, the client goes away or the process dies.
Stops(p) == /\ Active(p)
            /\ Abort(p)
            /\ torn' = IF At(p, "st_commit") THEN torn \cup {item[p]} ELSE torn
            /\ uncounted' = IF pc[p] \in {"rq_incr", "rq_incrby"}
                            THEN uncounted \cup {Client(p)} ELSE uncounted
            /\ UNCHANGED <<item, verdict, rows, redis, money, overlap>>

\* A held payout is 24 hours old, or its account seven days.
HoldEnds(w) == /\ w \in held
               /\ held' = held \ {w}
               /\ UNCHANGED <<storeVars, pc, item, verdict, broken, status, redis, money, history>>

Finished == /\ \A p \in Session : ~Active(p)
            /\ UNCHANGED vars

Advance(p) == \/ CheckDailyCount(p) \/ CheckDailyAmount(p) \/ BeginTx(p) \/ CheckBalance(p)
              \/ DebitWallet(p) \/ CreateRow(p) \/ CreateFeeAudits(p) \/ CommitRequest(p)
              \/ CountRequest(p) \/ CountAmount(p)
              \/ GetWithdrawal(p) \/ CreditSettlement(p) \/ RecordSettlement(p)
              \/ WriteStatus(p) \/ CommitSettlement(p)

Next == \/ \E p \in Session : StartRequest(p) \/ StartSettlement(p) \/ Advance(p) \/ Stops(p)
        \/ \E w \in Payout : HoldEnds(w)
        \/ Finished

Spec == Init /\ [][Next]_vars

\* A request that has started keeps running; nothing need start or fail.
LiveSpec == Spec /\ \A p \in Session : WF_vars(Advance(p))

-----------------------------------------------------------------------------
(***************************************************************************)
(* Properties                                                              *)
(***************************************************************************)
RequestedBy(u, S) == {w \in S : Owner[w] = u}
Settlement(w) == \E p \in Session : item[p] = w /\ At(p, "st_commit")

\* The committed balances are what the committed debits, refunds and
\* commissions add up to, whatever rolled back around them.
BalancesAddUp ==
  \A u \in User :
    row[u] # NoWallet =>
      row[u].bal = Opening[u].bal
        - SumFunctionOnSet(Gross, RequestedBy(u, debited))
        + SumFunctionOnSet([w \in Payout |-> refunded[w] * Gross[w]], RequestedBy(u, Payout))
        + (IF u = AgencyOwner
           THEN SumFunctionOnSet([w \in Payout |-> commission[w] * FeeAgency[w]], Payout) ELSE 0)

\* The money of a withdrawal never leaves the wallet without a row that
\* asks an administrator to pay it out.
DebitHasRow == \A w \in debited : status[w] # "none"

\* A withdrawal's status and the money agree: a rejected one was refunded
\* exactly once, an approved one never, and the agency's commission is paid
\* for approved ones only.  The exceptions are what the pool writes allow:
\* two settlements that both found it pending, and a status written by a
\* settlement whose transaction then failed.
StatusMatchesMoney ==
  \A w \in Payout \ (overlap \cup torn) :
    /\ refunded[w] = IF status[w] = "rejected" /\ ~Settlement(w) THEN 1 ELSE 0
    /\ commission[w] > 0 => commission[w] = 1 /\ status[w] = "approved"

\* Wallets and withdrawals tell the same story.
BooksHold == TypeOK /\ BalancesAddUp /\ DebitHasRow /\ StatusMatchesMoney

\* The daily limits bound what a user withdraws in a day, if none of the
\* requests overlapped another one, lost its counters or met a Redis error.
DailyLimits ==
  \A u \in User \ uncounted :
    LET accepted == RequestedBy(u, debited)
    IN  /\ Cardinality(accepted) <= MaxPerDay
        /\ SumFunctionOnSet(Gross, accepted) <= MaxDailyAmount

\* No request waits for ever for a connection or a row, as long as the pool
\* has one connection more than there are requests.
RequestsEnd == \A p \in Session : Active(p) ~> ~Active(p)

\* withdrawal_usecase.go:172 "Create Withdrawal Record & Debit Wallet using
\* SQL Transaction (Double-spending protection)": once the requests have
\* ended, a withdrawal that can be settled was debited.
RowImpliesDebited ==
  (\A p \in Session : ~Active(p)) => \A w \in Payout : status[w] # "none" => w \in debited
=============================================================================
