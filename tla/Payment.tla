------------------------------ MODULE Payment ------------------------------
(***************************************************************************)
(* internal/usecase/payment.go: deposits through the Duitku gateway and    *)
(* the withdrawals that freeze money until an administrator settles them.  *)
(*                                                                         *)
(* Nothing here runs in a transaction: every call is a statement of its    *)
(* own, so a request may stop between any two, and requests for the same   *)
(* order or withdrawal interleave.  The gateway reports an order as often  *)
(* as it likes.                                                            *)
(***************************************************************************)
EXTENDS WalletStore, FiniteSetsExt

CONSTANTS Order,      \* deposit orders (merchant_order_id)
          Payout,     \* withdrawal requests (transactions of type withdrawal)
          Owner,      \* the user of an order or a payout
          Amount,     \* the amount of an order or a payout
          Fee,        \* WithdrawalFee
          Opening

ASSUME PaymentAssumption ==
  /\ IsFiniteSet(Order) /\ IsFiniteSet(Payout)
  /\ Order \cap Payout = {}
  /\ Owner \in [Order \cup Payout -> User]
  /\ Amount \in [Order \cup Payout -> Nat]
  /\ Fee \in Nat
  /\ Opening \in [User -> Wallet]

VARIABLES
  pc,         \* pc[p]: the next statement of request p
  item,       \* item[p]: the order or payout it is about
  code,       \* code[p]: the result code of a callback, or the verdict of an admin
  payment,    \* payment[o]: status in duitku_payments, "none" without a row
  txn,        \* txn[x]: status in transactions, "none" without a row
  cbKey,      \* Redis: the orders with a duitku:cb: key
  gateway,    \* gateway[o]: what Duitku knows of the order
  credited,   \* credited[o]: how often the deposit was credited
  released,   \* released[x]: how often the payout's money was unfrozen
  overlap     \* orders and payouts two requests found pending at once, or
              \* whose settlement or creation stopped half-way
payVars == <<payment, txn, cbKey, gateway>>
history == <<credited, released, overlap>>
vars == <<storeVars, pc, item, code, payVars, history>>

Total(x) == Amount[x] + Fee

CallbackCodes == {"00", "01", "02"}
Verdicts == {"success", "cancelled"}
Statuses == {"none", "pending", "success", "failed", "cancelled"}
Idle == {"idle", "done", "failed"}
Labels == Idle \cup
  {"dep_create", "dep_inquiry", "dep_refused", "dep_store",
   "cb_exists", "cb_set", "cb_get", "cb_pay", "cb_txn", "cb_user", "cb_credit",
   "cb_fail", "cb_failtxn",
   "wd_freeze", "wd_create", "wd_undo",
   "st_get", "st_unfreeze", "st_status"}

TypeOK == /\ StoreTypeOK
          /\ pc \in [Session -> Labels]
          /\ item \in [Session -> Order \cup Payout]
          /\ code \in [Session -> CallbackCodes \cup Verdicts]
          /\ payment \in [Order -> Statuses]
          /\ txn \in [Order \cup Payout -> Statuses]
          /\ cbKey \subseteq Order
          /\ gateway \in [Order -> {"unknown", "open", "paid", "refused"}]
          /\ credited \in [Order -> Nat]
          /\ released \in [Payout -> Nat]
          /\ overlap \subseteq Order \cup Payout

Init == /\ StoreInit(Opening)
        /\ pc = [p \in Session |-> "idle"]
        /\ item \in [Session -> Order \cup Payout]
        /\ code = [p \in Session |-> "00"]
        /\ payment = [o \in Order |-> "none"]
        /\ txn = [x \in Order \cup Payout |-> "none"]
        /\ cbKey = {}
        /\ gateway = [o \in Order |-> "unknown"]
        /\ credited = [o \in Order |-> 0]
        /\ released = [x \in Payout |-> 0]
        /\ overlap = {}

At(p, l) == pc[p] = l
Goto(p, l) == pc' = [pc EXCEPT ![p] = l]
SetTxn(x, s) == txn' = [txn EXCEPT ![x] = s]

\* The other requests that are about x and stand at one of the labels.
Others(p, x, labels) == {q \in Session \ {p} : item[q] = x /\ pc[q] \in labels}

Begin(p, l) == /\ At(p, "idle")
               /\ Goto(p, l)
               /\ UNCHANGED <<storeVars, item, payVars, history>>

-----------------------------------------------------------------------------
(***************************************************************************)
(* RequestDeposit                                                          *)
(***************************************************************************)
StartDeposit(p) == /\ item[p] \in Order
                   /\ txn[item[p]] = "none"   \* merchantOrderID is fresh
                   /\ Others(p, item[p], Labels \ {"idle"}) = {}
                   /\ Begin(p, "dep_create")
                   /\ UNCHANGED code

CreatePendingTransaction(p) ==
  /\ At(p, "dep_create")
  /\ SetTxn(item[p], "pending")
  /\ Goto(p, "dep_inquiry")
  /\ UNCHANGED <<storeVars, item, code, payment, cbKey, gateway, history>>

\* The inquiry may reach the gateway although its answer is lost.
CreateInquiry(p) ==
  /\ At(p, "dep_inquiry")
  /\ \/ Goto(p, "dep_store") /\ gateway' = [gateway EXCEPT ![item[p]] = "open"]
     \/ Goto(p, "dep_refused") /\ gateway' \in {gateway, [gateway EXCEPT ![item[p]] = "open"]}
  /\ UNCHANGED <<storeVars, item, code, payment, txn, cbKey, history>>

InquiryRefused(p) ==
  /\ At(p, "dep_refused")
  /\ SetTxn(item[p], "failed") \/ UNCHANGED txn
  /\ Goto(p, "failed")
  /\ UNCHANGED <<storeVars, item, code, payment, cbKey, gateway, history>>

StorePayment(p) ==
  /\ At(p, "dep_store")
  /\ payment' = [payment EXCEPT ![item[p]] = "pending"]
  /\ Goto(p, "done")
  /\ UNCHANGED <<storeVars, item, code, txn, cbKey, gateway, history>>

(***************************************************************************)
(* The gateway: the customer pays or the payment is refused; the callback  *)
(* of every result so far may arrive at any time, any number of times.     *)
(***************************************************************************)
GatewaySettles(o) == /\ gateway[o] = "open"
                     /\ \E g \in {"paid", "refused"} : gateway' = [gateway EXCEPT ![o] = g]
                     /\ UNCHANGED <<storeVars, pc, item, code, payment, txn, cbKey, history>>

Reportable(o) == CASE gateway[o] = "open"    -> {"01"}
                   [] gateway[o] = "paid"    -> {"00", "01"}
                   [] gateway[o] = "refused" -> {"01", "02"}
                   [] OTHER                  -> {}

(***************************************************************************)
(* HandleCallback                                                          *)
(***************************************************************************)
StartCallback(p) == /\ item[p] \in Order
                    /\ \E c \in Reportable(item[p]) : code' = [code EXCEPT ![p] = c]
                    /\ Begin(p, "cb_exists")

\* An error of EXISTS reads as zero.
CheckDuplicate(p) ==
  /\ At(p, "cb_exists")
  /\ \/ item[p] \in cbKey /\ Goto(p, "done")
     \/ Goto(p, "cb_set")
  /\ UNCHANGED <<storeVars, item, code, payVars, history>>

MarkCallback(p) ==
  /\ At(p, "cb_set")
  /\ cbKey' \in {cbKey, cbKey \cup {item[p]}}
  /\ Goto(p, "cb_get")
  /\ UNCHANGED <<storeVars, item, code, payment, txn, gateway, history>>

\* Mutant: an unknown result is handed on as it came.
AnyLabel(p) == IF code[p] = "00" THEN "cb_pay" ELSE code[p]

\* Mutant: every result but a failure counts as a success.
PendingCounts(p) == IF code[p] = "02" THEN "cb_fail" ELSE "cb_pay"

AfterGet(p) == CASE code[p] = "00" -> "cb_pay"
                 [] code[p] = "01" -> "done"
                 [] OTHER          -> "cb_fail"

\* Mutant: the status of the payment is not looked at.
GetAnyPayment(p) ==
  /\ At(p, "cb_get")
  /\ Goto(p, IF payment[item[p]] = "none" THEN "failed" ELSE AfterGet(p))
  /\ UNCHANGED <<storeVars, item, code, payVars, history>>

GetPayment(p) ==
  LET o == item[p]
  IN  /\ At(p, "cb_get")
      /\ Goto(p, CASE payment[o] = "none"    -> "failed"
                   [] payment[o] = "pending" -> AfterGet(p)
                   [] OTHER                  -> "done")
      /\ overlap' = IF /\ payment[o] = "pending"
                       /\ Others(p, o, {"cb_pay", "cb_fail"}) # {}
                    THEN overlap \cup {o} ELSE overlap
      /\ UNCHANGED <<storeVars, item, code, payVars, credited, released>>

\* Storing a failure may fail itself: that error is not looked at.
UpdatePayment(p) ==
  LET set(s) == [payment EXCEPT ![item[p]] = s]
  IN  /\ \/ At(p, "cb_pay") /\ payment' = set("success") /\ Goto(p, "cb_txn")
         \/ At(p, "cb_fail") /\ payment' \in {payment, set("failed")} /\ Goto(p, "cb_failtxn")
      /\ UNCHANGED <<storeVars, item, code, txn, cbKey, gateway, history>>

\* The error of UpdateStatus is not looked at.
UpdateTransaction(p) ==
  LET o == item[p]
  IN  /\ \/ At(p, "cb_txn") /\ txn' \in {txn, [txn EXCEPT ![o] = "success"]} /\ Goto(p, "cb_user")
         \/ At(p, "cb_failtxn") /\ txn' \in {txn, [txn EXCEPT ![o] = "failed"]} /\ Goto(p, "done")
      /\ UNCHANGED <<storeVars, item, code, payment, cbKey, gateway, history>>

GetTransaction(p) ==
  /\ At(p, "cb_user")
  /\ Goto(p, IF txn[item[p]] = "none" THEN "failed" ELSE "cb_credit")
  /\ UNCHANGED <<storeVars, item, code, payVars, history>>

CreditDeposit(p) ==
  LET o == item[p]
  IN  /\ At(p, "cb_credit")
      /\ CreditOrOpen(p, Owner[o], Amount[o], FALSE)
      /\ credited' = [credited EXCEPT ![o] = @ + 1]
      /\ Goto(p, "done")
      /\ UNCHANGED <<item, code, payVars, released, overlap>>

(***************************************************************************)
(* RequestWithdrawal                                                       *)
(***************************************************************************)
StartWithdrawal(p) == /\ item[p] \in Payout
                      /\ txn[item[p]] = "none"
                      /\ Others(p, item[p], Labels \ {"idle"}) = {}
                      /\ Begin(p, "wd_freeze")
                      /\ UNCHANGED code

\* Mutant: the fee is not frozen with the amount.
FreezeWithoutFee(p) ==
  LET x == item[p]
  IN  /\ At(p, "wd_freeze")
      /\ \/ Move(p, "freeze", Owner[x], Amount[x], FALSE) /\ Goto(p, "wd_create")
         \/ /\ Refused(p, "freeze", Owner[x], Amount[x])
            /\ Goto(p, "failed")
            /\ UNCHANGED storeVars
      /\ UNCHANGED <<item, code, payVars, history>>

FreezeForWithdrawal(p) ==
  LET x == item[p]
  IN  /\ At(p, "wd_freeze")
      /\ \/ Move(p, "freeze", Owner[x], Total(x), FALSE) /\ Goto(p, "wd_create")
         \/ /\ Refused(p, "freeze", Owner[x], Total(x))
            /\ Goto(p, "failed")
            /\ UNCHANGED storeVars
      /\ UNCHANGED <<item, code, payVars, history>>

\* When the INSERT reports an error the row may have been written all the same.
CreateWithdrawal(p) ==
  LET x == item[p]
  IN  /\ At(p, "wd_create")
      /\ \/ SetTxn(x, "pending") /\ Goto(p, "done") /\ UNCHANGED overlap
         \/ Goto(p, "wd_undo") /\ UNCHANGED <<txn, overlap>>
         \/ SetTxn(x, "pending") /\ Goto(p, "wd_undo") /\ overlap' = overlap \cup {x}
      /\ UNCHANGED <<storeVars, item, code, payment, cbKey, gateway, credited, released>>

\* "Rollback freeze": its own error is not looked at.
UndoFreeze(p) ==
  LET x == item[p]
  IN  /\ At(p, "wd_undo")
      /\ \/ Move(p, "unfreeze", Owner[x], Total(x), FALSE)
         \/ Refused(p, "unfreeze", Owner[x], Total(x)) /\ UNCHANGED storeVars
      /\ Goto(p, "failed")
      /\ UNCHANGED <<item, code, payVars, history>>

(***************************************************************************)
(* ApproveWithdrawal ("success") and RejectWithdrawal ("cancelled") differ *)
(* only in the status they write.                                          *)
(***************************************************************************)
StartSettlement(p) == /\ item[p] \in Payout
                      /\ txn[item[p]] # "none"
                      /\ \E v \in Verdicts : code' = [code EXCEPT ![p] = v]
                      /\ Begin(p, "st_get")

\* Mutant: a settled withdrawal is settled again.
GetAny(p) == /\ At(p, "st_get")
             /\ Goto(p, "st_unfreeze")
             /\ UNCHANGED <<storeVars, item, code, payVars, history>>

GetPending(p) ==
  LET x == item[p]
  IN  /\ At(p, "st_get")
      /\ IF txn[x] = "pending" THEN Goto(p, "st_unfreeze") ELSE Goto(p, "failed")
      /\ overlap' = IF txn[x] = "pending" /\ Others(p, x, {"st_unfreeze", "st_status"}) # {}
                    THEN overlap \cup {x} ELSE overlap
      /\ UNCHANGED <<storeVars, item, code, payVars, credited, released>>

ReleaseFrozen(p) ==
  LET x == item[p]
  IN  /\ At(p, "st_unfreeze")
      /\ \/ /\ Move(p, "unfreeze", Owner[x], Total(x), FALSE)
            /\ released' = [released EXCEPT ![x] = @ + 1]
            /\ Goto(p, "st_status")
         \/ /\ Refused(p, "unfreeze", Owner[x], Total(x))
            /\ Goto(p, "failed")
            /\ UNCHANGED <<storeVars, released>>
      /\ UNCHANGED <<item, code, payVars, credited, overlap>>

WriteVerdict(p) ==
  /\ At(p, "st_status")
  /\ SetTxn(item[p], code[p])
  /\ Goto(p, "done")
  /\ UNCHANGED <<storeVars, item, code, payment, cbKey, gateway, history>>

\* A statement fails or the process dies: the request ends where it is.
Stops(p) == /\ pc[p] \notin Idle
            /\ Goto(p, "failed")
            /\ overlap' = IF At(p, "st_status") THEN overlap \cup {item[p]} ELSE overlap
            /\ UNCHANGED <<storeVars, item, code, payVars, credited, released>>

\* The Redis keys live for 48 hours.
CallbackKeyExpires(o) == /\ o \in cbKey
                         /\ cbKey' = cbKey \ {o}
                         /\ UNCHANGED <<storeVars, pc, item, code, payment, txn, gateway, history>>

\* No request runs and none need come.
Finished == /\ \A p \in Session : pc[p] \in Idle
            /\ UNCHANGED vars

Deposit(p) == StartDeposit(p) \/ CreatePendingTransaction(p) \/ CreateInquiry(p)
              \/ InquiryRefused(p) \/ StorePayment(p)
Callback(p) == \/ StartCallback(p) \/ CheckDuplicate(p) \/ MarkCallback(p) \/ GetPayment(p)
               \/ UpdatePayment(p) \/ UpdateTransaction(p) \/ GetTransaction(p)
               \/ CreditDeposit(p)
Withdrawal(p) == StartWithdrawal(p) \/ FreezeForWithdrawal(p) \/ CreateWithdrawal(p)
                 \/ UndoFreeze(p)
Settlement(p) == StartSettlement(p) \/ GetPending(p) \/ ReleaseFrozen(p) \/ WriteVerdict(p)

Next == \/ \E p \in Session : \/ Deposit(p) \/ Callback(p) \/ Withdrawal(p)
                              \/ Settlement(p) \/ Stops(p)
        \/ \E o \in Order : GatewaySettles(o) \/ CallbackKeyExpires(o)
        \/ Finished

Spec == Init /\ [][Next]_vars

-----------------------------------------------------------------------------
(***************************************************************************)
(* Properties                                                              *)
(***************************************************************************)
OwnedBy(u, S) == {x \in S : Owner[x] = u}
Credits(u) == SumFunctionOnSet([o \in Order |-> credited[o] * Amount[o]], OwnedBy(u, Order))

\* The payouts whose money is frozen while their row is still to be written
\* or the freeze to be undone, and those just released.
Writing   == {x \in Payout : \E p \in Session : item[p] = x /\ pc[p] \in {"wd_create", "wd_undo"}}
Releasing == {x \in Payout : \E p \in Session : item[p] = x /\ At(p, "st_status")}

\* The payouts of u that need a frozen balance.
Backed(u) == {x \in OwnedBy(u, Payout) : x \in Writing \/ txn[x] = "pending"} \ Releasing

\* A deposit is credited twice only when two callbacks read the payment as
\* pending before either of them updated it: every later callback is stopped
\* by the status, whatever became of the Redis key.
DoubleCreditNeedsOverlap == \A o \in Order \ overlap : credited[o] <= 1

\* No deposit is credited that Duitku has not reported as paid.
CreditedWasPaid == \A o \in Order : credited[o] > 0 => gateway[o] = "paid"

\* Freezing, undoing and settling, in any interleaving and however they are
\* cut short, create and destroy no money: only deposits change the sum.
MoneyConserved ==
  \A u \in User : row[u].bal + row[u].frz = Opening[u].bal + Opening[u].frz + Credits(u)

\* The frozen balance covers every pending withdrawal that no administrator
\* has just released, and every freeze whose row is still to be written,
\* unless settlements of one withdrawal overlapped or stopped half-way, or a
\* row was kept although its freeze was undone: then one withdrawal is
\* released from the money of another.
PendingIsBacked ==
  \A u \in User : OwnedBy(u, overlap) = {} =>
    SumFunctionOnSet([x \in Payout |-> Total(x)], Backed(u)) <= row[u].frz

\* What the wallets hold is what was deposited, each deposit that was paid
\* for once, whatever is duplicated, reordered or cut short.
BooksHold == TypeOK /\ DoubleCreditNeedsOverlap /\ CreditedWasPaid /\ MoneyConserved

\* payment.go:114 "Idempotency: check if we already processed this callback":
\* one order, one credit.
CreditedAtMostOnce == \A o \in Order : credited[o] <= 1
=============================================================================
