--------------------------- MODULE PaymentProofs ---------------------------
(***************************************************************************)
(* Proofs about Payment: what the deposits and the frozen withdrawals of   *)
(* internal/usecase/payment.go keep, for any number of users, requests,    *)
(* orders and withdrawals, any amounts and any fee.                        *)
(***************************************************************************)
EXTENDS Payment, SumLemmas

-----------------------------------------------------------------------------
(***************************************************************************)
(* The inductive invariant.                                                *)
(***************************************************************************)
DepositLabels    == {"dep_create", "dep_inquiry", "dep_refused", "dep_store"}
CallbackLabels   == {"cb_exists", "cb_set", "cb_get", "cb_pay", "cb_txn", "cb_user", "cb_credit",
                     "cb_fail", "cb_failtxn"}
WithdrawalLabels == {"wd_freeze", "wd_create", "wd_undo"}
SettlementLabels == {"st_get", "st_unfreeze", "st_status"}

\* The steps of a callback that has found the payment pending and the result
\* a success, from the moment on it has marked the payment.
CreditingLabels == {"cb_txn", "cb_user", "cb_credit"}

\* No transaction is ever open, and every user has a wallet.
TableIsQuiet == /\ lock = [u \in User |-> NoTx]
                /\ row \in [User -> Wallet]

\* A request at a label of a use case is about what the use case is about.
RequestsFit ==
  \A p \in Session : /\ pc[p] \in DepositLabels \cup CallbackLabels => item[p] \in Order
                     /\ pc[p] \in WithdrawalLabels \cup SettlementLabels => item[p] \in Payout
                     /\ pc[p] \in SettlementLabels => code[p] \in Verdicts

\* An order is created by one request, nothing is known of it before, and
\* a callback works on a payment that is there.
OrdersAreFresh ==
  /\ \A o \in Order : txn[o] = "none" => payment[o] = "none" /\ gateway[o] = "unknown"
  /\ \A p \in Session : pc[p] \in {"cb_pay", "cb_fail"} => payment[item[p]] # "none"
  /\ \A p \in Session : pc[p] \in DepositLabels =>
       /\ payment[item[p]] = "none"
       /\ pc[p] \in {"dep_create", "dep_inquiry"} => gateway[item[p]] = "unknown"
       /\ pc[p] # "dep_create" => txn[item[p]] # "none"
       /\ \A q \in Session \ {p} : item[q] = item[p] => pc[q] \notin DepositLabels

\* A callback that is on its way to the credit was sent for a paid order.
CreditsArePaid ==
  /\ \A p \in Session :
       \/ pc[p] \in {"cb_exists", "cb_set", "cb_get"} /\ code[p] = "00"
       \/ pc[p] \in CreditingLabels \cup {"cb_pay"}
       => gateway[item[p]] = "paid"
  /\ CreditedWasPaid

\* Of the callbacks of an order that never overlapped one at most has the
\* pending payment in hand, and one at most has marked it and will credit it.
CreditsAreSingle ==
  \A o \in Order \ overlap :
    /\ credited[o] <= 1
    /\ payment[o] \in {"none", "pending"} => credited[o] = 0
    /\ \A p \in Session : item[p] = o =>
         /\ pc[p] \in {"cb_pay", "cb_fail"} =>
              /\ payment[o] = "pending"
              /\ \A q \in Session \ {p} : item[q] = o => pc[q] \notin {"cb_pay", "cb_fail"}
         /\ pc[p] \in CreditingLabels =>
              /\ payment[o] \notin {"none", "pending"}
              /\ credited[o] = 0
              /\ \A q \in Session \ {p} : item[q] = o => pc[q] \notin CreditingLabels

\* A payout is requested once; a settlement that never overlapped another
\* finds the payout pending until it writes its verdict.
PayoutsAreSingle ==
  /\ \A p \in Session : pc[p] \in {"wd_freeze", "wd_create"} => txn[item[p]] = "none"
  /\ \A p \in Session : pc[p] \in WithdrawalLabels =>
       \A q \in Session \ {p} : item[q] = item[p] => pc[q] \notin WithdrawalLabels
  /\ \A p \in Session : pc[p] \in SettlementLabels => txn[item[p]] # "none"
  /\ \A p \in Session : item[p] \notin overlap =>
       /\ pc[p] = "wd_undo" => txn[item[p]] = "none"
       /\ pc[p] \in {"st_unfreeze", "st_status"} =>
            /\ txn[item[p]] = "pending"
            /\ \A q \in Session \ {p} : item[q] = item[p] => pc[q] \notin {"st_unfreeze", "st_status"}

Control == /\ TypeOK
           /\ TableIsQuiet
           /\ RequestsFit
           /\ OrdersAreFresh
           /\ CreditsArePaid
           /\ CreditsAreSingle
           /\ PayoutsAreSingle

-----------------------------------------------------------------------------
(***************************************************************************)
(* The wallets: a statement outside a transaction takes effect at once.    *)
(***************************************************************************)
StatementAssumption(p, u, a) == /\ StoreTypeOK /\ TableIsQuiet
                                /\ p \in Session /\ u \in User /\ a \in Nat

\* The statements of this file: none of them runs in a transaction.
Freezes(p, u, a)   == Move(p, "freeze", u, a, FALSE)
Unfreezes(p, u, a) == Move(p, "unfreeze", u, a, FALSE)

\* A write of a wallet outside a transaction is seen by everybody at once.
LEMMA WriteTakesEffect ==
  ASSUME NEW p, NEW u, NEW a, StatementAssumption(p, u, a), NEW w \in Wallet, Write(p, u, w, FALSE)
  PROVE  StoreTypeOK' /\ TableIsQuiet' /\ row' = [row EXCEPT ![u] = w]
BY DEF StatementAssumption, StoreTypeOK, TableIsQuiet, Write, Lock

\* Who reads a wallet outside a transaction reads the row.
LEMMA CommittedIsSeen ==
  ASSUME NEW p, NEW u, NEW a, StatementAssumption(p, u, a)
  PROVE  Seen(p, u) = row[u] /\ row[u] \in Wallet /\ row[u] # NoWallet
BY StoreAssumption DEF StatementAssumption, StoreTypeOK, TableIsQuiet, Seen

\* wallet.go: CreditBalance adds the amount to the balance.
LEMMA CreditTakesEffect ==
  ASSUME NEW p, NEW u, NEW a, StatementAssumption(p, u, a), CreditOrOpen(p, u, a, FALSE)
  PROVE  /\ StoreTypeOK' /\ TableIsQuiet'
         /\ row' = [row EXCEPT ![u] = [bal |-> row[u].bal + a, frz |-> row[u].frz]]
<1>1. Write(p, u, CreditBalance(row[u], a), FALSE)
  BY CommittedIsSeen DEF CreditOrOpen
<1>2. CreditBalance(row[u], a) \in Wallet
  BY CommittedIsSeen DEF CreditBalance, Wallet, StatementAssumption
<1>3. QED
  BY <1>1, <1>2, WriteTakesEffect DEF CreditBalance

\* wallet.go: FreezeBalance moves the amount, which the balance covers, aside.
LEMMA FreezeTakesEffect ==
  ASSUME NEW p, NEW u, NEW a, StatementAssumption(p, u, a), Freezes(p, u, a)
  PROVE  /\ StoreTypeOK' /\ TableIsQuiet' /\ row[u].bal >= a
         /\ row' = [row EXCEPT ![u] = [bal |-> row[u].bal - a, frz |-> row[u].frz + a]]
<1>1. Write(p, u, FreezeBalance(row[u], a), FALSE) /\ row[u].bal >= a
  BY CommittedIsSeen DEF Freezes, Move, Moved, Covered
<1>2. FreezeBalance(row[u], a) \in Wallet
  <2>1. row[u].bal \in Nat /\ row[u].frz \in Nat /\ a \in Nat
    BY CommittedIsSeen DEF Wallet, StatementAssumption
  <2>2. QED
    BY <1>1, <2>1 DEF FreezeBalance, Wallet
<1>3. QED
  BY <1>1, <1>2, WriteTakesEffect DEF FreezeBalance

\* wallet.go: UnfreezeBalance moves it back from the frozen balance.
LEMMA UnfreezeTakesEffect ==
  ASSUME NEW p, NEW u, NEW a, StatementAssumption(p, u, a), Unfreezes(p, u, a)
  PROVE  /\ StoreTypeOK' /\ TableIsQuiet' /\ row[u].frz >= a
         /\ row' = [row EXCEPT ![u] = [bal |-> row[u].bal + a, frz |-> row[u].frz - a]]
<1>1. Write(p, u, UnfreezeBalance(row[u], a), FALSE) /\ row[u].frz >= a
  BY CommittedIsSeen DEF Unfreezes, Move, Moved, Covered
<1>2. UnfreezeBalance(row[u], a) \in Wallet
  <2>1. row[u].bal \in Nat /\ row[u].frz \in Nat /\ a \in Nat
    BY CommittedIsSeen DEF Wallet, StatementAssumption
  <2>2. QED
    BY <1>1, <2>1 DEF UnfreezeBalance, Wallet
<1>3. QED
  BY <1>1, <1>2, WriteTakesEffect DEF UnfreezeBalance

\* Amounts and totals are natural numbers, and everything has an owner.
LEMMA AmountsAreNatural ==
  /\ \A i \in Order \cup Payout : Owner[i] \in User /\ Amount[i] \in Nat /\ Total(i) \in Nat
BY PaymentAssumption DEF Total

\* A request stays about an item its use case is about.
LEMMA RequestsStayFit ==
  ASSUME Control, [Next]_vars
  PROVE  RequestsFit'
<1> USE DEF Control, TypeOK, RequestsFit, At, Goto, Labels, Idle, DepositLabels, CallbackLabels, WithdrawalLabels, SettlementLabels, CreditingLabels, Verdicts, CallbackCodes
<1>1. ASSUME NEW p \in Session, StartDeposit(p) PROVE RequestsFit'
  BY <1>1 DEF StartDeposit, Begin
<1>2. ASSUME NEW p \in Session, CreatePendingTransaction(p) PROVE RequestsFit'
  BY <1>2 DEF CreatePendingTransaction
<1>3. ASSUME NEW p \in Session, CreateInquiry(p) PROVE RequestsFit'
  BY <1>3 DEF CreateInquiry
<1>4. ASSUME NEW p \in Session, InquiryRefused(p) PROVE RequestsFit'
  BY <1>4 DEF InquiryRefused
<1>5. ASSUME NEW p \in Session, StorePayment(p) PROVE RequestsFit'
  BY <1>5 DEF StorePayment
<1>6. ASSUME NEW p \in Session, StartCallback(p) PROVE RequestsFit'
  BY <1>6 DEF StartCallback, Begin, Reportable
<1>7. ASSUME NEW p \in Session, CheckDuplicate(p) PROVE RequestsFit'
  BY <1>7 DEF CheckDuplicate
<1>8. ASSUME NEW p \in Session, MarkCallback(p) PROVE RequestsFit'
  BY <1>8 DEF MarkCallback
<1>9. ASSUME NEW p \in Session, GetPayment(p) PROVE RequestsFit'
  BY <1>9 DEF GetPayment, AfterGet
<1>10. ASSUME NEW p \in Session, UpdatePayment(p) PROVE RequestsFit'
  BY <1>10 DEF UpdatePayment
<1>11. ASSUME NEW p \in Session, UpdateTransaction(p) PROVE RequestsFit'
  BY <1>11 DEF UpdateTransaction
<1>12. ASSUME NEW p \in Session, GetTransaction(p) PROVE RequestsFit'
  BY <1>12 DEF GetTransaction
<1>13. ASSUME NEW p \in Session, CreditDeposit(p) PROVE RequestsFit'
  BY <1>13 DEF CreditDeposit
<1>14. ASSUME NEW p \in Session, StartWithdrawal(p) PROVE RequestsFit'
  BY <1>14 DEF StartWithdrawal, Begin
<1>15. ASSUME NEW p \in Session, FreezeForWithdrawal(p) PROVE RequestsFit'
  <2>1. /\ pc[p] = "wd_freeze" /\ UNCHANGED <<item, txn, code, overlap, credited, payment, gateway>>
        /\ \E l \in {"wd_create", "failed"} : Goto(p, l)
    BY <1>15 DEF FreezeForWithdrawal, payVars, history
  <2>2. QED
    BY <1>15, <2>1
<1>16. ASSUME NEW p \in Session, CreateWithdrawal(p) PROVE RequestsFit'
  BY <1>16 DEF CreateWithdrawal
<1>17. ASSUME NEW p \in Session, UndoFreeze(p) PROVE RequestsFit'
  BY <1>17 DEF UndoFreeze
<1>18. ASSUME NEW p \in Session, StartSettlement(p) PROVE RequestsFit'
  BY <1>18 DEF StartSettlement, Begin
<1>19. ASSUME NEW p \in Session, GetPending(p) PROVE RequestsFit'
  BY <1>19 DEF GetPending
<1>20. ASSUME NEW p \in Session, ReleaseFrozen(p) PROVE RequestsFit'
  <2>1. /\ pc[p] = "st_unfreeze" /\ UNCHANGED <<item, txn, code, overlap, credited, payment, gateway>>
        /\ \E l \in {"st_status", "failed"} : Goto(p, l)
    BY <1>20 DEF ReleaseFrozen, payVars, history
  <2>2. QED
    BY <1>20, <2>1
<1>21. ASSUME NEW p \in Session, WriteVerdict(p) PROVE RequestsFit'
  BY <1>21 DEF WriteVerdict
<1>22. ASSUME NEW p \in Session, Stops(p) PROVE RequestsFit'
  BY <1>22 DEF Stops
<1>23. ASSUME NEW o \in Order, GatewaySettles(o) PROVE RequestsFit'
  BY <1>23 DEF GatewaySettles
<1>24. ASSUME NEW o \in Order, CallbackKeyExpires(o) PROVE RequestsFit'
  BY <1>24 DEF CallbackKeyExpires
<1>25. CASE UNCHANGED vars
  BY <1>25 DEF vars, storeVars, payVars, history
<1>26. QED
  BY <1>1, <1>2, <1>3, <1>4, <1>5, <1>6, <1>7, <1>8, <1>9, <1>10, <1>11,
     <1>12, <1>13, <1>14, <1>15, <1>16, <1>17, <1>18, <1>19, <1>20, <1>21,
     <1>22, <1>23, <1>24, <1>25 DEF Next, Deposit, Callback, Withdrawal,
     Settlement, Finished

\* An order is created once.
LEMMA OrdersStayFresh ==
  ASSUME Control, [Next]_vars
  PROVE  OrdersAreFresh'
<1> USE DEF Control, TypeOK, RequestsFit, OrdersAreFresh, At, Goto, SetTxn, Others, DepositLabels, payVars, history
<1>1. ASSUME NEW p \in Session, StartDeposit(p) PROVE OrdersAreFresh'
  BY <1>1, PaymentAssumption DEF StartDeposit, Begin
<1>2. ASSUME NEW p \in Session, CreatePendingTransaction(p) PROVE OrdersAreFresh'
  BY <1>2, PaymentAssumption DEF CreatePendingTransaction
<1>3. ASSUME NEW p \in Session, CreateInquiry(p) PROVE OrdersAreFresh'
  BY <1>3, PaymentAssumption DEF CreateInquiry
<1>4. ASSUME NEW p \in Session, InquiryRefused(p) PROVE OrdersAreFresh'
  BY <1>4, PaymentAssumption DEF InquiryRefused
<1>5. ASSUME NEW p \in Session, StorePayment(p) PROVE OrdersAreFresh'
  BY <1>5, PaymentAssumption DEF StorePayment
<1>6. ASSUME NEW p \in Session, StartCallback(p) PROVE OrdersAreFresh'
  BY <1>6, PaymentAssumption DEF StartCallback, Begin, Reportable
<1>7. ASSUME NEW p \in Session, CheckDuplicate(p) PROVE OrdersAreFresh'
  BY <1>7, PaymentAssumption DEF CheckDuplicate
<1>8. ASSUME NEW p \in Session, MarkCallback(p) PROVE OrdersAreFresh'
  BY <1>8, PaymentAssumption DEF MarkCallback
<1>9. ASSUME NEW p \in Session, GetPayment(p) PROVE OrdersAreFresh'
  BY <1>9, PaymentAssumption DEF GetPayment, AfterGet
<1>10. ASSUME NEW p \in Session, UpdatePayment(p) PROVE OrdersAreFresh'
  <2>0. (At(p, "cb_pay") \/ At(p, "cb_fail")) /\ UNCHANGED <<item, txn, gateway>>
    BY <1>10 DEF UpdatePayment
  <2>1. item[p] \in Order /\ payment[item[p]] # "none" /\ UNCHANGED <<item, txn, gateway>>
    BY <2>0 DEF CallbackLabels
  <2>2. /\ payment' \in [Order -> Statuses]
        /\ \A o \in Order : payment'[o] = "none" <=> payment[o] = "none"
    BY <1>10, <2>1 DEF UpdatePayment, Statuses
  <2>3. \A q \in Session : pc'[q] = pc[q] \/ pc'[q] \in {"cb_txn", "cb_failtxn"}
    BY <1>10 DEF UpdatePayment
  <2>4. QED
    BY <2>1, <2>2, <2>3 DEF CallbackLabels
<1>11. ASSUME NEW p \in Session, UpdateTransaction(p) PROVE OrdersAreFresh'
  BY <1>11, PaymentAssumption DEF UpdateTransaction
<1>12. ASSUME NEW p \in Session, GetTransaction(p) PROVE OrdersAreFresh'
  BY <1>12, PaymentAssumption DEF GetTransaction
<1>13. ASSUME NEW p \in Session, CreditDeposit(p) PROVE OrdersAreFresh'
  BY <1>13, PaymentAssumption DEF CreditDeposit
<1>14. ASSUME NEW p \in Session, StartWithdrawal(p) PROVE OrdersAreFresh'
  BY <1>14, PaymentAssumption DEF StartWithdrawal, Begin
<1>15. ASSUME NEW p \in Session, FreezeForWithdrawal(p) PROVE OrdersAreFresh'
  <2>1. pc[p] = "wd_freeze" /\ UNCHANGED <<item, payment, txn, gateway>> /\ \E l \in {"wd_create", "failed"} : Goto(p, l)
    BY <1>15 DEF FreezeForWithdrawal
  <2>2. QED
    BY <1>15, <2>1
<1>16. ASSUME NEW p \in Session, CreateWithdrawal(p) PROVE OrdersAreFresh'
  BY <1>16, PaymentAssumption DEF CreateWithdrawal
<1>17. ASSUME NEW p \in Session, UndoFreeze(p) PROVE OrdersAreFresh'
  BY <1>17, PaymentAssumption DEF UndoFreeze
<1>18. ASSUME NEW p \in Session, StartSettlement(p) PROVE OrdersAreFresh'
  BY <1>18, PaymentAssumption DEF StartSettlement, Begin
<1>19. ASSUME NEW p \in Session, GetPending(p) PROVE OrdersAreFresh'
  BY <1>19, PaymentAssumption DEF GetPending
<1>20. ASSUME NEW p \in Session, ReleaseFrozen(p) PROVE OrdersAreFresh'
  <2>1. pc[p] = "st_unfreeze" /\ UNCHANGED <<item, payment, txn, gateway>> /\ \E l \in {"st_status", "failed"} : Goto(p, l)
    BY <1>20 DEF ReleaseFrozen
  <2>2. QED
    BY <1>20, <2>1
<1>21. ASSUME NEW p \in Session, WriteVerdict(p) PROVE OrdersAreFresh'
  <2>1. item[p] \in Payout /\ code[p] \in Verdicts
    BY <1>21 DEF WriteVerdict, SettlementLabels
  <2>2. QED
    BY <1>21, <2>1, PaymentAssumption DEF WriteVerdict, Verdicts
<1>22. ASSUME NEW p \in Session, Stops(p) PROVE OrdersAreFresh'
  BY <1>22, PaymentAssumption DEF Stops
<1>23. ASSUME NEW o \in Order, GatewaySettles(o) PROVE OrdersAreFresh'
  BY <1>23, PaymentAssumption DEF GatewaySettles
<1>24. ASSUME NEW o \in Order, CallbackKeyExpires(o) PROVE OrdersAreFresh'
  BY <1>24, PaymentAssumption DEF CallbackKeyExpires
<1>25. CASE UNCHANGED vars
  BY <1>25, PaymentAssumption DEF vars, storeVars, payVars, history
<1>26. QED
  BY <1>1, <1>2, <1>3, <1>4, <1>5, <1>6, <1>7, <1>8, <1>9, <1>10, <1>11,
     <1>12, <1>13, <1>14, <1>15, <1>16, <1>17, <1>18, <1>19, <1>20, <1>21,
     <1>22, <1>23, <1>24, <1>25 DEF Next, Deposit, Callback, Withdrawal,
     Settlement, Finished

\* Only a paid order is credited.
LEMMA CreditsStayPaid ==
  ASSUME Control, [Next]_vars
  PROVE  CreditsArePaid'
<1> USE DEF Control, TypeOK, RequestsFit, OrdersAreFresh, CreditsArePaid, CreditedWasPaid, At, Goto, DepositLabels, CreditingLabels, payVars, history
<1>1. ASSUME NEW p \in Session, StartDeposit(p) PROVE CreditsArePaid'
  BY <1>1 DEF StartDeposit, Begin
<1>2. ASSUME NEW p \in Session, CreatePendingTransaction(p) PROVE CreditsArePaid'
  BY <1>2 DEF CreatePendingTransaction
<1>3. ASSUME NEW p \in Session, CreateInquiry(p) PROVE CreditsArePaid'
  <2>1. /\ item[p] \in Order /\ gateway[item[p]] = "unknown" /\ UNCHANGED <<item, code, credited>>
        /\ gateway' \in {gateway, [gateway EXCEPT ![item[p]] = "open"]}
        /\ \E l \in {"dep_store", "dep_refused"} : Goto(p, l)
    BY <1>3 DEF CreateInquiry
  <2>2. CASE UNCHANGED gateway
    BY <2>1, <2>2
  <2>3. CASE gateway' = [gateway EXCEPT ![item[p]] = "open"]
    <3>1. \A q \in Session : item[q] \in Order /\ gateway[item[q]] = "paid" => gateway'[item'[q]] = "paid"
      BY <2>1, <2>3
    <3>2. CreditedWasPaid'
      BY <2>1, <2>3
    <3>3. \A q \in Session : pc'[q] \in CallbackLabels => pc'[q] = pc[q] /\ item[q] \in Order
      BY <2>1 DEF CallbackLabels
    <3>4. QED
      BY <2>1, <3>1, <3>2, <3>3 DEF CallbackLabels
  <2>4. QED
    BY <2>1, <2>2, <2>3 DEF CallbackLabels
<1>4. ASSUME NEW p \in Session, InquiryRefused(p) PROVE CreditsArePaid'
  BY <1>4 DEF InquiryRefused
<1>5. ASSUME NEW p \in Session, StorePayment(p) PROVE CreditsArePaid'
  BY <1>5 DEF StorePayment
<1>6. ASSUME NEW p \in Session, StartCallback(p) PROVE CreditsArePaid'
  BY <1>6 DEF StartCallback, Begin, Reportable
<1>7. ASSUME NEW p \in Session, CheckDuplicate(p) PROVE CreditsArePaid'
  BY <1>7 DEF CheckDuplicate
<1>8. ASSUME NEW p \in Session, MarkCallback(p) PROVE CreditsArePaid'
  BY <1>8 DEF MarkCallback
<1>9. ASSUME NEW p \in Session, GetPayment(p) PROVE CreditsArePaid'
  BY <1>9 DEF GetPayment, AfterGet
<1>10. ASSUME NEW p \in Session, UpdatePayment(p) PROVE CreditsArePaid'
  BY <1>10 DEF UpdatePayment
<1>11. ASSUME NEW p \in Session, UpdateTransaction(p) PROVE CreditsArePaid'
  BY <1>11 DEF UpdateTransaction
<1>12. ASSUME NEW p \in Session, GetTransaction(p) PROVE CreditsArePaid'
  BY <1>12 DEF GetTransaction
<1>13. ASSUME NEW p \in Session, CreditDeposit(p) PROVE CreditsArePaid'
  BY <1>13 DEF CreditDeposit
<1>14. ASSUME NEW p \in Session, StartWithdrawal(p) PROVE CreditsArePaid'
  BY <1>14 DEF StartWithdrawal, Begin
<1>15. ASSUME NEW p \in Session, FreezeForWithdrawal(p) PROVE CreditsArePaid'
  <2>1. /\ pc[p] = "wd_freeze" /\ UNCHANGED <<item, txn, code, overlap, credited, payment, gateway>>
        /\ \E l \in {"wd_create", "failed"} : Goto(p, l)
    BY <1>15 DEF FreezeForWithdrawal, payVars, history
  <2>2. QED
    BY <1>15, <2>1
<1>16. ASSUME NEW p \in Session, CreateWithdrawal(p) PROVE CreditsArePaid'
  BY <1>16 DEF CreateWithdrawal
<1>17. ASSUME NEW p \in Session, UndoFreeze(p) PROVE CreditsArePaid'
  BY <1>17 DEF UndoFreeze
<1>18. ASSUME NEW p \in Session, StartSettlement(p) PROVE CreditsArePaid'
  BY <1>18 DEF StartSettlement, Begin
<1>19. ASSUME NEW p \in Session, GetPending(p) PROVE CreditsArePaid'
  BY <1>19 DEF GetPending
<1>20. ASSUME NEW p \in Session, ReleaseFrozen(p) PROVE CreditsArePaid'
  <2>1. /\ pc[p] = "st_unfreeze" /\ UNCHANGED <<item, txn, code, overlap, credited, payment, gateway>>
        /\ \E l \in {"st_status", "failed"} : Goto(p, l)
    BY <1>20 DEF ReleaseFrozen, payVars, history
  <2>2. QED
    BY <1>20, <2>1
<1>21. ASSUME NEW p \in Session, WriteVerdict(p) PROVE CreditsArePaid'
  BY <1>21 DEF WriteVerdict
<1>22. ASSUME NEW p \in Session, Stops(p) PROVE CreditsArePaid'
  BY <1>22 DEF Stops
<1>23. ASSUME NEW o \in Order, GatewaySettles(o) PROVE CreditsArePaid'
  BY <1>23 DEF GatewaySettles
<1>24. ASSUME NEW o \in Order, CallbackKeyExpires(o) PROVE CreditsArePaid'
  BY <1>24 DEF CallbackKeyExpires
<1>25. CASE UNCHANGED vars
  BY <1>25 DEF vars, storeVars, payVars, history
<1>26. QED
  BY <1>1, <1>2, <1>3, <1>4, <1>5, <1>6, <1>7, <1>8, <1>9, <1>10, <1>11,
     <1>12, <1>13, <1>14, <1>15, <1>16, <1>17, <1>18, <1>19, <1>20, <1>21,
     <1>22, <1>23, <1>24, <1>25 DEF Next, Deposit, Callback, Withdrawal,
     Settlement, Finished

\* One callback credits an order.
LEMMA CreditsStaySingle ==
  ASSUME Control, [Next]_vars
  PROVE  CreditsAreSingle'
<1> USE DEF Control, TypeOK, RequestsFit, OrdersAreFresh, CreditsAreSingle, At, Goto, Others, DepositLabels, CreditingLabels, payVars, history
<1>1. ASSUME NEW p \in Session, StartDeposit(p) PROVE CreditsAreSingle'
  BY <1>1 DEF StartDeposit, Begin
<1>2. ASSUME NEW p \in Session, CreatePendingTransaction(p) PROVE CreditsAreSingle'
  BY <1>2 DEF CreatePendingTransaction
<1>3. ASSUME NEW p \in Session, CreateInquiry(p) PROVE CreditsAreSingle'
  BY <1>3 DEF CreateInquiry
<1>4. ASSUME NEW p \in Session, InquiryRefused(p) PROVE CreditsAreSingle'
  BY <1>4 DEF InquiryRefused
<1>5. ASSUME NEW p \in Session, StorePayment(p) PROVE CreditsAreSingle'
  BY <1>5 DEF StorePayment
<1>6. ASSUME NEW p \in Session, StartCallback(p) PROVE CreditsAreSingle'
  BY <1>6 DEF StartCallback, Begin, Reportable
<1>7. ASSUME NEW p \in Session, CheckDuplicate(p) PROVE CreditsAreSingle'
  BY <1>7 DEF CheckDuplicate
<1>8. ASSUME NEW p \in Session, MarkCallback(p) PROVE CreditsAreSingle'
  BY <1>8 DEF MarkCallback
<1>9. ASSUME NEW p \in Session, GetPayment(p) PROVE CreditsAreSingle'
  BY <1>9 DEF GetPayment, AfterGet
<1>10. ASSUME NEW p \in Session, UpdatePayment(p) PROVE CreditsAreSingle'
  BY <1>10 DEF UpdatePayment
<1>11. ASSUME NEW p \in Session, UpdateTransaction(p) PROVE CreditsAreSingle'
  BY <1>11 DEF UpdateTransaction
<1>12. ASSUME NEW p \in Session, GetTransaction(p) PROVE CreditsAreSingle'
  BY <1>12 DEF GetTransaction
<1>13. ASSUME NEW p \in Session, CreditDeposit(p) PROVE CreditsAreSingle'
  BY <1>13 DEF CreditDeposit
<1>14. ASSUME NEW p \in Session, StartWithdrawal(p) PROVE CreditsAreSingle'
  BY <1>14 DEF StartWithdrawal, Begin
<1>15. ASSUME NEW p \in Session, FreezeForWithdrawal(p) PROVE CreditsAreSingle'
  <2>1. pc[p] = "wd_freeze" /\ UNCHANGED <<item, payment, credited, overlap>> /\ \E l \in {"wd_create", "failed"} : Goto(p, l)
    BY <1>15 DEF FreezeForWithdrawal
  <2>2. QED
    BY <1>15, <2>1
<1>16. ASSUME NEW p \in Session, CreateWithdrawal(p) PROVE CreditsAreSingle'
  BY <1>16 DEF CreateWithdrawal
<1>17. ASSUME NEW p \in Session, UndoFreeze(p) PROVE CreditsAreSingle'
  BY <1>17 DEF UndoFreeze
<1>18. ASSUME NEW p \in Session, StartSettlement(p) PROVE CreditsAreSingle'
  BY <1>18 DEF StartSettlement, Begin
<1>19. ASSUME NEW p \in Session, GetPending(p) PROVE CreditsAreSingle'
  BY <1>19 DEF GetPending
<1>20. ASSUME NEW p \in Session, ReleaseFrozen(p) PROVE CreditsAreSingle'
  <2>1. pc[p] = "st_unfreeze" /\ UNCHANGED <<item, payment, credited, overlap>> /\ \E l \in {"st_status", "failed"} : Goto(p, l)
    BY <1>20 DEF ReleaseFrozen
  <2>2. QED
    BY <1>20, <2>1
<1>21. ASSUME NEW p \in Session, WriteVerdict(p) PROVE CreditsAreSingle'
  BY <1>21 DEF WriteVerdict
<1>22. ASSUME NEW p \in Session, Stops(p) PROVE CreditsAreSingle'
  BY <1>22 DEF Stops
<1>23. ASSUME NEW o \in Order, GatewaySettles(o) PROVE CreditsAreSingle'
  BY <1>23 DEF GatewaySettles
<1>24. ASSUME NEW o \in Order, CallbackKeyExpires(o) PROVE CreditsAreSingle'
  BY <1>24 DEF CallbackKeyExpires
<1>25. CASE UNCHANGED vars
  BY <1>25 DEF vars, storeVars, payVars, history
<1>26. QED
  BY <1>1, <1>2, <1>3, <1>4, <1>5, <1>6, <1>7, <1>8, <1>9, <1>10, <1>11,
     <1>12, <1>13, <1>14, <1>15, <1>16, <1>17, <1>18, <1>19, <1>20, <1>21,
     <1>22, <1>23, <1>24, <1>25 DEF Next, Deposit, Callback, Withdrawal,
     Settlement, Finished

\* A payout is requested once.
LEMMA PayoutsStaySingle ==
  ASSUME Control, [Next]_vars
  PROVE  PayoutsAreSingle'
<1> USE DEF Control, TypeOK, RequestsFit, PayoutsAreSingle, At, Goto, SetTxn, Others, WithdrawalLabels, SettlementLabels, payVars, history
<1>1. ASSUME NEW p \in Session, StartDeposit(p) PROVE PayoutsAreSingle'
  BY <1>1 DEF StartDeposit, Begin
<1>2. ASSUME NEW p \in Session, CreatePendingTransaction(p) PROVE PayoutsAreSingle'
  BY <1>2, PaymentAssumption DEF CreatePendingTransaction, DepositLabels, CallbackLabels
<1>3. ASSUME NEW p \in Session, CreateInquiry(p) PROVE PayoutsAreSingle'
  BY <1>3 DEF CreateInquiry
<1>4. ASSUME NEW p \in Session, InquiryRefused(p) PROVE PayoutsAreSingle'
  BY <1>4, PaymentAssumption DEF InquiryRefused, DepositLabels, CallbackLabels
<1>5. ASSUME NEW p \in Session, StorePayment(p) PROVE PayoutsAreSingle'
  BY <1>5 DEF StorePayment
<1>6. ASSUME NEW p \in Session, StartCallback(p) PROVE PayoutsAreSingle'
  BY <1>6 DEF StartCallback, Begin, Reportable
<1>7. ASSUME NEW p \in Session, CheckDuplicate(p) PROVE PayoutsAreSingle'
  BY <1>7 DEF CheckDuplicate
<1>8. ASSUME NEW p \in Session, MarkCallback(p) PROVE PayoutsAreSingle'
  BY <1>8 DEF MarkCallback
<1>9. ASSUME NEW p \in Session, GetPayment(p) PROVE PayoutsAreSingle'
  BY <1>9 DEF GetPayment, AfterGet
<1>10. ASSUME NEW p \in Session, UpdatePayment(p) PROVE PayoutsAreSingle'
  BY <1>10 DEF UpdatePayment
<1>11. ASSUME NEW p \in Session, UpdateTransaction(p) PROVE PayoutsAreSingle'
  <2>1. /\ item[p] \in Order /\ UNCHANGED <<item, overlap>>
        /\ \A x \in Payout : txn'[x] = txn[x]
        /\ \E l \in {"cb_user", "done"} : Goto(p, l)
    BY <1>11, PaymentAssumption DEF UpdateTransaction, CallbackLabels
  <2>2. QED
    BY <2>1
<1>12. ASSUME NEW p \in Session, GetTransaction(p) PROVE PayoutsAreSingle'
  BY <1>12 DEF GetTransaction
<1>13. ASSUME NEW p \in Session, CreditDeposit(p) PROVE PayoutsAreSingle'
  BY <1>13 DEF CreditDeposit
<1>14. ASSUME NEW p \in Session, StartWithdrawal(p) PROVE PayoutsAreSingle'
  BY <1>14 DEF StartWithdrawal, Begin
<1>15. ASSUME NEW p \in Session, FreezeForWithdrawal(p) PROVE PayoutsAreSingle'
  <2>1. pc[p] = "wd_freeze" /\ UNCHANGED <<item, txn, overlap>> /\ \E l \in {"wd_create", "failed"} : Goto(p, l)
    BY <1>15 DEF FreezeForWithdrawal
  <2>2. QED
    BY <1>15, <2>1
<1>16. ASSUME NEW p \in Session, CreateWithdrawal(p) PROVE PayoutsAreSingle'
  BY <1>16 DEF CreateWithdrawal
<1>17. ASSUME NEW p \in Session, UndoFreeze(p) PROVE PayoutsAreSingle'
  BY <1>17 DEF UndoFreeze
<1>18. ASSUME NEW p \in Session, StartSettlement(p) PROVE PayoutsAreSingle'
  BY <1>18 DEF StartSettlement, Begin
<1>19. ASSUME NEW p \in Session, GetPending(p) PROVE PayoutsAreSingle'
  BY <1>19 DEF GetPending
<1>20. ASSUME NEW p \in Session, ReleaseFrozen(p) PROVE PayoutsAreSingle'
  <2>1. pc[p] = "st_unfreeze" /\ UNCHANGED <<item, txn, overlap>> /\ \E l \in {"st_status", "failed"} : Goto(p, l)
    BY <1>20 DEF ReleaseFrozen
  <2>2. QED
    BY <1>20, <2>1
<1>21. ASSUME NEW p \in Session, WriteVerdict(p) PROVE PayoutsAreSingle'
  <2>1. item[p] \in Payout /\ code[p] \in Verdicts
    BY <1>21 DEF WriteVerdict
  <2>2. QED
    BY <1>21, <2>1 DEF WriteVerdict, Verdicts
<1>22. ASSUME NEW p \in Session, Stops(p) PROVE PayoutsAreSingle'
  BY <1>22 DEF Stops
<1>23. ASSUME NEW o \in Order, GatewaySettles(o) PROVE PayoutsAreSingle'
  BY <1>23 DEF GatewaySettles
<1>24. ASSUME NEW o \in Order, CallbackKeyExpires(o) PROVE PayoutsAreSingle'
  BY <1>24 DEF CallbackKeyExpires
<1>25. CASE UNCHANGED vars
  BY <1>25 DEF vars, storeVars, payVars, history
<1>26. QED
  BY <1>1, <1>2, <1>3, <1>4, <1>5, <1>6, <1>7, <1>8, <1>9, <1>10, <1>11,
     <1>12, <1>13, <1>14, <1>15, <1>16, <1>17, <1>18, <1>19, <1>20, <1>21,
     <1>22, <1>23, <1>24, <1>25 DEF Next, Deposit, Callback, Withdrawal,
     Settlement, Finished

\* The types, and that no transaction is open.
LEMMA TypesStayCorrect ==
  ASSUME Control, [Next]_vars
  PROVE  (TypeOK /\ TableIsQuiet)'
<1> USE DEF Control, TypeOK, RequestsFit, At, Goto, SetTxn, Labels, Idle, Statuses, Verdicts, CallbackCodes, payVars, history, storeVars, StoreTypeOK, TableIsQuiet
<1>1. ASSUME NEW p \in Session, StartDeposit(p) PROVE (TypeOK /\ TableIsQuiet)'
  BY <1>1 DEF StartDeposit, Begin
<1>2. ASSUME NEW p \in Session, CreatePendingTransaction(p) PROVE (TypeOK /\ TableIsQuiet)'
  BY <1>2 DEF CreatePendingTransaction
<1>3. ASSUME NEW p \in Session, CreateInquiry(p) PROVE (TypeOK /\ TableIsQuiet)'
  BY <1>3 DEF CreateInquiry
<1>4. ASSUME NEW p \in Session, InquiryRefused(p) PROVE (TypeOK /\ TableIsQuiet)'
  BY <1>4 DEF InquiryRefused
<1>5. ASSUME NEW p \in Session, StorePayment(p) PROVE (TypeOK /\ TableIsQuiet)'
  BY <1>5 DEF StorePayment
<1>6. ASSUME NEW p \in Session, StartCallback(p) PROVE (TypeOK /\ TableIsQuiet)'
  BY <1>6 DEF StartCallback, Begin, Reportable
<1>7. ASSUME NEW p \in Session, CheckDuplicate(p) PROVE (TypeOK /\ TableIsQuiet)'
  BY <1>7 DEF CheckDuplicate
<1>8. ASSUME NEW p \in Session, MarkCallback(p) PROVE (TypeOK /\ TableIsQuiet)'
  <2>1. item[p] \in Order
    BY <1>8 DEF MarkCallback, CallbackLabels
  <2>2. QED
    BY <1>8, <2>1 DEF MarkCallback
<1>9. ASSUME NEW p \in Session, GetPayment(p) PROVE (TypeOK /\ TableIsQuiet)'
  BY <1>9 DEF GetPayment, AfterGet
<1>10. ASSUME NEW p \in Session, UpdatePayment(p) PROVE (TypeOK /\ TableIsQuiet)'
  BY <1>10 DEF UpdatePayment
<1>11. ASSUME NEW p \in Session, UpdateTransaction(p) PROVE (TypeOK /\ TableIsQuiet)'
  BY <1>11 DEF UpdateTransaction
<1>12. ASSUME NEW p \in Session, GetTransaction(p) PROVE (TypeOK /\ TableIsQuiet)'
  BY <1>12 DEF GetTransaction
<1>13. ASSUME NEW p \in Session, CreditDeposit(p) PROVE (TypeOK /\ TableIsQuiet)'
  <2>1. item[p] \in Order
    BY <1>13 DEF CreditDeposit, CallbackLabels
  <2>2. StatementAssumption(p, Owner[item[p]], Amount[item[p]])
    BY <2>1, AmountsAreNatural DEF StatementAssumption
  <2>3. (StoreTypeOK /\ TableIsQuiet)'
    BY <1>13, <2>2, CreditTakesEffect DEF CreditDeposit
  <2>4. QED
    BY <1>13, <2>1, <2>3 DEF CreditDeposit
<1>14. ASSUME NEW p \in Session, StartWithdrawal(p) PROVE (TypeOK /\ TableIsQuiet)'
  BY <1>14 DEF StartWithdrawal, Begin
<1>15. ASSUME NEW p \in Session, FreezeForWithdrawal(p) PROVE (TypeOK /\ TableIsQuiet)'
  <2>1. item[p] \in Payout
    BY <1>15 DEF FreezeForWithdrawal, WithdrawalLabels
  <2>2. StatementAssumption(p, Owner[item[p]], Total(item[p]))
    BY <2>1, AmountsAreNatural DEF StatementAssumption
  <2>3. (StoreTypeOK /\ TableIsQuiet)'
    BY <1>15, <2>2, FreezeTakesEffect DEF FreezeForWithdrawal, Freezes
  <2>4. QED
    BY <1>15, <2>3 DEF FreezeForWithdrawal
<1>16. ASSUME NEW p \in Session, CreateWithdrawal(p) PROVE (TypeOK /\ TableIsQuiet)'
  BY <1>16 DEF CreateWithdrawal
<1>17. ASSUME NEW p \in Session, UndoFreeze(p) PROVE (TypeOK /\ TableIsQuiet)'
  <2>1. item[p] \in Payout
    BY <1>17 DEF UndoFreeze, WithdrawalLabels
  <2>2. StatementAssumption(p, Owner[item[p]], Total(item[p]))
    BY <2>1, AmountsAreNatural DEF StatementAssumption
  <2>3. (StoreTypeOK /\ TableIsQuiet)'
    BY <1>17, <2>2, UnfreezeTakesEffect DEF UndoFreeze, Unfreezes
  <2>4. QED
    BY <1>17, <2>3 DEF UndoFreeze
<1>18. ASSUME NEW p \in Session, StartSettlement(p) PROVE (TypeOK /\ TableIsQuiet)'
  BY <1>18 DEF StartSettlement, Begin
<1>19. ASSUME NEW p \in Session, GetPending(p) PROVE (TypeOK /\ TableIsQuiet)'
  BY <1>19 DEF GetPending
<1>20. ASSUME NEW p \in Session, ReleaseFrozen(p) PROVE (TypeOK /\ TableIsQuiet)'
  <2>1. item[p] \in Payout
    BY <1>20 DEF ReleaseFrozen, SettlementLabels
  <2>2. StatementAssumption(p, Owner[item[p]], Total(item[p]))
    BY <2>1, AmountsAreNatural DEF StatementAssumption
  <2>3. (StoreTypeOK /\ TableIsQuiet)'
    BY <1>20, <2>2, UnfreezeTakesEffect DEF ReleaseFrozen, Unfreezes
  <2>4. /\ UNCHANGED <<item, code, payVars, credited, overlap>>
        /\ pc' \in [Session -> Labels]
    BY <1>20 DEF ReleaseFrozen
  <2>5. \/ UNCHANGED released
        \/ released' = [released EXCEPT ![item[p]] = @ + 1]
    BY <1>20 DEF ReleaseFrozen
  <2>6. released' \in [Payout -> Nat]
    BY <2>1, <2>5
  <2>7. QED
    BY <2>3, <2>4, <2>6
<1>21. ASSUME NEW p \in Session, WriteVerdict(p) PROVE (TypeOK /\ TableIsQuiet)'
  BY <1>21 DEF WriteVerdict, SettlementLabels
<1>22. ASSUME NEW p \in Session, Stops(p) PROVE (TypeOK /\ TableIsQuiet)'
  BY <1>22 DEF Stops
<1>23. ASSUME NEW o \in Order, GatewaySettles(o) PROVE (TypeOK /\ TableIsQuiet)'
  BY <1>23 DEF GatewaySettles
<1>24. ASSUME NEW o \in Order, CallbackKeyExpires(o) PROVE (TypeOK /\ TableIsQuiet)'
  BY <1>24 DEF CallbackKeyExpires
<1>25. CASE UNCHANGED vars
  BY <1>25 DEF vars, storeVars, payVars, history
<1>26. QED
  BY <1>1, <1>2, <1>3, <1>4, <1>5, <1>6, <1>7, <1>8, <1>9, <1>10, <1>11,
     <1>12, <1>13, <1>14, <1>15, <1>16, <1>17, <1>18, <1>19, <1>20, <1>21,
     <1>22, <1>23, <1>24, <1>25 DEF Next, Deposit, Callback, Withdrawal,
     Settlement, Finished

-----------------------------------------------------------------------------
(***************************************************************************)
(* The money of a user: her balances add up to what she opened with and    *)
(* what was credited, since the sum of her credited orders grows with her  *)
(* row.                                                                    *)
(***************************************************************************)
Credit == [o \in Order |-> credited[o] * Amount[o]]

\* The orders and the payouts of a user are finitely many.
LEMMA OwnedIsFinite ==
  ASSUME NEW u
  PROVE  /\ IsFiniteSet(OwnedBy(u, Order)) /\ OwnedBy(u, Order) \subseteq Order
         /\ IsFiniteSet(OwnedBy(u, Payout)) /\ OwnedBy(u, Payout) \subseteq Payout
BY PaymentAssumption, FS_Subset DEF OwnedBy

\* What an order has been credited is a natural number.
LEMMA CreditIsNatural ==
  ASSUME NEW c \in [Order -> Nat], NEW o \in Order
  PROVE  c[o] * Amount[o] \in Nat
<1>1. c[o] \in Nat /\ Amount[o] \in Nat
  BY AmountsAreNatural
<1>2. QED
  BY <1>1, OneMoreTime

\* One more credit of an order adds its amount to what its owner was credited.
LEMMA OneMoreCredit ==
  ASSUME TypeOK, TypeOK', NEW o \in Order, credited' = [credited EXCEPT ![o] = @ + 1], NEW u
  PROVE  Credits(u)' = IF Owner[o] = u THEN Credits(u) + Amount[o] ELSE Credits(u)
<1> DEFINE S == OwnedBy(u, Order)
           g == Credit'
<1>1. IsFiniteSet(S) /\ S \subseteq Order /\ (o \in S <=> Owner[o] = u)
  BY OwnedIsFinite DEF OwnedBy
<1>2. Integral(Credit, S) /\ Integral(g, S)
  BY <1>1, CreditIsNatural DEF Integral, Credit, TypeOK
<1>3. \A i \in S \ {o} : Credit[i] = g[i]
  BY <1>1 DEF Credit, TypeOK
<1>4. g[o] - Credit[o] = Amount[o] /\ Credit[o] \in Nat /\ g[o] \in Nat
  <2>1. credited[o] \in Nat /\ Amount[o] \in Nat /\ credited'[o] = credited[o] + 1
    BY AmountsAreNatural DEF TypeOK
  <2>2. (credited[o] + 1) * Amount[o] = credited[o] * Amount[o] + Amount[o]
    BY <2>1, OneMoreTime
  <2>3. Credit[o] = credited[o] * Amount[o] /\ g[o] = credited'[o] * Amount[o]
    BY DEF Credit
  <2>4. credited[o] * Amount[o] \in Nat
    BY CreditIsNatural DEF TypeOK
  <2>5. QED
    BY <2>1, <2>2, <2>3, <2>4
<1>5. Credits(u) = SumFunctionOnSet(Credit, S) /\ Credits(u)' = SumFunctionOnSet(g, S)
  BY DEF Credits, Credit
<1>6. SumFunctionOnSet(Credit, S) \in Int
  BY <1>1, <1>2, SumIsInteger
<1> HIDE DEF g, S
<1>7. SumFunctionOnSet(g, S) = IF o \in S THEN SumFunctionOnSet(Credit, S) + g[o] - Credit[o]
                                          ELSE SumFunctionOnSet(Credit, S)
  BY <1>1, <1>2, <1>3, SumChange
<1>8. Amount[o] \in Nat
  BY AmountsAreNatural
<1>9. QED
  BY <1>1, <1>4, <1>5, <1>6, <1>7, <1>8

\* At the start nobody has been credited anything.
LEMMA NothingIsCredited ==
  ASSUME credited = [o \in Order |-> 0]
  PROVE  \A S \in SUBSET Order : SumFunctionOnSet(Credit, S) = 0
<1> SUFFICES ASSUME NEW S \in SUBSET Order PROVE SumFunctionOnSet(Credit, S) = 0
  OBVIOUS
<1>1. \A o \in Order : Credit[o] = 0
  <2>1. \A o \in Order : credited[o] = 0 /\ Amount[o] \in Nat
    BY AmountsAreNatural
  <2>2. \A n \in Nat : 0 * n = 0
    OBVIOUS
  <2>3. QED
    BY <2>1, <2>2 DEF Credit
<1>2. IsFiniteSet(S)
  BY PaymentAssumption, FS_Subset
<1>3. QED
  BY <1>1, <1>2, ZeroSum

\* What a user has been credited is a number.
LEMMA CreditsAreIntegers ==
  ASSUME TypeOK, NEW u
  PROVE  Credits(u) \in Int
<1>1. Integral(Credit, OwnedBy(u, Order))
  BY OwnedIsFinite, CreditIsNatural DEF Integral, Credit, TypeOK
<1>2. QED
  BY <1>1, OwnedIsFinite, SumIsInteger DEF Credits, Credit

\* No step makes or loses money but the credit of a deposit: first the wallets.
LEMMA WalletsAreNumbers ==
  ASSUME StoreTypeOK, TableIsQuiet
  PROVE  \A u \in User : /\ row[u] \in Wallet /\ row[u].bal \in Nat /\ row[u].frz \in Nat
                         /\ Opening[u].bal \in Nat /\ Opening[u].frz \in Nat
BY PaymentAssumption DEF TableIsQuiet, Wallet

\* A credit adds the amount to what the user has, and leaves her frozen balance.
LEMMA CreditMovesMoney ==
  ASSUME NEW p, NEW u, NEW a, StatementAssumption(p, u, a), CreditOrOpen(p, u, a, FALSE)
  PROVE  \A v \in User :
           /\ row'[v].frz = row[v].frz
           /\ row'[v].bal + row'[v].frz = row[v].bal + row[v].frz + (IF v = u THEN a ELSE 0)
<1>1. row' = [row EXCEPT ![u] = [bal |-> row[u].bal + a, frz |-> row[u].frz]]
  BY CreditTakesEffect
<1>2. QED
  BY <1>1, WalletsAreNumbers DEF StatementAssumption, TableIsQuiet

\* A freeze leaves what every user has in all as it is.
LEMMA FreezeMovesMoney ==
  ASSUME NEW p, NEW u, NEW a, StatementAssumption(p, u, a), Freezes(p, u, a)
  PROVE  /\ \A v \in User : row'[v].bal + row'[v].frz = row[v].bal + row[v].frz
         /\ \A v \in User \ {u} : row'[v].frz = row[v].frz
         /\ row'[u].frz = row[u].frz + a
<1>1. row' = [row EXCEPT ![u] = [bal |-> row[u].bal - a, frz |-> row[u].frz + a]]
  BY FreezeTakesEffect
<1>2. /\ row'[u].bal = row[u].bal - a /\ row'[u].frz = row[u].frz + a
      /\ \A v \in User \ {u} : row'[v] = row[v]
  BY <1>1 DEF StatementAssumption, TableIsQuiet
<1>3. \A v \in User : row[v].bal \in Nat /\ row[v].frz \in Nat
  BY WalletsAreNumbers DEF StatementAssumption
<1>4. u \in User /\ a \in Nat
  BY DEF StatementAssumption
<1>5. row'[u].bal + row'[u].frz = row[u].bal + row[u].frz
  BY <1>2, <1>3, <1>4
<1>6. QED
  BY <1>2, <1>5

\* An unfreeze leaves what every user has in all as it is.
LEMMA UnfreezeMovesMoney ==
  ASSUME NEW p, NEW u, NEW a, StatementAssumption(p, u, a), Unfreezes(p, u, a)
  PROVE  /\ \A v \in User : row'[v].bal + row'[v].frz = row[v].bal + row[v].frz
         /\ \A v \in User \ {u} : row'[v].frz = row[v].frz
         /\ row'[u].frz = row[u].frz - a
<1>1. row' = [row EXCEPT ![u] = [bal |-> row[u].bal + a, frz |-> row[u].frz - a]]
  BY UnfreezeTakesEffect
<1>2. /\ row'[u].bal = row[u].bal + a /\ row'[u].frz = row[u].frz - a
      /\ \A v \in User \ {u} : row'[v] = row[v]
  BY <1>1 DEF StatementAssumption, TableIsQuiet
<1>3. \A v \in User : row[v].bal \in Nat /\ row[v].frz \in Nat
  BY WalletsAreNumbers DEF StatementAssumption
<1>4. u \in User /\ a \in Nat
  BY DEF StatementAssumption
<1>5. row'[u].bal + row'[u].frz = row[u].bal + row[u].frz
  BY <1>2, <1>3, <1>4
<1>6. QED
  BY <1>2, <1>5

\* No step makes or loses money but the credit of a deposit.
LEMMA MoneyStaysConserved ==
  ASSUME Control, TypeOK', MoneyConserved, [Next]_vars
  PROVE  MoneyConserved'
<1> USE DEF Control, RequestsFit, MoneyConserved, At, payVars, history, storeVars
<1>1. ASSUME NEW p \in Session, StartDeposit(p) PROVE MoneyConserved'
  BY <1>1 DEF Credits, StartDeposit, Begin
<1>2. ASSUME NEW p \in Session, CreatePendingTransaction(p) PROVE MoneyConserved'
  BY <1>2 DEF CreatePendingTransaction, Credits
<1>3. ASSUME NEW p \in Session, CreateInquiry(p) PROVE MoneyConserved'
  BY <1>3 DEF CreateInquiry, Credits
<1>4. ASSUME NEW p \in Session, InquiryRefused(p) PROVE MoneyConserved'
  BY <1>4 DEF InquiryRefused, Credits
<1>5. ASSUME NEW p \in Session, StorePayment(p) PROVE MoneyConserved'
  BY <1>5 DEF StorePayment, Credits
<1>6. ASSUME NEW p \in Session, StartCallback(p) PROVE MoneyConserved'
  BY <1>6 DEF StartCallback, Begin, Reportable, Credits
<1>7. ASSUME NEW p \in Session, CheckDuplicate(p) PROVE MoneyConserved'
  BY <1>7 DEF CheckDuplicate, Credits
<1>8. ASSUME NEW p \in Session, MarkCallback(p) PROVE MoneyConserved'
  BY <1>8 DEF MarkCallback, Credits
<1>9. ASSUME NEW p \in Session, GetPayment(p) PROVE MoneyConserved'
  BY <1>9 DEF GetPayment, AfterGet, Credits
<1>10. ASSUME NEW p \in Session, UpdatePayment(p) PROVE MoneyConserved'
  BY <1>10 DEF UpdatePayment, Credits
<1>11. ASSUME NEW p \in Session, UpdateTransaction(p) PROVE MoneyConserved'
  BY <1>11 DEF UpdateTransaction, Credits
<1>12. ASSUME NEW p \in Session, GetTransaction(p) PROVE MoneyConserved'
  BY <1>12 DEF GetTransaction, Credits
<1>13. ASSUME NEW p \in Session, CreditDeposit(p) PROVE MoneyConserved'
  <2>1. item[p] \in Order /\ credited' = [credited EXCEPT ![item[p]] = @ + 1]
    BY <1>13 DEF CreditDeposit, CallbackLabels
  <2>2. StatementAssumption(p, Owner[item[p]], Amount[item[p]])
    BY <2>1, AmountsAreNatural DEF StatementAssumption, TypeOK
  <2>3. CreditOrOpen(p, Owner[item[p]], Amount[item[p]], FALSE)
    BY <1>13 DEF CreditDeposit
  <2>4. ASSUME NEW u \in User
        PROVE  row'[u].bal + row'[u].frz =
               row[u].bal + row[u].frz + (IF u = Owner[item[p]] THEN Amount[item[p]] ELSE 0)
    BY <2>2, <2>3, CreditMovesMoney, Zenon
  <2>5. ASSUME NEW u \in User
        PROVE  Credits(u)' = IF Owner[item[p]] = u THEN Credits(u) + Amount[item[p]] ELSE Credits(u)
    BY <2>1, OneMoreCredit
  <2>6. \A u \in User : /\ Credits(u) \in Int /\ row[u].bal \in Nat /\ row[u].frz \in Nat
                        /\ Opening[u].bal \in Nat /\ Opening[u].frz \in Nat
    BY CreditsAreIntegers, WalletsAreNumbers DEF TypeOK
  <2>7. Amount[item[p]] \in Nat
    BY <2>2 DEF StatementAssumption
  <2>8. QED
    BY <2>4, <2>5, <2>6, <2>7
<1>14. ASSUME NEW p \in Session, StartWithdrawal(p) PROVE MoneyConserved'
  BY <1>14 DEF StartWithdrawal, Begin, Credits
<1>15. ASSUME NEW p \in Session, FreezeForWithdrawal(p) PROVE MoneyConserved'
  <2>1. item[p] \in Payout /\ UNCHANGED credited
    BY <1>15 DEF FreezeForWithdrawal, WithdrawalLabels
  <2>2. StatementAssumption(p, Owner[item[p]], Total(item[p]))
    BY <2>1, AmountsAreNatural DEF StatementAssumption, TypeOK
  <2>3. \A u \in User : row'[u].bal + row'[u].frz = row[u].bal + row[u].frz
    <3>1. CASE Freezes(p, Owner[item[p]], Total(item[p]))
      BY <2>2, <3>1, FreezeMovesMoney
    <3>2. CASE UNCHANGED row
      BY <3>2
    <3>3. QED
      BY <1>15, <3>1, <3>2 DEF FreezeForWithdrawal, Freezes
  <2>4. QED
    BY <2>1, <2>3 DEF Credits
<1>16. ASSUME NEW p \in Session, CreateWithdrawal(p) PROVE MoneyConserved'
  BY <1>16 DEF CreateWithdrawal, Credits
<1>17. ASSUME NEW p \in Session, UndoFreeze(p) PROVE MoneyConserved'
  <2>1. item[p] \in Payout /\ UNCHANGED credited
    BY <1>17 DEF UndoFreeze, WithdrawalLabels
  <2>2. StatementAssumption(p, Owner[item[p]], Total(item[p]))
    BY <2>1, AmountsAreNatural DEF StatementAssumption, TypeOK
  <2>3. \A u \in User : row'[u].bal + row'[u].frz = row[u].bal + row[u].frz
    <3>1. CASE Unfreezes(p, Owner[item[p]], Total(item[p]))
      BY <2>2, <3>1, UnfreezeMovesMoney
    <3>2. CASE UNCHANGED row
      BY <3>2
    <3>3. QED
      BY <1>17, <3>1, <3>2 DEF UndoFreeze, Unfreezes
  <2>4. QED
    BY <2>1, <2>3 DEF Credits
<1>18. ASSUME NEW p \in Session, StartSettlement(p) PROVE MoneyConserved'
  BY <1>18 DEF StartSettlement, Begin, Credits
<1>19. ASSUME NEW p \in Session, GetPending(p) PROVE MoneyConserved'
  BY <1>19 DEF GetPending, Credits
<1>20. ASSUME NEW p \in Session, ReleaseFrozen(p) PROVE MoneyConserved'
  <2>1. item[p] \in Payout /\ UNCHANGED credited
    BY <1>20 DEF ReleaseFrozen, SettlementLabels
  <2>2. StatementAssumption(p, Owner[item[p]], Total(item[p]))
    BY <2>1, AmountsAreNatural DEF StatementAssumption, TypeOK
  <2>3. \A u \in User : row'[u].bal + row'[u].frz = row[u].bal + row[u].frz
    <3>1. CASE Unfreezes(p, Owner[item[p]], Total(item[p]))
      BY <2>2, <3>1, UnfreezeMovesMoney
    <3>2. CASE UNCHANGED row
      BY <3>2
    <3>3. QED
      BY <1>20, <3>1, <3>2 DEF ReleaseFrozen, Unfreezes
  <2>4. QED
    BY <2>1, <2>3 DEF Credits
<1>21. ASSUME NEW p \in Session, WriteVerdict(p) PROVE MoneyConserved'
  BY <1>21 DEF WriteVerdict, Credits
<1>22. ASSUME NEW p \in Session, Stops(p) PROVE MoneyConserved'
  BY <1>22 DEF Stops, Credits
<1>23. ASSUME NEW o \in Order, GatewaySettles(o) PROVE MoneyConserved'
  BY <1>23 DEF GatewaySettles, Credits
<1>24. ASSUME NEW o \in Order, CallbackKeyExpires(o) PROVE MoneyConserved'
  BY <1>24 DEF CallbackKeyExpires, Credits
<1>25. CASE UNCHANGED vars
  BY <1>25 DEF vars, storeVars, payVars, history, Credits
<1>26. QED
  BY <1>1, <1>2, <1>3, <1>4, <1>5, <1>6, <1>7, <1>8, <1>9, <1>10, <1>11,
     <1>12, <1>13, <1>14, <1>15, <1>16, <1>17, <1>18, <1>19, <1>20, <1>21,
     <1>22, <1>23, <1>24, <1>25 DEF Next, Deposit, Callback, Withdrawal,
     Settlement, Finished

-----------------------------------------------------------------------------
(***************************************************************************)
(* The frozen balance covers what is pending.                              *)
(***************************************************************************)
Totals == [x \in Payout |-> Total(x)]

\* Only request p moves, and only the row of its item changes.
MovesAlone(p) == /\ p \in Session /\ UNCHANGED item
                 /\ \A q \in Session \ {p} : pc'[q] = pc[q]
                 /\ \A y \in Payout \ {item[p]} : txn'[y] = txn[y]

\* A step of a request changes which payouts need a frozen balance only in
\* the one the request is about.
LEMMA OthersStayBacked ==
  ASSUME NEW p, MovesAlone(p), NEW u, NEW y \in Payout, y # item[p] \/ Owner[y] # u
  PROVE  y \in Backed(u)' <=> y \in Backed(u)
BY DEF MovesAlone, Backed, Writing, Releasing, OwnedBy, At

\* A request that neither writes, undoes nor releases, before or after.
LEMMA BystanderBacksNothing ==
  ASSUME NEW p, MovesAlone(p),
         pc[p] \notin {"wd_create", "wd_undo", "st_status"}, pc'[p] \notin {"wd_create", "wd_undo", "st_status"},
         \A y \in Payout : txn'[y] = "pending" <=> txn[y] = "pending",
         NEW u
  PROVE  Backed(u)' = Backed(u)
BY DEF MovesAlone, Backed, Writing, Releasing, OwnedBy, At

\* The totals of the payouts of a user have a sum.
LEMMA PayoutsAreFinite ==
  ASSUME NEW S \in SUBSET Payout
  PROVE  /\ IsFiniteSet(S) /\ \A x \in S : Totals[x] \in Nat
         /\ Integral(Totals, S) /\ SumFunctionOnSet(Totals, S) \in Nat
<1>1. IsFiniteSet(S) /\ \A x \in S : Totals[x] \in Nat
  BY PaymentAssumption, FS_Subset, AmountsAreNatural DEF Totals
<1>2. QED
  BY <1>1, SumIsNatural DEF Integral

\* The payouts B that have to be backed become C, where x may come or go,
\* and the frozen balance f becomes g.
LEMMA BackingMoves ==
  ASSUME NEW B \in SUBSET Payout, NEW C \in SUBSET Payout,
         NEW x, \A y \in Payout : y # x => (y \in B <=> y \in C),
         NEW f \in Nat, NEW g \in Nat, SumFunctionOnSet(Totals, B) <= f,
         \/ (x \in C => x \in B) /\ g = f
         \/ x \notin B /\ x \in C /\ g = f + Total(x)
         \/ x \in B /\ x \notin C /\ g = f - Total(x)
  PROVE  SumFunctionOnSet(Totals, C) <= g
<1> DEFINE Sum(S) == SumFunctionOnSet(Totals, S)
<1>0. /\ Sum(B) \in Nat /\ Sum(C) \in Nat /\ IsFiniteSet(B) /\ IsFiniteSet(C)
      /\ Integral(Totals, B) /\ Integral(Totals, C)
      /\ \A y \in B \cup C : Totals[y] \in Nat /\ Totals[y] = Total(y)
  BY PayoutsAreFinite DEF Totals
<1>1. CASE (x \in C => x \in B) /\ g = f
  <2>1. C \in SUBSET B
    BY <1>1
  <2>2. Sum(C) <= Sum(B)
    BY <1>0, <2>1, SumOfPart
  <2> HIDE DEF Sum
  <2>3. QED
    BY <1>0, <1>1, <2>2 DEF Sum
<1>2. CASE x \notin B /\ x \in C /\ g = f + Total(x)
  <2>1. C \ {x} = B
    BY <1>2
  <2>2. Sum(C) = Totals[x] + Sum(B)
    BY <1>0, <1>2, <2>1, SumRemove
  <2>3. QED
    BY <1>0, <1>2, <2>2
<1>3. CASE x \in B /\ x \notin C /\ g = f - Total(x)
  <2>1. B \ {x} = C
    BY <1>3
  <2>2. Sum(B) = Totals[x] + Sum(C)
    BY <1>0, <1>3, <2>1, SumRemove
  <2>3. QED
    BY <1>0, <1>3, <2>2
<1>4. QED
  BY <1>1, <1>2, <1>3

BackingHolds(u) == SumFunctionOnSet(Totals, Backed(u)) <= row[u].frz

\* What one step does to the backing of a user's payouts: the item of the
\* request that moves comes, goes or stays, the others stay.
LEMMA ItemMoves ==
  ASSUME TableIsQuiet, TableIsQuiet', NEW u \in User, BackingHolds(u), NEW p, MovesAlone(p),
         \/ /\ item[p] \in Backed(u)' => item[p] \in Backed(u)
            /\ row'[u].frz = row[u].frz
         \/ /\ item[p] \notin Backed(u) /\ item[p] \in Backed(u)'
            /\ row'[u].frz = row[u].frz + Total(item[p])
         \/ /\ item[p] \in Backed(u) /\ item[p] \notin Backed(u)'
            /\ row'[u].frz = row[u].frz - Total(item[p])
  PROVE  BackingHolds(u)'
<1>1. Backed(u) \in SUBSET Payout /\ Backed(u)' \in SUBSET Payout
  BY DEF Backed, OwnedBy
<1>2. \A y \in Payout : y # item[p] \/ Owner[y] # u => (y \in Backed(u)' <=> y \in Backed(u))
  BY OthersStayBacked
<1>3. row[u].frz \in Nat /\ row'[u].frz \in Nat
  BY DEF TableIsQuiet, Wallet
<1>4. item[p] \in Backed(u)' => item[p] \in Payout /\ Owner[item[p]] = u
  BY DEF Backed, OwnedBy
<1> DEFINE B == Backed(u)
           C == Backed(u)'
           x == item[p]
           f == row[u].frz
           g == row'[u].frz
<1>5. /\ B \in SUBSET Payout /\ C \in SUBSET Payout /\ f \in Nat /\ g \in Nat
      /\ SumFunctionOnSet(Totals, B) <= f
      /\ \A y \in Payout : y # x => (y \in B <=> y \in C)
      /\ \/ (x \in C => x \in B) /\ g = f
         \/ x \notin B /\ x \in C /\ g = f + Total(x)
         \/ x \in B /\ x \notin C /\ g = f - Total(x)
  BY <1>1, <1>2, <1>3, <1>4 DEF BackingHolds
<1> HIDE DEF B, C, x, f, g
<1>6. SumFunctionOnSet(Totals, C) <= g
  BY <1>5, BackingMoves
<1>7. QED
  BY <1>6 DEF B, C, g, BackingHolds

\* What has overlapped stays so.
LEMMA OverlapGrows ==
  ASSUME [Next]_vars
  PROVE  overlap \subseteq overlap'
<1> USE DEF payVars, history
<1>1. ASSUME NEW p \in Session, StartDeposit(p) PROVE overlap \subseteq overlap'
  BY <1>1 DEF StartDeposit, Begin
<1>2. ASSUME NEW p \in Session, CreatePendingTransaction(p) PROVE overlap \subseteq overlap'
  BY <1>2 DEF CreatePendingTransaction
<1>3. ASSUME NEW p \in Session, CreateInquiry(p) PROVE overlap \subseteq overlap'
  BY <1>3 DEF CreateInquiry
<1>4. ASSUME NEW p \in Session, InquiryRefused(p) PROVE overlap \subseteq overlap'
  BY <1>4 DEF InquiryRefused
<1>5. ASSUME NEW p \in Session, StorePayment(p) PROVE overlap \subseteq overlap'
  BY <1>5 DEF StorePayment
<1>6. ASSUME NEW p \in Session, StartCallback(p) PROVE overlap \subseteq overlap'
  BY <1>6 DEF StartCallback, Begin, Reportable
<1>7. ASSUME NEW p \in Session, CheckDuplicate(p) PROVE overlap \subseteq overlap'
  BY <1>7 DEF CheckDuplicate
<1>8. ASSUME NEW p \in Session, MarkCallback(p) PROVE overlap \subseteq overlap'
  BY <1>8 DEF MarkCallback
<1>9. ASSUME NEW p \in Session, GetPayment(p) PROVE overlap \subseteq overlap'
  BY <1>9 DEF GetPayment, AfterGet
<1>10. ASSUME NEW p \in Session, UpdatePayment(p) PROVE overlap \subseteq overlap'
  BY <1>10 DEF UpdatePayment
<1>11. ASSUME NEW p \in Session, UpdateTransaction(p) PROVE overlap \subseteq overlap'
  BY <1>11 DEF UpdateTransaction
<1>12. ASSUME NEW p \in Session, GetTransaction(p) PROVE overlap \subseteq overlap'
  BY <1>12 DEF GetTransaction
<1>13. ASSUME NEW p \in Session, CreditDeposit(p) PROVE overlap \subseteq overlap'
  BY <1>13 DEF CreditDeposit
<1>14. ASSUME NEW p \in Session, StartWithdrawal(p) PROVE overlap \subseteq overlap'
  BY <1>14 DEF StartWithdrawal, Begin
<1>15. ASSUME NEW p \in Session, FreezeForWithdrawal(p) PROVE overlap \subseteq overlap'
  BY <1>15 DEF FreezeForWithdrawal
<1>16. ASSUME NEW p \in Session, CreateWithdrawal(p) PROVE overlap \subseteq overlap'
  BY <1>16 DEF CreateWithdrawal
<1>17. ASSUME NEW p \in Session, UndoFreeze(p) PROVE overlap \subseteq overlap'
  BY <1>17 DEF UndoFreeze
<1>18. ASSUME NEW p \in Session, StartSettlement(p) PROVE overlap \subseteq overlap'
  BY <1>18 DEF StartSettlement, Begin
<1>19. ASSUME NEW p \in Session, GetPending(p) PROVE overlap \subseteq overlap'
  BY <1>19 DEF GetPending
<1>20. ASSUME NEW p \in Session, ReleaseFrozen(p) PROVE overlap \subseteq overlap'
  BY <1>20 DEF ReleaseFrozen
<1>21. ASSUME NEW p \in Session, WriteVerdict(p) PROVE overlap \subseteq overlap'
  BY <1>21 DEF WriteVerdict
<1>22. ASSUME NEW p \in Session, Stops(p) PROVE overlap \subseteq overlap'
  BY <1>22 DEF Stops
<1>23. ASSUME NEW o \in Order, GatewaySettles(o) PROVE overlap \subseteq overlap'
  BY <1>23 DEF GatewaySettles
<1>24. ASSUME NEW o \in Order, CallbackKeyExpires(o) PROVE overlap \subseteq overlap'
  BY <1>24 DEF CallbackKeyExpires
<1>25. CASE UNCHANGED vars
  BY <1>25 DEF vars, storeVars, payVars, history
<1>26. QED
  BY <1>1, <1>2, <1>3, <1>4, <1>5, <1>6, <1>7, <1>8, <1>9, <1>10, <1>11,
     <1>12, <1>13, <1>14, <1>15, <1>16, <1>17, <1>18, <1>19, <1>20, <1>21,
     <1>22, <1>23, <1>24, <1>25 DEF Next, Deposit, Callback, Withdrawal,
     Settlement, Finished

\* Each step leaves the frozen balance of a user as large as what it must cover.
LEMMA BackingStays ==
  ASSUME Control, TableIsQuiet', NEW u \in User, BackingHolds(u),
         OwnedBy(u, overlap) = {}, OwnedBy(u, overlap') = {}, [Next]_vars
  PROVE  BackingHolds(u)'
<1> USE DEF Control, TypeOK, RequestsFit, At, Goto, SetTxn, payVars, history
<1>1. ASSUME NEW p \in Session, StartDeposit(p) PROVE BackingHolds(u)'
  <2>1. MovesAlone(p) /\ UNCHANGED row
    BY <1>1, PaymentAssumption DEF StartDeposit, Begin, MovesAlone, storeVars
  <2>2. /\ pc[p] \notin {"wd_create", "wd_undo", "st_status"} /\ pc'[p] \notin {"wd_create", "wd_undo", "st_status"}
        /\ \A y \in Payout : txn'[y] = "pending" <=> txn[y] = "pending"
    BY <1>1, PaymentAssumption DEF StartDeposit, Begin
  <2>3. Backed(u)' = Backed(u)
    BY <2>1, <2>2, BystanderBacksNothing
  <2>4. QED
    BY <2>1, <2>3 DEF BackingHolds
<1>2. ASSUME NEW p \in Session, CreatePendingTransaction(p) PROVE BackingHolds(u)'
  <2>1. MovesAlone(p) /\ UNCHANGED row
    BY <1>2, PaymentAssumption DEF CreatePendingTransaction, DepositLabels, CallbackLabels, MovesAlone, storeVars
  <2>2. /\ pc[p] \notin {"wd_create", "wd_undo", "st_status"} /\ pc'[p] \notin {"wd_create", "wd_undo", "st_status"}
        /\ \A y \in Payout : txn'[y] = "pending" <=> txn[y] = "pending"
    BY <1>2, PaymentAssumption DEF CreatePendingTransaction, DepositLabels, CallbackLabels
  <2>3. Backed(u)' = Backed(u)
    BY <2>1, <2>2, BystanderBacksNothing
  <2>4. QED
    BY <2>1, <2>3 DEF BackingHolds
<1>3. ASSUME NEW p \in Session, CreateInquiry(p) PROVE BackingHolds(u)'
  <2>1. MovesAlone(p) /\ UNCHANGED row
    BY <1>3, PaymentAssumption DEF CreateInquiry, MovesAlone, storeVars
  <2>2. /\ pc[p] \notin {"wd_create", "wd_undo", "st_status"} /\ pc'[p] \notin {"wd_create", "wd_undo", "st_status"}
        /\ \A y \in Payout : txn'[y] = "pending" <=> txn[y] = "pending"
    BY <1>3, PaymentAssumption DEF CreateInquiry
  <2>3. Backed(u)' = Backed(u)
    BY <2>1, <2>2, BystanderBacksNothing
  <2>4. QED
    BY <2>1, <2>3 DEF BackingHolds
<1>4. ASSUME NEW p \in Session, InquiryRefused(p) PROVE BackingHolds(u)'
  <2>1. MovesAlone(p) /\ UNCHANGED row
    BY <1>4, PaymentAssumption DEF InquiryRefused, DepositLabels, CallbackLabels, MovesAlone, storeVars
  <2>2. /\ pc[p] \notin {"wd_create", "wd_undo", "st_status"} /\ pc'[p] \notin {"wd_create", "wd_undo", "st_status"}
        /\ \A y \in Payout : txn'[y] = "pending" <=> txn[y] = "pending"
    BY <1>4, PaymentAssumption DEF InquiryRefused, DepositLabels, CallbackLabels
  <2>3. Backed(u)' = Backed(u)
    BY <2>1, <2>2, BystanderBacksNothing
  <2>4. QED
    BY <2>1, <2>3 DEF BackingHolds
<1>5. ASSUME NEW p \in Session, StorePayment(p) PROVE BackingHolds(u)'
  <2>1. MovesAlone(p) /\ UNCHANGED row
    BY <1>5, PaymentAssumption DEF StorePayment, MovesAlone, storeVars
  <2>2. /\ pc[p] \notin {"wd_create", "wd_undo", "st_status"} /\ pc'[p] \notin {"wd_create", "wd_undo", "st_status"}
        /\ \A y \in Payout : txn'[y] = "pending" <=> txn[y] = "pending"
    BY <1>5, PaymentAssumption DEF StorePayment
  <2>3. Backed(u)' = Backed(u)
    BY <2>1, <2>2, BystanderBacksNothing
  <2>4. QED
    BY <2>1, <2>3 DEF BackingHolds
<1>6. ASSUME NEW p \in Session, StartCallback(p) PROVE BackingHolds(u)'
  <2>1. MovesAlone(p) /\ UNCHANGED row
    BY <1>6, PaymentAssumption DEF StartCallback, Begin, Reportable, MovesAlone, storeVars
  <2>2. /\ pc[p] \notin {"wd_create", "wd_undo", "st_status"} /\ pc'[p] \notin {"wd_create", "wd_undo", "st_status"}
        /\ \A y \in Payout : txn'[y] = "pending" <=> txn[y] = "pending"
    BY <1>6, PaymentAssumption DEF StartCallback, Begin, Reportable
  <2>3. Backed(u)' = Backed(u)
    BY <2>1, <2>2, BystanderBacksNothing
  <2>4. QED
    BY <2>1, <2>3 DEF BackingHolds
<1>7. ASSUME NEW p \in Session, CheckDuplicate(p) PROVE BackingHolds(u)'
  <2>1. MovesAlone(p) /\ UNCHANGED row
    BY <1>7, PaymentAssumption DEF CheckDuplicate, MovesAlone, storeVars
  <2>2. /\ pc[p] \notin {"wd_create", "wd_undo", "st_status"} /\ pc'[p] \notin {"wd_create", "wd_undo", "st_status"}
        /\ \A y \in Payout : txn'[y] = "pending" <=> txn[y] = "pending"
    BY <1>7, PaymentAssumption DEF CheckDuplicate
  <2>3. Backed(u)' = Backed(u)
    BY <2>1, <2>2, BystanderBacksNothing
  <2>4. QED
    BY <2>1, <2>3 DEF BackingHolds
<1>8. ASSUME NEW p \in Session, MarkCallback(p) PROVE BackingHolds(u)'
  <2>1. MovesAlone(p) /\ UNCHANGED row
    BY <1>8, PaymentAssumption DEF MarkCallback, MovesAlone, storeVars
  <2>2. /\ pc[p] \notin {"wd_create", "wd_undo", "st_status"} /\ pc'[p] \notin {"wd_create", "wd_undo", "st_status"}
        /\ \A y \in Payout : txn'[y] = "pending" <=> txn[y] = "pending"
    BY <1>8, PaymentAssumption DEF MarkCallback
  <2>3. Backed(u)' = Backed(u)
    BY <2>1, <2>2, BystanderBacksNothing
  <2>4. QED
    BY <2>1, <2>3 DEF BackingHolds
<1>9. ASSUME NEW p \in Session, GetPayment(p) PROVE BackingHolds(u)'
  <2>1. MovesAlone(p) /\ UNCHANGED row
    BY <1>9, PaymentAssumption DEF GetPayment, AfterGet, MovesAlone, storeVars
  <2>2. /\ pc[p] \notin {"wd_create", "wd_undo", "st_status"} /\ pc'[p] \notin {"wd_create", "wd_undo", "st_status"}
        /\ \A y \in Payout : txn'[y] = "pending" <=> txn[y] = "pending"
    BY <1>9, PaymentAssumption DEF GetPayment, AfterGet
  <2>3. Backed(u)' = Backed(u)
    BY <2>1, <2>2, BystanderBacksNothing
  <2>4. QED
    BY <2>1, <2>3 DEF BackingHolds
<1>10. ASSUME NEW p \in Session, UpdatePayment(p) PROVE BackingHolds(u)'
  <2>1. MovesAlone(p) /\ UNCHANGED row
    BY <1>10, PaymentAssumption DEF UpdatePayment, MovesAlone, storeVars
  <2>2. /\ pc[p] \notin {"wd_create", "wd_undo", "st_status"} /\ pc'[p] \notin {"wd_create", "wd_undo", "st_status"}
        /\ \A y \in Payout : txn'[y] = "pending" <=> txn[y] = "pending"
    BY <1>10, PaymentAssumption DEF UpdatePayment
  <2>3. Backed(u)' = Backed(u)
    BY <2>1, <2>2, BystanderBacksNothing
  <2>4. QED
    BY <2>1, <2>3 DEF BackingHolds
<1>11. ASSUME NEW p \in Session, UpdateTransaction(p) PROVE BackingHolds(u)'
  <2>1. MovesAlone(p) /\ UNCHANGED row
    BY <1>11, PaymentAssumption DEF UpdateTransaction, CallbackLabels, MovesAlone, storeVars
  <2>2. /\ pc[p] \notin {"wd_create", "wd_undo", "st_status"} /\ pc'[p] \notin {"wd_create", "wd_undo", "st_status"}
        /\ \A y \in Payout : txn'[y] = "pending" <=> txn[y] = "pending"
    BY <1>11, PaymentAssumption DEF UpdateTransaction, CallbackLabels
  <2>3. Backed(u)' = Backed(u)
    BY <2>1, <2>2, BystanderBacksNothing
  <2>4. QED
    BY <2>1, <2>3 DEF BackingHolds
<1>12. ASSUME NEW p \in Session, GetTransaction(p) PROVE BackingHolds(u)'
  <2>1. MovesAlone(p) /\ UNCHANGED row
    BY <1>12, PaymentAssumption DEF GetTransaction, MovesAlone, storeVars
  <2>2. /\ pc[p] \notin {"wd_create", "wd_undo", "st_status"} /\ pc'[p] \notin {"wd_create", "wd_undo", "st_status"}
        /\ \A y \in Payout : txn'[y] = "pending" <=> txn[y] = "pending"
    BY <1>12, PaymentAssumption DEF GetTransaction
  <2>3. Backed(u)' = Backed(u)
    BY <2>1, <2>2, BystanderBacksNothing
  <2>4. QED
    BY <2>1, <2>3 DEF BackingHolds
<1>13. ASSUME NEW p \in Session, CreditDeposit(p) PROVE BackingHolds(u)'
  <2>1. item[p] \in Order /\ MovesAlone(p) /\ UNCHANGED <<txn, overlap>>
    BY <1>13 DEF CreditDeposit, CallbackLabels, MovesAlone
  <2>2. StatementAssumption(p, Owner[item[p]], Amount[item[p]])
    BY <2>1, AmountsAreNatural DEF StatementAssumption
  <2>3. row'[u].frz = row[u].frz
    BY <1>13, <2>2, CreditMovesMoney DEF CreditDeposit
  <2>4. Backed(u)' = Backed(u)
    BY <1>13, <2>1, BystanderBacksNothing DEF CreditDeposit
  <2>5. QED
    BY <2>3, <2>4 DEF BackingHolds
<1>14. ASSUME NEW p \in Session, StartWithdrawal(p) PROVE BackingHolds(u)'
  <2>1. MovesAlone(p) /\ UNCHANGED row
    BY <1>14, PaymentAssumption DEF StartWithdrawal, Begin, MovesAlone, storeVars
  <2>2. /\ pc[p] \notin {"wd_create", "wd_undo", "st_status"} /\ pc'[p] \notin {"wd_create", "wd_undo", "st_status"}
        /\ \A y \in Payout : txn'[y] = "pending" <=> txn[y] = "pending"
    BY <1>14, PaymentAssumption DEF StartWithdrawal, Begin
  <2>3. Backed(u)' = Backed(u)
    BY <2>1, <2>2, BystanderBacksNothing
  <2>4. QED
    BY <2>1, <2>3 DEF BackingHolds
<1>15. ASSUME NEW p \in Session, FreezeForWithdrawal(p) PROVE BackingHolds(u)'
  <2>1. item[p] \in Payout /\ MovesAlone(p) /\ UNCHANGED <<txn, overlap>>
    BY <1>15 DEF FreezeForWithdrawal, WithdrawalLabels, MovesAlone
  <2>2. StatementAssumption(p, Owner[item[p]], Total(item[p]))
    BY <2>1, AmountsAreNatural DEF StatementAssumption
  <2>3. CASE UNCHANGED row /\ Goto(p, "failed")
    <3>1. Backed(u)' = Backed(u)
      BY <1>15, <2>1, <2>3, BystanderBacksNothing DEF FreezeForWithdrawal
    <3>2. QED
      BY <2>3, <3>1 DEF BackingHolds
  <2>4. CASE Freezes(p, Owner[item[p]], Total(item[p])) /\ Goto(p, "wd_create")
    <3>1. /\ u = Owner[item[p]] => row'[u].frz = row[u].frz + Total(item[p])
          /\ u # Owner[item[p]] => row'[u].frz = row[u].frz
      BY <2>2, <2>4, FreezeMovesMoney
    <3>2. item[p] \notin Backed(u)
      BY <1>15 DEF FreezeForWithdrawal, PayoutsAreSingle, WithdrawalLabels, Backed, Writing
    <3>3. item[p] \notin Releasing'
      BY <1>15, <2>1, <2>4 DEF FreezeForWithdrawal, PayoutsAreSingle, SettlementLabels, Releasing
    <3>4. item[p] \in Backed(u)' <=> Owner[item[p]] = u
      <4>1. item[p] \in Writing'
        BY <2>1, <2>4 DEF Writing, MovesAlone, TypeOK
      <4>2. QED
        BY <2>1, <3>3, <4>1 DEF Backed, OwnedBy
    <3>5. QED
      BY <2>1, <3>1, <3>2, <3>4, ItemMoves
  <2>5. QED
    BY <1>15, <2>3, <2>4 DEF FreezeForWithdrawal, Freezes, storeVars
<1>16. ASSUME NEW p \in Session, CreateWithdrawal(p) PROVE BackingHolds(u)'
  <2>1. item[p] \in Payout /\ MovesAlone(p) /\ UNCHANGED row
    BY <1>16 DEF CreateWithdrawal, WithdrawalLabels, MovesAlone, storeVars
  <2>2. item[p] \in Backed(u)' => item[p] \in Backed(u)
    <3>1. item[p] \in Writing
      BY <1>16, <2>1 DEF CreateWithdrawal, Writing
    <3>2. item[p] \notin Releasing
      BY <1>16 DEF CreateWithdrawal, PayoutsAreSingle, SettlementLabels, Releasing
    <3>3. QED
      BY <2>1, <3>1, <3>2 DEF Backed, OwnedBy
  <2>3. QED
    BY <2>1, <2>2, ItemMoves
<1>17. ASSUME NEW p \in Session, UndoFreeze(p) PROVE BackingHolds(u)'
  <2>1. item[p] \in Payout /\ MovesAlone(p) /\ UNCHANGED <<txn, overlap>>
    BY <1>17 DEF UndoFreeze, WithdrawalLabels, MovesAlone
  <2>2. StatementAssumption(p, Owner[item[p]], Total(item[p]))
    BY <2>1, AmountsAreNatural DEF StatementAssumption
  <2>3. /\ row'[u].frz \in {row[u].frz, row[u].frz - Total(item[p])}
        /\ u # Owner[item[p]] => row'[u].frz = row[u].frz
    <3>1. CASE Unfreezes(p, Owner[item[p]], Total(item[p]))
      BY <2>2, <3>1, UnfreezeMovesMoney
    <3>2. CASE UNCHANGED row
      BY <3>2
    <3>3. QED
      BY <1>17, <3>1, <3>2 DEF UndoFreeze, Unfreezes, storeVars
  <2>4. CASE Owner[item[p]] # u
    BY <2>1, <2>3, <2>4, OthersStayBacked, ItemMoves
  <2>5. CASE Owner[item[p]] = u
    <3>1. item[p] \notin overlap
      BY <2>1, <2>5 DEF OwnedBy
    <3>2. item[p] \in Backed(u)
      <4>1. item[p] \in Writing
        BY <1>17, <2>1 DEF UndoFreeze, Writing
      <4>2. item[p] \notin Releasing
        BY <1>17, <3>1 DEF UndoFreeze, PayoutsAreSingle, SettlementLabels, Releasing
      <4>3. QED
        BY <2>1, <2>5, <4>1, <4>2 DEF Backed, OwnedBy
    <3>3. item[p] \notin Backed(u)'
      BY <1>17, <2>1, <3>1 DEF UndoFreeze, PayoutsAreSingle, WithdrawalLabels, Backed, Writing
    <3>4. QED
      BY <2>1, <2>3, <3>2, <3>3, ItemMoves
  <2>6. QED
    BY <2>4, <2>5
<1>18. ASSUME NEW p \in Session, StartSettlement(p) PROVE BackingHolds(u)'
  <2>1. MovesAlone(p) /\ UNCHANGED row
    BY <1>18, PaymentAssumption DEF StartSettlement, Begin, MovesAlone, storeVars
  <2>2. /\ pc[p] \notin {"wd_create", "wd_undo", "st_status"} /\ pc'[p] \notin {"wd_create", "wd_undo", "st_status"}
        /\ \A y \in Payout : txn'[y] = "pending" <=> txn[y] = "pending"
    BY <1>18, PaymentAssumption DEF StartSettlement, Begin
  <2>3. Backed(u)' = Backed(u)
    BY <2>1, <2>2, BystanderBacksNothing
  <2>4. QED
    BY <2>1, <2>3 DEF BackingHolds
<1>19. ASSUME NEW p \in Session, GetPending(p) PROVE BackingHolds(u)'
  <2>1. MovesAlone(p) /\ UNCHANGED row
    BY <1>19, PaymentAssumption DEF GetPending, MovesAlone, storeVars
  <2>2. /\ pc[p] \notin {"wd_create", "wd_undo", "st_status"} /\ pc'[p] \notin {"wd_create", "wd_undo", "st_status"}
        /\ \A y \in Payout : txn'[y] = "pending" <=> txn[y] = "pending"
    BY <1>19, PaymentAssumption DEF GetPending
  <2>3. Backed(u)' = Backed(u)
    BY <2>1, <2>2, BystanderBacksNothing
  <2>4. QED
    BY <2>1, <2>3 DEF BackingHolds
<1>20. ASSUME NEW p \in Session, ReleaseFrozen(p) PROVE BackingHolds(u)'
  <2>1. item[p] \in Payout /\ MovesAlone(p) /\ UNCHANGED <<txn, overlap>>
    BY <1>20 DEF ReleaseFrozen, SettlementLabels, MovesAlone
  <2>2. StatementAssumption(p, Owner[item[p]], Total(item[p]))
    BY <2>1, AmountsAreNatural DEF StatementAssumption
  <2>3. CASE UNCHANGED row /\ Goto(p, "failed")
    <3>1. Backed(u)' = Backed(u)
      BY <1>20, <2>1, <2>3, BystanderBacksNothing DEF ReleaseFrozen
    <3>2. QED
      BY <2>3, <3>1 DEF BackingHolds
  <2>4. CASE Unfreezes(p, Owner[item[p]], Total(item[p])) /\ Goto(p, "st_status")
    <3>1. /\ u = Owner[item[p]] => row'[u].frz = row[u].frz - Total(item[p])
          /\ u # Owner[item[p]] => row'[u].frz = row[u].frz
      BY <2>2, <2>4, UnfreezeMovesMoney
    <3>2. CASE Owner[item[p]] # u
      BY <2>1, <3>1, <3>2, OthersStayBacked, ItemMoves
    <3>3. CASE Owner[item[p]] = u
      <4>1. item[p] \notin overlap
        BY <2>1, <3>3 DEF OwnedBy
      <4>2. txn[item[p]] = "pending" /\ item[p] \notin Releasing
        BY <1>20, <4>1 DEF ReleaseFrozen, PayoutsAreSingle, Releasing
      <4>3. item[p] \in Backed(u)
        BY <2>1, <3>3, <4>2 DEF Backed, OwnedBy
      <4>4. item[p] \notin Backed(u)'
        BY <2>1, <2>4 DEF Backed, Releasing, MovesAlone, TypeOK
      <4>5. QED
        BY <2>1, <3>1, <3>3, <4>3, <4>4, ItemMoves
    <3>4. QED
      BY <3>2, <3>3
  <2>5. QED
    BY <1>20, <2>3, <2>4 DEF ReleaseFrozen, Unfreezes, storeVars
<1>21. ASSUME NEW p \in Session, WriteVerdict(p) PROVE BackingHolds(u)'
  <2>1. item[p] \in Payout /\ code[p] \in Verdicts /\ MovesAlone(p) /\ UNCHANGED row
    BY <1>21 DEF WriteVerdict, SettlementLabels, MovesAlone, storeVars
  <2>2. CASE Owner[item[p]] # u
    BY <2>1, <2>2, OthersStayBacked, ItemMoves
  <2>3. CASE Owner[item[p]] = u
    <3>1. item[p] \notin overlap
      BY <2>1, <2>3 DEF OwnedBy
    <3>2. txn[item[p]] = "pending"
      BY <1>21, <3>1 DEF WriteVerdict, PayoutsAreSingle
    <3>3. item[p] \notin Writing
      BY <3>1, <3>2 DEF PayoutsAreSingle, Writing
    <3>4. item[p] \notin Writing' /\ txn'[item[p]] # "pending"
      BY <1>21, <2>1, <3>3 DEF WriteVerdict, Writing, Verdicts
    <3>5. QED
      BY <2>1, <3>4, ItemMoves DEF Backed
  <2>4. QED
    BY <2>2, <2>3
<1>22. ASSUME NEW p \in Session, Stops(p) PROVE BackingHolds(u)'
  <2>1. MovesAlone(p) /\ UNCHANGED <<row, txn>>
    BY <1>22 DEF Stops, MovesAlone, storeVars
  <2>2. CASE At(p, "st_status")
    <3>1. item[p] \in Payout => Owner[item[p]] # u
      BY <1>22, <2>2 DEF Stops, OwnedBy
    <3>2. QED
      BY <2>1, <3>1, OthersStayBacked, ItemMoves DEF Backed, OwnedBy
  <2>3. CASE ~ At(p, "st_status")
    <3>1. item[p] \in Backed(u)' => item[p] \in Backed(u)
      BY <1>22, <2>1, <2>3 DEF Stops, Backed, Writing, Releasing
    <3>2. QED
      BY <2>1, <3>1, ItemMoves
  <2>4. QED
    BY <2>2, <2>3
<1>23. ASSUME NEW o \in Order, GatewaySettles(o) PROVE BackingHolds(u)'
  <2>1. UNCHANGED <<row, item, pc, txn>>
    BY <1>23 DEF GatewaySettles, storeVars
  <2>2. Backed(u)' = Backed(u)
    BY <2>1 DEF Backed, Writing, Releasing, OwnedBy, At
  <2>3. QED
    BY <2>1, <2>2 DEF BackingHolds
<1>24. ASSUME NEW o \in Order, CallbackKeyExpires(o) PROVE BackingHolds(u)'
  <2>1. UNCHANGED <<row, item, pc, txn>>
    BY <1>24 DEF CallbackKeyExpires, storeVars
  <2>2. Backed(u)' = Backed(u)
    BY <2>1 DEF Backed, Writing, Releasing, OwnedBy, At
  <2>3. QED
    BY <2>1, <2>2 DEF BackingHolds
<1>25. CASE UNCHANGED vars
  BY <1>25 DEF vars, storeVars, payVars, history, BackingHolds, Backed, Writing, Releasing, OwnedBy
<1>26. QED
  BY <1>1, <1>2, <1>3, <1>4, <1>5, <1>6, <1>7, <1>8, <1>9, <1>10, <1>11,
     <1>12, <1>13, <1>14, <1>15, <1>16, <1>17, <1>18, <1>19, <1>20, <1>21,
     <1>22, <1>23, <1>24, <1>25 DEF Next, Deposit, Callback, Withdrawal,
     Settlement, Finished

-----------------------------------------------------------------------------
(***************************************************************************)
(* The theorems.                                                           *)
(***************************************************************************)
LEMMA ControlHolds == Spec => []Control
<1>1. Init => Control
  <2> SUFFICES ASSUME Init PROVE Control
    OBVIOUS
  <2>1. TypeOK /\ TableIsQuiet
    BY PaymentAssumption DEF Init, StoreInit, TypeOK, StoreTypeOK, TableIsQuiet, Labels, Idle,
                             CallbackCodes, Statuses
  <2>2. RequestsFit /\ OrdersAreFresh /\ CreditsArePaid /\ PayoutsAreSingle
    BY DEF Init, RequestsFit, OrdersAreFresh, CreditsArePaid, CreditedWasPaid, PayoutsAreSingle,
           DepositLabels, CallbackLabels, WithdrawalLabels, SettlementLabels, CreditingLabels
  <2>3. CreditsAreSingle
    BY DEF Init, CreditsAreSingle, CreditingLabels
  <2>4. QED
    BY <2>1, <2>2, <2>3 DEF Control
<1>2. Control /\ [Next]_vars => Control'
  BY TypesStayCorrect, RequestsStayFit, OrdersStayFresh, CreditsStayPaid, CreditsStaySingle,
     PayoutsStaySingle DEF Control
<1>3. QED
  BY <1>1, <1>2, PTL DEF Spec

\* What the wallets hold is what was deposited, each deposit that was paid
\* for once unless callbacks overlapped, whatever is duplicated, reordered or
\* cut short: payment.go loses and creates no money.
THEOREM PaymentBooksHold == Spec => []BooksHold
<1> DEFINE Books == Control /\ MoneyConserved
<1>1. Init => MoneyConserved
  <2> SUFFICES ASSUME Init, NEW u \in User
               PROVE  row[u].bal + row[u].frz = Opening[u].bal + Opening[u].frz + Credits(u)
    BY DEF MoneyConserved
  <2>1. \A S \in SUBSET Order : SumFunctionOnSet(Credit, S) = 0
    BY NothingIsCredited DEF Init
  <2>2. Credits(u) = 0
    BY <2>1, OwnedIsFinite DEF Credits, Credit
  <2>3. Opening[u].bal \in Nat /\ Opening[u].frz \in Nat /\ row = Opening
    BY PaymentAssumption DEF Init, StoreInit, Wallet
  <2>4. QED
    BY <2>2, <2>3
<1>2. Control /\ Control' /\ MoneyConserved /\ [Next]_vars => MoneyConserved'
  BY MoneyStaysConserved DEF Control
<1>3. Control /\ MoneyConserved => BooksHold
  BY DEF BooksHold, Control, CreditsArePaid, CreditsAreSingle, DoubleCreditNeedsOverlap
<1>4. QED
  BY <1>1, <1>2, <1>3, ControlHolds, PTL DEF Spec

\* A frozen balance always covers the withdrawals that are pending, and the
\* freezes whose row is still to be written, of a user none of whose
\* settlements overlapped or stopped half-way: payment.go never releases one
\* of her withdrawals from the money of another.
THEOREM PendingStaysBacked == Spec => []PendingIsBacked
<1>1. Init => PendingIsBacked
  <2> SUFFICES ASSUME Init, NEW u \in User
               PROVE  SumFunctionOnSet(Totals, Backed(u)) <= row[u].frz
    BY DEF PendingIsBacked, Totals
  <2>1. Backed(u) = {}
    BY DEF Init, Backed, Writing, OwnedBy
  <2>2. row[u].frz \in Nat
    BY PaymentAssumption DEF Init, StoreInit, Wallet
  <2>3. QED
    BY <2>1, <2>2, EmptySum
<1>2. ASSUME Control, Control', PendingIsBacked, [Next]_vars
      PROVE  PendingIsBacked'
  <2> SUFFICES ASSUME NEW u \in User, OwnedBy(u, overlap') = {}
               PROVE  BackingHolds(u)'
    BY DEF PendingIsBacked, BackingHolds, Totals, OwnedBy
  <2>1. OwnedBy(u, overlap) = {}
    BY <1>2, OverlapGrows DEF OwnedBy
  <2>2. BackingHolds(u)
    BY <1>2, <2>1 DEF PendingIsBacked, BackingHolds, Totals
  <2>3. QED
    BY <1>2, <2>1, <2>2, BackingStays DEF Control
<1>3. QED
  BY <1>1, <1>2, ControlHolds, PTL DEF Spec
=============================================================================
