---------------------------- MODULE WalletStore ----------------------------
(***************************************************************************)
(* The wallets table and the statements internal/repository/wallet.go runs *)
(* on it, under the isolation the code gets from PostgreSQL: READ          *)
(* COMMITTED, with a row lock taken by SELECT ... FOR UPDATE, UPDATE and   *)
(* INSERT.  A statement runs either inside the transaction that RunInTx    *)
(* put into the context, or, when the context carries none, in a           *)
(* transaction of its own that ends with the statement.                    *)
(*                                                                         *)
(* row[u] is the committed wallet of user u, ver[u] the newest version of  *)
(* it, which differs from row[u] only while a transaction holds lock[u].   *)
(***************************************************************************)
EXTENDS Integers, FiniteSets

CONSTANTS User,      \* the users that may own a wallet
          Session,   \* the requests, each on a database connection of its own
          NoTx,      \* the value of a lock nobody holds
          NoWallet   \* the user has no row in wallets

Wallet == [bal : Nat, frz : Nat]

ASSUME StoreAssumption == /\ NoTx \notin Session
                          /\ NoWallet \notin Wallet

VARIABLES row, ver, lock
storeVars == <<row, ver, lock>>

StoreTypeOK == /\ row \in [User -> Wallet \cup {NoWallet}]
               /\ ver \in [User -> Wallet \cup {NoWallet}]
               /\ lock \in [User -> Session \cup {NoTx}]

EmptyWallet == [bal |-> 0, frz |-> 0]

(***************************************************************************)
(* The four balance movements: the check the Go code makes on the value it *)
(* selected, and the arithmetic of its UPDATE.                             *)
(***************************************************************************)
\* Mutant: the balance is overwritten.
OverwriteBalance(w, a) == [bal |-> a, frz |-> w.frz]

CreditBalance(w, a)   == [bal |-> w.bal + a, frz |-> w.frz]
DebitBalance(w, a)    == [bal |-> w.bal - a, frz |-> w.frz]
FreezeBalance(w, a)   == [bal |-> w.bal - a, frz |-> w.frz + a]
UnfreezeBalance(w, a) == [bal |-> w.bal + a, frz |-> w.frz - a]

RepoOps == {"credit", "debit", "freeze", "unfreeze"}

Moved(op, w, a) == CASE op = "credit"   -> CreditBalance(w, a)
                     [] op = "debit"    -> DebitBalance(w, a)
                     [] op = "freeze"   -> FreezeBalance(w, a)
                     [] op = "unfreeze" -> UnfreezeBalance(w, a)

\* Mutant: the balance is not compared with the amount.
UncheckedOp(op, w, a) == TRUE

Covered(op, w, a) == /\ op \in {"debit", "freeze"} => w.bal >= a
                     /\ op = "unfreeze" => w.frz >= a

\* The CHECK constraints of the wallets table.
CheckOK(w) == w.bal >= 0 /\ w.frz >= 0

(***************************************************************************)
(* Statements of session p.  inTx says whether its context carries a       *)
(* transaction.  A statement that must wait for a row lock is not enabled. *)
(***************************************************************************)
Seen(p, u) == IF lock[u] = p THEN ver[u] ELSE row[u]

Unlocked(p, u) == lock[u] \in {NoTx, p}

Lock(p, u, inTx) == lock' = IF inTx THEN [lock EXCEPT ![u] = p] ELSE lock

\* Mutant: a plain SELECT, without FOR UPDATE.
PlainSelect(p, u, inTx) == Unlocked(p, u) /\ UNCHANGED storeVars

\* SELECT ... FOR UPDATE of an existing row.
SelectForUpdate(p, u, inTx) == /\ Unlocked(p, u)
                               /\ Lock(p, u, inTx)
                               /\ UNCHANGED <<row, ver>>

\* Mutant: the statement runs on the pool and not on the transaction.
WriteOnPool(p, u, w, inTx) == /\ Unlocked(p, u)
                              /\ ver' = [ver EXCEPT ![u] = w]
                              /\ row' = [row EXCEPT ![u] = w]
                              /\ UNCHANGED lock

\* INSERT or UPDATE that leaves the row as w.
Write(p, u, w, inTx) == /\ Unlocked(p, u)
                        /\ Lock(p, u, inTx)
                        /\ ver' = [ver EXCEPT ![u] = w]
                        /\ row' = IF inTx THEN row ELSE [row EXCEPT ![u] = w]

(***************************************************************************)
(* One call of the repository as one step, for the modules whose subject   *)
(* is the use case around it.  WalletLedger takes the call apart and shows *)
(* that it takes effect at one instant.                                    *)
(***************************************************************************)
Move(p, op, u, a, inTx) == /\ Seen(p, u) # NoWallet
                           /\ Covered(op, Seen(p, u), a)
                           /\ Write(p, u, Moved(op, Seen(p, u), a), inTx)

Refused(p, op, u, a) == \/ Seen(p, u) = NoWallet
                        \/ Unlocked(p, u) /\ ~Covered(op, Seen(p, u), a)

\* CreditWallet, which makes the wallet if there is none.
CreditOrOpen(p, u, a, inTx) ==
  LET w == IF Seen(p, u) = NoWallet THEN EmptyWallet ELSE Seen(p, u)
  IN  Write(p, u, CreditBalance(w, a), inTx)

Commit(p) == /\ row' = [u \in User |-> IF lock[u] = p THEN ver[u] ELSE row[u]]
             /\ lock' = [u \in User |-> IF lock[u] = p THEN NoTx ELSE lock[u]]
             /\ UNCHANGED ver

\* Mutant: RunInTx returns without ending the transaction.
AbandonTx(p) == /\ ver' = [u \in User |-> IF lock[u] = p THEN row[u] ELSE ver[u]]
                /\ UNCHANGED <<row, lock>>

\* ROLLBACK, also what the server does when the connection is lost.  For a
\* session outside a transaction it has nothing to undo.
Rollback(p) == /\ ver' = [u \in User |-> IF lock[u] = p THEN row[u] ELSE ver[u]]
               /\ lock' = [u \in User |-> IF lock[u] = p THEN NoTx ELSE lock[u]]
               /\ UNCHANGED row

StoreInit(opening) == /\ row = opening
                      /\ ver = opening
                      /\ lock = [u \in User |-> NoTx]

(***************************************************************************)
(* Facts about the store that every user of it keeps: an unlocked row has  *)
(* no uncommitted version.                                                 *)
(***************************************************************************)
UnlockedRowsAreCommitted == \A u \in User : lock[u] = NoTx => ver[u] = row[u]
=============================================================================
