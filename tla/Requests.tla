------------------------------ MODULE Requests ------------------------------
(***************************************************************************)
(* The requests of the use cases that move money besides changing a table  *)
(* of their own: gifts, paid rooms, bookings, lucky bags, memberships.     *)
(* Such a request reads what it needs, checks it, and then runs a fixed    *)
(* sequence of statements, inside RunInTx or each in a transaction of its  *)
(* own.  The modules of the use cases say which sequence; this one runs    *)
(* the statements of internal/repository/wallet.go, COMMIT and ROLLBACK.   *)
(*                                                                         *)
(* A statement is a tuple: <<"debit", user, amount>>, <<"commit">>, ...    *)
(* A label that begins with "try" marks a call whose error is ignored.     *)
(***************************************************************************)
EXTENDS WalletStore, Sequences, FiniteSetsExt

CONSTANTS Jobs,      \* what the requests may be: functions from Session
          Opening,   \* the wallets at the start
          Faults     \* bound: the statements that fail for no reason of their own

ASSUME RequestAssumption == /\ Opening \in [User -> Wallet]
                            /\ Faults \in Nat
                            /\ \A j \in Jobs : DOMAIN j = Session

VARIABLES
  job,      \* job[p]: the request
  fate,     \* fate[p]: "new", "running", "done" or "failed"
  plan,     \* plan[p]: the statements it still has to run
  inTx,     \* inTx[p]: whether they run in the transaction of RunInTx
  again,    \* again[p]: what RunInTx is called with if it fails, once per element
  moved,    \* history: moved[p][u] is what p has done to the balance of u
  lost,     \* history: lost[p], the commits of p whose success it never heard of
  met,      \* history: met[p], the requests that ran at the same time as p
  faults
controlVars == <<job, fate, plan, inTx, again, lost, met, faults>>
requestVars == <<storeVars, controlVars, moved>>

Fates == {"new", "running", "done", "failed"}

RequestTypeOK ==
  /\ StoreTypeOK
  /\ DOMAIN job = Session
  /\ fate \in [Session -> Fates]
  /\ DOMAIN plan = Session /\ DOMAIN again = Session
  /\ \A p \in Session : fate[p] = "running" => plan[p] # <<>>
  /\ inTx \in [Session -> BOOLEAN]
  /\ moved \in [Session -> [User -> Int]]
  /\ lost \in [Session -> Nat]
  /\ met \in [Session -> SUBSET Session]
  /\ faults \in 0..Faults

RequestInit == /\ StoreInit(Opening)
               /\ job \in Jobs
               /\ fate = [p \in Session |-> IF job[p].kind = "none" THEN "done" ELSE "new"]
               /\ plan = [p \in Session |-> <<>>]
               /\ inTx = [p \in Session |-> FALSE]
               /\ again = [p \in Session |-> <<>>]
               /\ moved = [p \in Session |-> [u \in User |-> 0]]
               /\ lost = [p \in Session |-> 0]
               /\ met = [p \in Session |-> {}]
               /\ faults = 0

Running == {p \in Session : fate[p] = "running"}
Kind(k) == {p \in Session : job[p].kind = k}
Alone(p, q) == p \notin met[q] /\ q \notin met[p]

Asked(p, k) == fate[p] = "new" /\ job[p].kind = k
At(p, s) == fate[p] = "running" /\ Head(plan[p])[1] = s
Arg(p, n) == Head(plan[p])[n]

(***************************************************************************)
(* What a step does to the request itself.                                 *)
(***************************************************************************)
Meet(p) == met' = [q \in Session |-> IF q = p THEN Running
                                     ELSE IF q \in Running THEN met[q] \cup {p} ELSE met[q]]

\* The request has read and checked what it needs and goes on to s.  A
\* transaction that fails is run again from the start, retries times.
Start(p, s, tx, retries) ==
  /\ plan' = [plan EXCEPT ![p] = s]
  /\ again' = [again EXCEPT ![p] = [i \in 1..retries |-> s]]
  /\ inTx' = [inTx EXCEPT ![p] = tx]
  /\ fate' = [fate EXCEPT ![p] = "running"]
  /\ Meet(p)
  /\ UNCHANGED <<job, moved, lost>>
Begin(p, s, tx, retries) == Start(p, s, tx, retries) /\ UNCHANGED faults

Fault == faults < Faults /\ faults' = faults + 1

\* The same after a read whose error is ignored: it goes on as if there were
\* nothing to find.
BeginBlindly(p, s, tx, retries) == Start(p, s, tx, retries) /\ Fault

Ends(p, f) == /\ fate' = [fate EXCEPT ![p] = f]
              /\ UNCHANGED <<job, plan, inTx, again, moved, lost, met, faults>>

\* A new request that is refused, or has nothing to write.
Refuse(p) == Ends(p, "failed")
Return(p) == Ends(p, "done")

Follow(p, s) == /\ plan' = [plan EXCEPT ![p] = s]
                /\ fate' = [fate EXCEPT ![p] = IF s = <<>> THEN "done" ELSE "running"]

Rest(p) == Tail(plan[p])

\* A statement that leaves the wallets alone is done.
GoTo(p, s) == Follow(p, s) /\ UNCHANGED <<job, inTx, again, moved, lost, met, faults>>
Continue(p) == GoTo(p, Rest(p))

\* A statement fails and its error is ignored: p goes on to s.
Ignore(p, s) == /\ Fault
                /\ Follow(p, s)
                /\ UNCHANGED <<job, inTx, again, moved, lost, met>>

\* An error comes back: the transaction, if there is one, is undone, and is
\* tried again or the request ends where it stands.
Error(p) == /\ inTx[p] /\ again[p] # <<>>
            /\ plan' = [plan EXCEPT ![p] = Head(again[p])]
            /\ again' = [again EXCEPT ![p] = Tail(@)]
            /\ UNCHANGED <<inTx, fate>>
         \/ /\ inTx[p] => again[p] = <<>>
            /\ fate' = [fate EXCEPT ![p] = "failed"]
            /\ inTx' = [inTx EXCEPT ![p] = FALSE]
            /\ UNCHANGED <<plan, again>>

Abort(p) == /\ Rollback(p)
            /\ Error(p)
            /\ UNCHANGED <<job, moved, lost, met, faults>>

\* p waits for a row lock, and its holder for p, at once or through a third.
Waits(p) == /\ fate[p] = "running"
            /\ Head(plan[p])[1] \in {"debit", "credit", "tryCredit"}
            /\ ~Unlocked(p, Arg(p, 2))
Holder(p) == lock[Arg(p, 2)]
Deadlocked(p) == /\ Waits(p) /\ Waits(Holder(p))
                 /\ \/ Holder(Holder(p)) = p
                    \/ Waits(Holder(Holder(p))) /\ Holder(Holder(Holder(p))) = p

\* The statement fails: PostgreSQL breaks a deadlock, or a timeout, or the
\* client or the connection is gone.
Fail(p) == /\ \/ Deadlocked(p) /\ UNCHANGED faults
              \/ fate[p] = "running" /\ faults < Faults /\ faults' = faults + 1
           /\ Rollback(p)
           /\ Error(p)
           /\ UNCHANGED <<job, moved, lost, met>>

-----------------------------------------------------------------------------
(***************************************************************************)
(* The statements on the wallets.                                          *)
(***************************************************************************)
Balance(w) == IF w = NoWallet THEN 0 ELSE w.bal

\* The committed movements of p.
Book(p) == moved' = [moved EXCEPT ![p] =
                       [u \in User |-> @[u] + Balance(row'[u]) - Balance(row[u])]]

Settled(p) == /\ Follow(p, Rest(p))
              /\ Book(p)
              /\ UNCHANGED <<job, inTx, again, lost, met, faults>>

\* GetByUserID and the comparison of the balance with a price.
Afford(p) == /\ At(p, "afford")
             /\ \/ /\ Balance(Seen(p, Arg(p, 2))) >= Arg(p, 3)
                   /\ Continue(p) /\ UNCHANGED storeVars
                \/ Balance(Seen(p, Arg(p, 2))) < Arg(p, 3) /\ Abort(p)

Debit(p) == /\ At(p, "debit")
            /\ \/ Move(p, "debit", Arg(p, 2), Arg(p, 3), inTx[p]) /\ Settled(p)
               \/ Refused(p, "debit", Arg(p, 2), Arg(p, 3)) /\ Abort(p)

Credit(p) == /\ At(p, "credit")
             /\ CreditOrOpen(p, Arg(p, 2), Arg(p, 3), inTx[p])
             /\ Settled(p)

\* A credit whose error is ignored: only a fault makes it fail.
TryCredit(p) == /\ At(p, "tryCredit")
                /\ \/ CreditOrOpen(p, Arg(p, 2), Arg(p, 3), inTx[p]) /\ Settled(p)
                   \/ Ignore(p, Rest(p)) /\ UNCHANGED storeVars

\* The answer to COMMIT may be lost with the connection: RunInTx then returns
\* an error although the transaction has taken effect.
CommitTx(p) ==
  /\ Commit(p)
  /\ Book(p)
  /\ \/ /\ Follow(p, Rest(p))
        /\ inTx' = [inTx EXCEPT ![p] = FALSE]
        /\ UNCHANGED <<again, lost, faults>>
     \/ /\ faults < Faults /\ faults' = faults + 1
        /\ Error(p)
        /\ lost' = [lost EXCEPT ![p] = @ + 1]
  /\ UNCHANGED <<job, met>>

EndTx(p) == At(p, "commit") /\ CommitTx(p)

WalletStep(p) == Afford(p) \/ Debit(p) \/ Credit(p) \/ TryCredit(p) \/ EndTx(p) \/ Fail(p)

Quiet == \A p \in Session : fate[p] \in {"done", "failed"}
=============================================================================
