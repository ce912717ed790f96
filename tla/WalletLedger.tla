---------------------------- MODULE WalletLedger ----------------------------
(***************************************************************************)
(* The wallet use case over the wallets table: internal/usecase/wallet.go, *)
(* statement by statement, for any number of concurrent requests.          *)
(*                                                                         *)
(* A request runs a plan: the wallet calls its use case makes, in order,   *)
(* and whether they run in one RunInTx transaction (a gift, a bet, a room  *)
(* ticket) or each on its own (a deposit, a booking, a withdrawal freeze). *)
(* GetOrCreateWallet, the row lock, the balance check, the UPDATE, the row *)
(* in transactions and the cache invalidation are separate steps, and the  *)
(* steps of different requests interleave.                                 *)
(***************************************************************************)
EXTENDS WalletStore, Sequences

CONSTANTS Plan,      \* the plans a request may run
          Opening,   \* the wallets at the start
          Uncached   \* no entry under wallet:<user> in Redis

Op == RepoOps \cup {"read"}

WalletCall == [op : Op, user : User, amt : Nat]

ASSUME LedgerAssumption ==
  /\ Opening \in [User -> Wallet \cup {NoWallet}]
  /\ Plan \subseteq [tx : BOOLEAN, moves : Seq(WalletCall)]
  /\ \A pl \in Plan : pl.moves # <<>>
  \* no use case asks for a balance inside RunInTx
  /\ \A pl \in Plan : pl.tx => \A i \in DOMAIN pl.moves : pl.moves[i].op \in RepoOps
  /\ Uncached \notin Nat

VARIABLES
  pc,        \* pc[p]: the next step of request p
  plan,      \* plan[p]: what p was asked to do
  step,      \* step[p]: the wallet call p is in
  found,     \* found[p]: the balance GetOrCreateWallet is about to cache
  applied,   \* applied[p]: how many of its calls have moved money
  logged,    \* logged[p]: the calls whose row in transactions was inserted
  broken,    \* broken[p]: a statement failed, p's transaction cannot commit
  cache      \* Redis: wallet:<user>

requestVars == <<pc, plan, step, found, applied, logged, broken>>
vars == <<storeVars, requestVars, cache>>

Steps == {"idle", "lookup", "create", "fill", "select", "update", "record",
          "invalidate", "commit", "done", "failed"}

TypeOK == /\ StoreTypeOK
          /\ pc \in [Session -> Steps]
          /\ plan \in [Session -> Plan]
          /\ step \in [Session -> Nat]
          /\ \A p \in Session : step[p] \in 1..Len(plan[p].moves)
          /\ found \in [Session -> Nat]
          /\ applied \in [Session -> Nat]
          /\ logged \in [Session -> SUBSET Nat]
          /\ broken \in [Session -> BOOLEAN]
          /\ cache \in [User -> Nat \cup {Uncached}]

Active(p) == pc[p] \notin {"idle", "done", "failed"}
InTx(p)   == Active(p) /\ plan[p].tx
Call(p)   == plan[p].moves[step[p]]

\* The calls of p whose effect is committed.
Progress(p) == IF InTx(p) THEN 0 ELSE applied[p]

Entry(op) == IF op \in {"read", "credit"} THEN "lookup" ELSE "select"

\* CreditWallet and DebitWallet record and invalidate; Freeze and Unfreeze
\* are called on the repository directly and GetBalance writes nothing.
Recorded(op) == op \in {"credit", "debit"}

Init == /\ StoreInit(Opening)
        /\ pc = [p \in Session |-> "idle"]
        /\ plan \in [Session -> Plan]
        /\ step = [p \in Session |-> 1]
        /\ found = [p \in Session |-> 0]
        /\ applied = [p \in Session |-> 0]
        /\ logged = [p \in Session |-> {}]
        /\ broken = [p \in Session |-> FALSE]
        /\ cache = [u \in User |-> Uncached]

Goto(p, l) == pc' = [pc EXCEPT ![p] = l]

\* After the last statement of a call: the next call, or the end of the plan.
NextCall(p) ==
  IF step[p] < Len(plan[p].moves)
  THEN /\ step' = [step EXCEPT ![p] = @ + 1]
       /\ Goto(p, Entry(plan[p].moves[step[p] + 1].op))
  ELSE /\ Goto(p, IF plan[p].tx THEN "commit" ELSE "done")
       /\ UNCHANGED step

\* The request returns an error; RunInTx rolls its transaction back.
Fail(p) == /\ Rollback(p)
           /\ Goto(p, "failed")
           /\ applied' = IF plan[p].tx THEN [applied EXCEPT ![p] = 0] ELSE applied
           /\ logged' = IF plan[p].tx THEN [logged EXCEPT ![p] = {}] ELSE logged
           /\ UNCHANGED <<plan, step, found, broken, cache>>

-----------------------------------------------------------------------------
Start(p) == /\ pc[p] = "idle"
            /\ Goto(p, Entry(Call(p).op))
            /\ UNCHANGED <<storeVars, plan, step, found, applied, logged, broken, cache>>

(***************************************************************************)
(* GetOrCreateWallet                                                       *)
(***************************************************************************)
AfterLookup(p) == IF Call(p).op = "read" THEN NextCall(p)
                  ELSE Goto(p, "select") /\ UNCHANGED step

LookupHit(p) ==
  /\ pc[p] = "lookup"
  /\ cache[Call(p).user] # Uncached
  /\ AfterLookup(p)
  /\ UNCHANGED <<storeVars, plan, found, applied, logged, broken, cache>>

\* A read of the row; in a transaction it sees the transaction's own writes.
\* An error of Redis counts as a miss.
LookupMiss(p) ==
  LET w == Seen(p, Call(p).user)
  IN  /\ pc[p] = "lookup"
      /\ ~broken[p]
      /\ found' = [found EXCEPT ![p] = IF w = NoWallet THEN 0 ELSE w.bal]
      /\ Goto(p, IF w = NoWallet THEN "create" ELSE "fill")
      /\ UNCHANGED <<storeVars, plan, step, applied, logged, broken, cache>>

\* The INSERT waits for another one of the same user and then meets the
\* UNIQUE constraint on user_id.
CreateWallet(p) ==
  LET u == Call(p).user
  IN  /\ pc[p] = "create"
      /\ Seen(p, u) = NoWallet
      /\ Write(p, u, EmptyWallet, plan[p].tx)
      /\ Goto(p, "fill")
      /\ UNCHANGED <<plan, step, found, applied, logged, broken, cache>>

CreateConflict(p) ==
  LET u == Call(p).user
  IN  /\ pc[p] = "create"
      /\ Unlocked(p, u)
      /\ Seen(p, u) # NoWallet
      /\ Fail(p)

\* Redis may fail here and below; neither error is looked at.
FillCache(p) == /\ pc[p] = "fill"
                /\ cache' \in {cache, [cache EXCEPT ![Call(p).user] = found[p]]}
                /\ AfterLookup(p)
                /\ UNCHANGED <<storeVars, plan, found, applied, logged, broken>>

(***************************************************************************)
(* The repository's SELECT ... FOR UPDATE with the check on what it read,  *)
(* and the UPDATE.                                                         *)
(***************************************************************************)
CheckBalance(p) ==
  LET c == Call(p)
  IN  /\ pc[p] = "select"
      /\ ~broken[p]
      /\ Seen(p, c.user) # NoWallet
      /\ Covered(c.op, Seen(p, c.user), c.amt)
      /\ SelectForUpdate(p, c.user, plan[p].tx)
      /\ Goto(p, "update")
      /\ UNCHANGED <<plan, step, found, applied, logged, broken, cache>>

\* No row: only CreditBalance goes on to the UPDATE, which then changes no row.
CreditsNoRow(p) ==
  /\ pc[p] = "select"
  /\ ~broken[p]
  /\ Call(p).op = "credit"
  /\ Seen(p, Call(p).user) = NoWallet
  /\ Goto(p, "update")
  /\ UNCHANGED <<storeVars, plan, step, found, applied, logged, broken, cache>>

Refuse(p) ==
  LET c == Call(p)
      w == Seen(p, c.user)
  IN  /\ pc[p] = "select"
      /\ \/ w = NoWallet /\ c.op # "credit"
         \/ w # NoWallet /\ Unlocked(p, c.user) /\ ~Covered(c.op, w, c.amt)
      /\ Fail(p)

UpdateBalance(p) ==
  LET c == Call(p)
      w == Moved(c.op, Seen(p, c.user), c.amt)
  IN  /\ pc[p] = "update"
      /\ Seen(p, c.user) # NoWallet
      /\ CheckOK(w)
      /\ Write(p, c.user, w, plan[p].tx)
      /\ applied' = [applied EXCEPT ![p] = step[p]]
      /\ IF Recorded(c.op) THEN Goto(p, "record") /\ UNCHANGED step ELSE NextCall(p)
      /\ UNCHANGED <<plan, found, logged, broken, cache>>

\* The UPDATE meets no row, or the CHECK constraint.
UpdateFails(p) ==
  LET c == Call(p)
      w == Seen(p, c.user)
  IN  /\ pc[p] = "update"
      /\ \/ w = NoWallet
         \/ w # NoWallet /\ Unlocked(p, c.user) /\ ~CheckOK(Moved(c.op, w, c.amt))
      /\ Fail(p)

(***************************************************************************)
(* The row in transactions.  Its error is only logged, but PostgreSQL      *)
(* refuses every later statement of a transaction in which one failed.     *)
(***************************************************************************)
RecordTransaction(p) ==
  /\ pc[p] = "record"
  /\ logged' = [logged EXCEPT ![p] = @ \cup {step[p]}]
  /\ Goto(p, "invalidate")
  /\ UNCHANGED <<storeVars, plan, step, found, applied, broken, cache>>

\* Mutant: the failed INSERT leaves the transaction usable.
RecordSkipped(p) ==
  /\ pc[p] = "record"
  /\ Goto(p, "invalidate")
  /\ UNCHANGED <<storeVars, plan, step, found, applied, logged, broken, cache>>

RecordFails(p) ==
  /\ pc[p] = "record"
  /\ broken' = [broken EXCEPT ![p] = plan[p].tx]
  /\ Goto(p, "invalidate")
  /\ UNCHANGED <<storeVars, plan, step, found, applied, logged, cache>>

InvalidateCache(p) ==
  /\ pc[p] = "invalidate"
  /\ cache' \in {cache, [cache EXCEPT ![Call(p).user] = Uncached]}
  /\ NextCall(p)
  /\ UNCHANGED <<storeVars, plan, found, applied, logged, broken>>

(***************************************************************************)
(* The end of RunInTx                                                      *)
(***************************************************************************)
CommitTx(p) == /\ pc[p] = "commit"
               /\ ~broken[p]
               /\ Commit(p)
               \* the server commits, but its answer may be lost
               /\ \E l \in {"done", "failed"} : Goto(p, l)
               /\ UNCHANGED <<plan, step, found, applied, logged, broken, cache>>

\* A statement of a broken transaction, its COMMIT included, is an error.
BrokenFails(p) == /\ broken[p]
                  /\ pc[p] \in {"lookup", "select", "commit"}
                  /\ Fail(p)

\* The client goes away, the process dies or the connection drops.
ConnectionLost(p) == Active(p) /\ Fail(p)

(***************************************************************************)
(* Row locks held by transactions waiting for each other: PostgreSQL       *)
(* aborts one of them.                                                     *)
(***************************************************************************)
Blocked(p) == /\ pc[p] \in {"create", "select", "update"}
              /\ ~Unlocked(p, Call(p).user)
              /\ pc[p] # "create" => row[Call(p).user] # NoWallet

Blocker(p) == lock[Call(p).user]

WaitCycle(S) == /\ \A p \in S : Blocked(p)
                /\ {Blocker(p) : p \in S} = S

DeadlockDetected(p) == /\ \E S \in SUBSET Session : p \in S /\ WaitCycle(S)
                       /\ Fail(p)

\* Mutant: SET without a time to live.
KeptForEver(u) == FALSE

\* The Redis entry lives for 5 minutes.
CacheExpires(u) == /\ cache[u] # Uncached
                   /\ cache' = [cache EXCEPT ![u] = Uncached]
                   /\ UNCHANGED <<storeVars, requestVars>>

Finished == /\ \A p \in Session : pc[p] \in {"done", "failed"}
            /\ UNCHANGED vars

Advance(p) ==
  \/ LookupHit(p) \/ LookupMiss(p)
  \/ CreateWallet(p) \/ CreateConflict(p) \/ FillCache(p)
  \/ CheckBalance(p) \/ CreditsNoRow(p) \/ Refuse(p)
  \/ UpdateBalance(p) \/ UpdateFails(p)
  \/ RecordTransaction(p) \/ RecordFails(p) \/ InvalidateCache(p)
  \/ CommitTx(p) \/ BrokenFails(p) \/ DeadlockDetected(p)

Next == \/ \E p \in Session : Start(p) \/ Advance(p) \/ ConnectionLost(p)
        \/ \E u \in User : CacheExpires(u)
        \/ Finished

Spec == Init /\ [][Next]_vars

\* A started request keeps running, a deadlock is detected, an entry expires.
Fairness == /\ \A p \in Session : WF_vars(Advance(p))
            /\ \A u \in User : WF_vars(CacheExpires(u))

LiveSpec == Spec /\ Fairness

-----------------------------------------------------------------------------
(***************************************************************************)
(* Properties                                                              *)
(***************************************************************************)

\* Inside a transaction the balance check of DebitBalance, FreezeBalance and
\* UnfreezeBalance is still true when their UPDATE runs, whatever the other
\* requests did since: the CHECK constraints are never what stops it.
CheckStillHolds ==
  \A p \in Session : InTx(p) /\ pc[p] = "update" /\ Call(p).op # "credit" =>
    LET w == Seen(p, Call(p).user)
    IN  w # NoWallet /\ CheckOK(Moved(Call(p).op, w, Call(p).amt))

\* The rows of transactions never claim a movement that did not happen, and
\* a committed transaction has a row for every credit and debit it made,
\* although an error of the INSERT is only logged.
LedgerRowsMatchMovements ==
  \A p \in Session :
    LET recordable == {i \in 1..applied[p] : Recorded(plan[p].moves[i].op)}
    IN  /\ logged[p] \subseteq recordable
        /\ plan[p].tx /\ ~Active(p) => logged[p] = recordable

\* Each request takes effect as RunInTx promises: all its calls at one
\* instant or none of them; and outside a transaction call by call, each on
\* the balance of that instant.
Atomic == INSTANCE AtomicLedger
            WITH wallets <- row, progress <- [p \in Session |-> Progress(p)]
ImplementsAtomicLedger == Atomic!Spec

\* No request waits for ever, however the row locks are taken.
RequestsEnd == \A p \in Session : Active(p) ~> ~Active(p)

\* Once nobody touches wallets any more the cached balance is the balance or
\* gone, although a reader may have cached a value that was overwritten, or
\* one that was never committed.
CacheBecomesFresh ==
  <>[](\A u \in User : cache[u] # Uncached =>
         row[u] # NoWallet /\ cache[u] = row[u].bal)

\* The requests end, and the cache settles on what they left.
RequestsSettle == RequestsEnd /\ CacheBecomesFresh
=============================================================================
