---------------------------- MODULE AtomicLedger ----------------------------
(***************************************************************************)
(* What a caller of the wallet use case may rely on: a transaction's calls *)
(* all take effect at one instant, or none does; a call made outside a     *)
(* transaction takes effect at one instant of its own.  No call overdraws  *)
(* a wallet.  WalletLedger implements this with row locks and statements.  *)
(***************************************************************************)
EXTENDS Integers, Sequences

CONSTANTS User, Session, NoWallet, Plan, Opening

VARIABLES wallets,   \* the committed wallets
          plan,      \* what each request was asked to do
          progress   \* the last call of each request that moved money
vars == <<wallets, plan, progress>>

RepoOps == {"credit", "debit", "freeze", "unfreeze"}

\* A wallet exists for whoever is credited.
Opened(w) == IF w = NoWallet THEN [bal |-> 0, frz |-> 0] ELSE w

Allowed(op, w, a) == CASE op = "credit"             -> TRUE
                       [] op \in {"debit", "freeze"} -> w # NoWallet /\ w.bal >= a
                       [] op = "unfreeze"            -> w # NoWallet /\ w.frz >= a

After(op, w, a) ==
  LET o == Opened(w)
  IN  CASE op = "credit"   -> [o EXCEPT !.bal = @ + a]
        [] op = "debit"    -> [o EXCEPT !.bal = @ - a]
        [] op = "freeze"   -> [bal |-> o.bal - a, frz |-> o.frz + a]
        [] op = "unfreeze" -> [bal |-> o.bal + a, frz |-> o.frz - a]

\* One more call on the wallets r.at, and whether all of them were covered.
OneCall(r, c) ==
  [ok |-> r.ok /\ Allowed(c.op, r.at[c.user], c.amt),
   at |-> [r.at EXCEPT ![c.user] = After(c.op, @, c.amt)]]

\* What each number of the calls, one after the other, makes of the wallets w.
Outcomes(w, calls) ==
  LET after[i \in 0..Len(calls)] ==
        IF i = 0 THEN [ok |-> TRUE, at |-> w] ELSE OneCall(after[i - 1], calls[i])
  IN  after

Outcome(calls) == Outcomes(wallets, calls)[Len(calls)]

Init == /\ wallets = Opening
        /\ plan \in [Session -> Plan]
        /\ progress = [p \in Session |-> 0]

Transaction(p) ==
  /\ plan[p].tx
  /\ progress[p] = 0
  /\ Outcome(plan[p].moves).ok
  /\ wallets' = Outcome(plan[p].moves).at
  /\ progress' = [progress EXCEPT ![p] = Len(plan[p].moves)]
  /\ UNCHANGED plan

SingleCall(p) ==
  /\ ~plan[p].tx
  /\ \E i \in DOMAIN plan[p].moves :
       /\ i > progress[p]
       /\ \A j \in progress[p] + 1 .. i - 1 : plan[p].moves[j].op = "read"
       /\ plan[p].moves[i].op \in RepoOps
       /\ Outcome(<<plan[p].moves[i]>>).ok
       /\ wallets' = Outcome(<<plan[p].moves[i]>>).at
       /\ progress' = [progress EXCEPT ![p] = i]
  /\ UNCHANGED plan

\* GetOrCreateWallet outside a transaction.
Open(u) == /\ wallets[u] = NoWallet
           /\ wallets' = [wallets EXCEPT ![u] = Opened(@)]
           /\ UNCHANGED <<plan, progress>>

Next == \/ \E p \in Session : Transaction(p) \/ SingleCall(p)
        \/ \E u \in User : Open(u)

Spec == Init /\ [][Next]_vars
=============================================================================
