------------------------------ MODULE Payouts -------------------------------
(***************************************************************************)
(* Where a user's money leaves to and comes from: payout_usecase.go on     *)
(* payout_methods and crypto_payout_addresses, crypto.go on the addresses  *)
(* derived for deposits and on crypto withdrawals, and the monitor that    *)
(* counts their confirmations (internal/worker/crypto_monitor.go).         *)
(*                                                                         *)
(* The limits are counted before the INSERT; the primary method is unset   *)
(* by a statement of its own before another one is written; the index of a *)
(* new deposit address is read before its row is written.                  *)
(***************************************************************************)
EXTENDS Calls, Integers, FiniteSetsExt

CONSTANTS Owner, Method,
          OldMethods,    \* OldMethods[u]: the bank accounts u starts with, the first primary
          BankLimit, AddressLimit,
          Chain, Solana, Bitcoin,  \* of the chains, the two treated in ways of their own
          HotWallets,    \* the chains with an active master wallet
          Whitelist,     \* the verified <<user, chain>> of crypto_withdrawal_whitelist
          PerDay,        \* addresses generated per day
          Day,           \* 24 hours, in ticks
          Unlimited,     \* the TTL of a key without one
          NoTransfer

ASSUME PayoutAssumption == /\ OldMethods \in [Owner -> Seq(Method)]
                           /\ {BankLimit, AddressLimit, PerDay, Day, Unlimited} \subseteq Nat
                           /\ MaxTime + Day < Unlimited
                           /\ {Solana, Bitcoin} \cup HotWallets \subseteq Chain
                           /\ Whitelist \subseteq Owner \X Chain

VARIABLES methods,   \* methods[u]: the ids of the rows of u
          primary,   \* primary[u]: those of them with is_primary
          addresses, \* addresses[u]: the calls that have a row in crypto_payout_addresses
          deposits,  \* crypto_deposit_addresses: the call that wrote a row, and the row
          generated, \* generated[u]: crypto:addr_gen:<user>, its count and when it expires
          transfers  \* crypto_transactions, by the call that wrote the row
methodVars == <<methods, primary, addresses>>
cryptoVars == <<deposits, generated, transfers>>
payoutVars == <<methodVars, cryptoVars>>

PayoutTypeOK == /\ methods \in [Owner -> SUBSET Method]
                /\ primary \in [Owner -> SUBSET Method]
                /\ addresses \in [Owner -> SUBSET Proc]
                /\ deposits \subseteq [by : Proc, user : Owner, chain : Chain, index : Nat]
                /\ generated \in [Owner -> [count : Nat, until : Nat]]
                /\ \A p \in Proc : transfers[p] # NoTransfer =>
                     transfers[p] \in [chain : Chain, confirmations : Nat,
                                      status : {"pending", "confirming", "success"}]

MethodInit == /\ methods = [u \in Owner |-> {OldMethods[u][i] : i \in DOMAIN OldMethods[u]}]
              /\ primary = [u \in Owner |-> IF OldMethods[u] = <<>> THEN {} ELSE {OldMethods[u][1]}]
              /\ addresses = [u \in Owner |-> {}]

CryptoInit == /\ deposits = {}
              /\ generated = [u \in Owner |-> [count |-> 0, until |-> Unlimited]]
              /\ transfers = [p \in Proc |-> NoTransfer]

\* An update names the new value of is_primary, or leaves it ("keep").
CreateMethodRequest == [kind : {"createMethod"}, user : Owner, method : Method, primary : BOOLEAN]
UpdateMethodRequest == [kind : {"updateMethod"}, user : Owner, method : Method,
                        primary : {"keep", "yes", "no"}]
DeleteMethodRequest == [kind : {"deleteMethod"}, user : Owner, method : Method]
SetPrimaryRequest == [kind : {"setPrimary"}, user : Owner, method : Method]
CreateAddressRequest == [kind : {"createAddress"}, user : Owner]
DeleteAddressRequest == [kind : {"deleteAddress"}, user : Owner, of : Proc]
MethodRequests == CreateMethodRequest \cup UpdateMethodRequest \cup DeleteMethodRequest
                  \cup SetPrimaryRequest \cup CreateAddressRequest \cup DeleteAddressRequest
DepositAddressRequest == [kind : {"depositAddress"}, user : Owner, chain : Chain]
CryptoWithdrawalRequest == [kind : {"cryptoWithdrawal"}, user : Owner, chain : Chain]
CryptoMonitorRun == [kind : {"trackConfirmations"}]
PayoutRequests == MethodRequests \cup DepositAddressRequest \cup CryptoWithdrawalRequest
                  \cup CryptoMonitorRun

Has(p) == job[p].method \in methods[job[p].user]

CreatePayoutMethod(p) ==
  /\ Asked(p, "createMethod")
  /\ IF Cardinality(methods[job[p].user]) >= BankLimit THEN Refuse(p)
     ELSE Begin(p, (IF job[p].primary THEN <<"unsetPrimary">> ELSE <<>>) \o <<"insertMethod">>,
                [primary |-> job[p].primary])
  /\ UNCHANGED methodVars

\* Mutant: WHERE user_id = $1 is missing.
UnsetPrimaryOfAll(p) == /\ At(p, "unsetPrimary")
                        /\ primary' = [u \in Owner |-> {}]
                        /\ Continue(p)
                        /\ UNCHANGED <<methods, addresses>>

UnsetPrimaryByUserID(p) == /\ At(p, "unsetPrimary")
                           /\ primary' = [primary EXCEPT ![job[p].user] = {}]
                           /\ Continue(p)
                           /\ UNCHANGED <<methods, addresses>>

\* What writing the row makes of the primary ones; they are UNIQUE (user_id).
Marked(u, i, is) == IF is THEN primary[u] \cup {i} ELSE primary[u] \ {i}
WriteMethod(p, v) ==
  LET u == job[p].user  marked == Marked(u, job[p].method, seen[p].primary) IN
    IF Cardinality(marked) > 1 THEN Stop(p) /\ UNCHANGED <<methods, primary>>
    ELSE /\ methods' = [methods EXCEPT ![u] = @ \cup {job[p].method}]
         /\ primary' = [primary EXCEPT ![u] = marked]
         /\ Hold(p, v)

InsertMethod(p) == /\ At(p, "insertMethod")
                   /\ WriteMethod(p, Nothing)
                   /\ UNCHANGED addresses

UpdatePayoutMethod(p) ==
  /\ Asked(p, "updateMethod")
  /\ LET is == \/ job[p].primary = "yes"
               \/ job[p].primary = "keep" /\ job[p].method \in primary[job[p].user] IN
       IF ~Has(p) THEN Refuse(p)
       ELSE Begin(p, IF is THEN <<"unsetPrimary", "updateMethod", "markPrimary">>
                     ELSE <<"updateMethod">>, [primary |-> is])
  /\ UNCHANGED methodVars

\* UPDATE ... RETURNING: it fails when the row is gone.
UpdateMethod(p) ==
  /\ At(p, "updateMethod")
  /\ IF Has(p) THEN WriteMethod(p, seen[p]) ELSE Stop(p) /\ UNCHANGED <<methods, primary>>
  /\ UNCHANGED addresses

\* One transaction: all rows of the user, then the row, if there is one.
MarkPrimary(p) ==
  /\ At(p, "markPrimary")
  /\ primary' = [primary EXCEPT ![job[p].user] = {job[p].method} \cap methods[job[p].user]]
  /\ Continue(p)
  /\ UNCHANGED <<methods, addresses>>

SetPrimaryPayoutMethod(p) ==
  /\ Asked(p, "setPrimary")
  /\ IF Has(p) THEN Begin(p, <<"markPrimary">>, Nothing) ELSE Refuse(p)
  /\ UNCHANGED methodVars

DeletePayoutMethod(p) ==
  /\ Asked(p, "deleteMethod")
  /\ methods' = [methods EXCEPT ![job[p].user] = @ \ {job[p].method}]
  /\ primary' = [primary EXCEPT ![job[p].user] = @ \ {job[p].method}]
  /\ Return(p)
  /\ UNCHANGED addresses

CreateCryptoPayoutAddress(p) ==
  /\ Asked(p, "createAddress")
  /\ IF Cardinality(addresses[job[p].user]) >= AddressLimit THEN Refuse(p)
     ELSE Begin(p, <<"insertAddress">>, Nothing)
  /\ UNCHANGED methodVars

InsertAddress(p) == /\ At(p, "insertAddress")
                    /\ addresses' = [addresses EXCEPT ![job[p].user] = @ \cup {p}]
                    /\ Continue(p)
                    /\ UNCHANGED <<methods, primary>>

DeleteCryptoPayoutAddress(p) ==
  /\ Asked(p, "deleteAddress")
  /\ addresses' = [addresses EXCEPT ![job[p].user] = @ \ {job[p].of}]
  /\ Return(p)
  /\ UNCHANGED <<methods, primary>>

MethodStep(p) ==
  \/ CreatePayoutMethod(p) \/ UnsetPrimaryByUserID(p) \/ InsertMethod(p)
  \/ UpdatePayoutMethod(p) \/ UpdateMethod(p) \/ MarkPrimary(p)
  \/ SetPrimaryPayoutMethod(p) \/ DeletePayoutMethod(p)
  \/ CreateCryptoPayoutAddress(p) \/ InsertAddress(p) \/ DeleteCryptoPayoutAddress(p)

-----------------------------------------------------------------------------
(***************************************************************************)
(* Deposit addresses.  GetOrCreateDepositAddress counts the attempt before *)
(* it knows whether there will be an address; an error of Redis counts as  *)
(* no attempt at all.                                                      *)
(***************************************************************************)
Row(u, c) == {d \in deposits : d.user = u /\ d.chain = c}

GetOrCreateDepositAddress(p) ==
  /\ Asked(p, "depositAddress")
  /\ IF Row(job[p].user, job[p].chain) # {} THEN Return(p)
     ELSE Begin(p, <<"countAttempt", "nextIndex", "insertDeposit">>, Nothing)
  /\ UNCHANGED cryptoVars

\* INCR: a key that has expired starts again, without a TTL.
CountAttempt(p) ==
  LET u == job[p].user
      g == IF generated[u].until > now THEN generated[u] ELSE [count |-> 0, until |-> Unlimited] IN
    /\ At(p, "countAttempt")
    /\ generated' = [generated EXCEPT ![u] = [g EXCEPT !.count = @ + 1]]
    /\ IF g.count >= PerDay THEN Stop(p)
       ELSE Go(p, (IF g.count = 0 THEN <<"expireAttempts">> ELSE <<>>) \o Tail(plan[p]), Nothing)
    /\ UNCHANGED <<deposits, transfers>>

\* Mutant: the TTL is set when the limit is reached, not when the key is new.
ExpireAtLimit(p) ==
  LET u == job[p].user IN
    /\ At(p, "expireAttempts")
    /\ generated' = [generated EXCEPT ![u] =
                       IF @.count = PerDay THEN [@ EXCEPT !.until = now + Day] ELSE @]
    /\ Continue(p)
    /\ UNCHANGED <<deposits, transfers>>

ExpireAttempts(p) ==
  /\ At(p, "expireAttempts")
  /\ generated' = [generated EXCEPT ![job[p].user].until = now + Day]
  /\ Continue(p)
  /\ UNCHANGED <<deposits, transfers>>

\* Mutant: the last index is looked up among the rows of the user.
LastIndexOfUser(p, c) == Max({-1} \cup {d.index : d \in Row(job[p].user, c)})

\* MAX(derivation_index) of the master wallet of the chain.
GetLastDerivationIndex(p, c) == Max({-1} \cup {d.index : d \in {e \in deposits : e.chain = c}})

\* DeriveBitcoin reads the coin type of the parameters it is not given;
\* DeriveEthereum serves every other chain, with the index of that chain.
Derives(c) == c # Bitcoin
Family(c) == IF c \in {Bitcoin, Solana} THEN c ELSE "EVM"
Address(d) == <<Family(d.chain), d.index>>

\* Without a master wallet there is an error.
GetMasterWalletByChain(c) == c \in HotWallets

NextIndex(p) ==
  /\ At(p, "nextIndex")
  /\ IF ~GetMasterWalletByChain(job[p].chain) \/ ~Derives(job[p].chain) THEN Stop(p)
     ELSE Hold(p, [index |-> GetLastDerivationIndex(p, job[p].chain) + 1])
  /\ UNCHANGED cryptoVars

\* UNIQUE (user_id, chain).
CreateDepositAddress(p) ==
  LET u == job[p].user  c == job[p].chain IN
    /\ At(p, "insertDeposit")
    /\ IF Row(u, c) # {} THEN Stop(p) /\ UNCHANGED deposits
       ELSE /\ deposits' = deposits
                  \cup {[by |-> p, user |-> u, chain |-> c, index |-> seen[p].index]}
            /\ Continue(p)
    /\ UNCHANGED <<generated, transfers>>

-----------------------------------------------------------------------------
(***************************************************************************)
(* Crypto withdrawals.  Nothing is signed or sent yet (ProcessWithdrawal   *)
(* only logs): the row is written, and the monitor counts for it.          *)
(***************************************************************************)
Required(c) == CASE c = Bitcoin -> 6 [] c = Solana -> 1 [] OTHER -> 12

GetWhitelist(u, c) == Whitelist \cap {<<u, c>>}

RequestCryptoWithdrawal(p) ==
  /\ Asked(p, "cryptoWithdrawal")
  /\ IF GetWhitelist(job[p].user, job[p].chain) = {} THEN Refuse(p)
     ELSE Begin(p, <<"insertTransfer">>, Nothing)
  /\ UNCHANGED cryptoVars

CreateTransaction(p) ==
  /\ At(p, "insertTransfer")
  /\ transfers' = [transfers EXCEPT ![p] =
                     [chain |-> job[p].chain, confirmations |-> 0, status |-> "pending"]]
  /\ Continue(p)
  /\ UNCHANGED <<deposits, generated>>

ListPendingTransactions ==
  {q \in Proc : transfers[q] # NoTransfer /\ transfers[q].status \in {"pending", "confirming"}}

\* Mutant: confirmations of chains the monitor cannot ask are counted as well.
TrackEveryChain(p) ==
  /\ Asked(p, "trackConfirmations")
  /\ LET listed == ListPendingTransactions IN
       Begin(p, [i \in 1..Cardinality(listed) |-> "confirm"],
             [q \in listed |-> transfers[q].confirmations])
  /\ UNCHANGED cryptoVars

\* An EVM chain is asked about a hash no row has and answers with an error;
\* Bitcoin is passed over; a Solana row gets one more, whatever the chain says.
TrackConfirmations(p) ==
  /\ Asked(p, "trackConfirmations")
  /\ LET listed == {q \in ListPendingTransactions : transfers[q].chain = Solana} IN
       Begin(p, [i \in 1..Cardinality(listed) |-> "confirm"],
             [q \in listed |-> transfers[q].confirmations])
  /\ UNCHANGED cryptoVars

UpdateTransactionStatus(p) ==
  \E q \in DOMAIN seen[p] :
    LET n == seen[p][q] + 1 IN
      /\ At(p, "confirm")
      /\ transfers' = [transfers EXCEPT ![q] =
                         [chain |-> @.chain, confirmations |-> n,
                          status |-> IF n >= Required(@.chain) THEN "success" ELSE "confirming"]]
      /\ Hold(p, [r \in DOMAIN seen[p] \ {q} |-> seen[p][r]])
      /\ UNCHANGED <<deposits, generated>>

CryptoStep(p) ==
  \/ GetOrCreateDepositAddress(p) \/ CountAttempt(p) \/ ExpireAttempts(p) \/ NextIndex(p)
  \/ CreateDepositAddress(p)
  \/ RequestCryptoWithdrawal(p) \/ CreateTransaction(p)
  \/ TrackConfirmations(p) \/ UpdateTransactionStatus(p)

PayoutInit == MethodInit /\ CryptoInit

PayoutStep(p) == \/ MethodStep(p) /\ UNCHANGED cryptoVars
                 \/ CryptoStep(p) /\ UNCHANGED methodVars

\* Their errors are dropped, or logged.
IgnoredPayout == {"countAttempt", "expireAttempts", "confirm"}

-----------------------------------------------------------------------------
PayoutKinds == {"createMethod", "updateMethod", "deleteMethod", "setPrimary"}
PayoutCalls(u) == {p \in Kinds(PayoutKinds) : job[p].user = u /\ fate[p] # "new"}

(***************************************************************************)
(* A user who had a primary method still has one, unless one of his calls  *)
(* deleted a method or gave up the mark, or two of them overlapped, or one *)
(* failed between unsetting the old one and writing the new one.           *)
(***************************************************************************)
PrimaryKept ==
  \A u \in Owner :
    (OldMethods[u] # <<>> /\ primary[u] = {}) =>
      \/ \E p \in PayoutCalls(u) :
           \/ job[p].kind = "deleteMethod"
           \/ job[p].kind = "updateMethod" /\ job[p].primary = "no"
           \/ fate[p] # "done" /\ job[p].kind # "setPrimary"
      \/ \E p, q \in PayoutCalls(u) : Overlap(p, q)

\* The limits hold for calls that run one at a time.
PayoutLimits ==
  \A u \in Owner :
    /\ Cardinality(methods[u]) > BankLimit =>
         \E p, q \in PayoutCalls(u) : job[p].kind = "createMethod" /\ Overlap(p, q)
    /\ Cardinality(addresses[u]) > AddressLimit => \E p, q \in addresses[u] : Overlap(p, q)

(***************************************************************************)
(* Two users have one deposit address on a chain only if they asked for it *)
(* at the same time: the index is unique by nothing but the order of the   *)
(* calls.  (On two EVM chains they may: the indices of each are counted    *)
(* apart, and the addresses derived alike.)                                *)
(***************************************************************************)
DepositsAreOwn ==
  \A d, e \in deposits :
    (d.user # e.user /\ Address(d) = Address(e)) =>
      \/ Overlap(d.by, e.by)
      \/ d.chain # e.chain /\ Family(d.chain) = "EVM"

(***************************************************************************)
(* The attempts a user has used up come back after a day: their count has  *)
(* a TTL, unless the EXPIRE that follows the first one is still to come or *)
(* went wrong.                                                             *)
(***************************************************************************)
AttemptsComeBack ==
  \A u \in Owner :
    (generated[u].count > 0 /\ generated[u].until = Unlimited) =>
      \/ faults > 0
      \/ \E p \in Kind("depositAddress") : job[p].user = u /\ At(p, "expireAttempts")

(***************************************************************************)
(* A run of the monitor that begins after a withdrawal has been written    *)
(* completes it, if it is one whose confirmations it can count; any other  *)
(* stays pending; none completes with fewer than it requires.              *)
(***************************************************************************)
CompletedByCount ==
  \A p \in Kind("cryptoWithdrawal") : transfers[p] # NoTransfer =>
    LET t == transfers[p] IN
      /\ t.status = "success" => t.confirmations >= Required(t.chain)
      /\ t.chain # Solana => t.status = "pending"
      /\ (/\ t.chain = Solana /\ faults = 0
          /\ \E q \in Kind("trackConfirmations") : Done(q) /\ Before(p, q)) => t.status = "success"

CryptoHolds == DepositsAreOwn /\ AttemptsComeBack /\ CompletedByCount
=============================================================================
