------------------------------ MODULE PaidCall ------------------------------
(***************************************************************************)
(* One paid call (internal/usecase/paid_interaction_usecase.go and         *)
(* internal/delivery/call_ws_handler.go).  Every "call:accept" on the      *)
(* websocket starts a billing goroutine, and every tick of one reads the   *)
(* session, moves money, and writes the whole session back; accepting and  *)
(* ending a call write it back the same way.  None of it is in a           *)
(* transaction, and every write carries the status and the totals of the   *)
(* copy its writer read.                                                   *)
(*                                                                         *)
(* A session of WalletStore is here a request, or the connection of a      *)
(* client, and the goroutine it has started.  Minutes are abstracted: a    *)
(* ticker that waits may tick at any time.                                 *)
(***************************************************************************)
EXTENDS WalletStore

CONSTANTS Caller, Host,
          NoCall,      \* there is no such row, or no copy of it
          Jobs,        \* what the requests may be: functions from Session
          Rate,        \* what a minute costs
          HostShare,   \* the host's part of it: 60%, or 40% when he has an agency
          Purses       \* the wallets at the start

\* "answer" is "call:accept" on the websocket, "accept" the HTTP route.
Kinds == {"request", "accept", "answer", "end"}

CallSession == [status : {"pending", "active", "ended"}, total : Nat, host : Nat]

ASSUME CallAssumption == /\ User = {Caller, Host} /\ Caller # Host
                         /\ NoCall \notin CallSession
                         /\ Jobs \subseteq [Session -> Kinds]
                         /\ Rate \in Nat \ {0} /\ HostShare \in 0 .. Rate
                         /\ Purses \in [User -> Wallet]
                         /\ IsFiniteSet(Session)

VARIABLES
  call,     \* the row in call_sessions
  copy,     \* copy[p]: the session as p read it and not yet wrote it
  place, job,
  failed,   \* history: a statement failed or the process stopped
  stale     \* history: a write overwrote what it had not read
callVars == <<call, stale>>
paidVars == <<storeVars, call, copy, place, job, failed, stale>>

Working == {"check", "create", "accept", "end", "wait", "debit", "share", "totals", "stop", "bye"}

CallTypeOK == /\ StoreTypeOK
              /\ call \in CallSession \cup {NoCall}
              /\ copy \in [Session -> CallSession \cup {NoCall}]
              /\ place \in [Session -> Working \cup {"idle", "done", "gone"}]
              /\ job \in [Session -> Kinds]
              /\ {failed, stale} \subseteq BOOLEAN

CallInit == /\ StoreInit(Purses)
            /\ call = NoCall
            /\ copy = [p \in Session |-> NoCall]
            /\ place = [p \in Session |-> "idle"]
            /\ job \in Jobs
            /\ failed = FALSE
            /\ stale = FALSE

At(p, l) == place[p] = l
GoesTo(p, l) == place' = [place EXCEPT ![p] = l]

Read(p) == copy' = [copy EXCEPT ![p] = call]
Drop(p) == copy' = [copy EXCEPT ![p] = NoCall]

\* Mutant: only the status is written, the totals are left alone.
WriteStatus(p, s) == /\ call' = [call EXCEPT !.status = s.status]
                     /\ stale' = (stale \/ call # copy[p])
                     /\ Drop(p)

\* UpdateCallSession writes every column.
UpdateCallSession(p, s) == /\ call' = s
                           /\ stale' = (stale \/ call # copy[p])
                           /\ Drop(p)

-----------------------------------------------------------------------------
\* A client sends its request; the id of a call is known once it exists.
Begin(p) == /\ At(p, "idle")
            /\ job[p] = "request" <=> call = NoCall
            /\ GoesTo(p, CASE job[p] = "request" -> "check"
                           [] job[p] = "end"     -> "end"
                           [] OTHER              -> "accept")
            /\ UNCHANGED <<storeVars, callVars, copy, job, failed>>

(***************************************************************************)
(* RequestCall: the caller can pay the first minute.                       *)
(***************************************************************************)
GetHostCallRate == Rate

CheckCaller(p) == /\ At(p, "check")
                  /\ GoesTo(p, IF row[Caller] # NoWallet /\ row[Caller].bal >= GetHostCallRate
                               THEN "create" ELSE "done")
                  /\ UNCHANGED <<storeVars, callVars, copy, job, failed>>

CreateCallSession(p) == /\ At(p, "create") /\ call = NoCall
                        /\ call' = [status |-> "pending", total |-> 0, host |-> 0]
                        /\ GoesTo(p, "done")
                        /\ UNCHANGED <<storeVars, copy, job, failed, stale>>

(***************************************************************************)
(* AcceptCall looks at no status.  The websocket handler starts a ticker   *)
(* whatever it returns.                                                    *)
(***************************************************************************)
AfterAccept(p) == GoesTo(p, IF job[p] = "answer" THEN "wait" ELSE "done")

ReadToAccept(p) == /\ At(p, "accept") /\ copy[p] = NoCall
                   /\ Read(p)
                   /\ UNCHANGED <<storeVars, callVars, place, job, failed>>

SetActive(p) == /\ At(p, "accept") /\ copy[p] # NoCall
                /\ UpdateCallSession(p, [copy[p] EXCEPT !.status = "active"])
                /\ AfterAccept(p)
                /\ UNCHANGED <<storeVars, job, failed>>

(***************************************************************************)
(* EndCall, of a client ("end"), of a tick that could not be paid ("stop"),*)
(* and of a ticker before it exits ("bye").                                *)
(***************************************************************************)
Ending(p) == place[p] \in {"end", "stop", "bye"}
AfterEnd(p) == GoesTo(p, IF At(p, "stop") THEN "bye" ELSE "done")

ReadToEnd(p) == /\ Ending(p) /\ copy[p] = NoCall
                /\ \/ call.status = "ended" /\ AfterEnd(p) /\ UNCHANGED copy
                   \/ call.status # "ended" /\ Read(p) /\ UNCHANGED place
                /\ UNCHANGED <<storeVars, callVars, job, failed>>

SetEnded(p) == /\ Ending(p) /\ copy[p] # NoCall
               /\ UpdateCallSession(p, [copy[p] EXCEPT !.status = "ended"])
               /\ AfterEnd(p)
               /\ UNCHANGED <<storeVars, job, failed>>

(***************************************************************************)
(* ProcessBillingTick.  Its row in call_billing_ticks is left out: nothing *)
(* reads the table and an error of the INSERT is passed over.              *)
(***************************************************************************)
\* Mutant: the tick bills a call in any state.
ReadAnyCall(p) == /\ At(p, "wait")
                  /\ Read(p) /\ GoesTo(p, "debit")
                  /\ UNCHANGED <<storeVars, callVars, job, failed>>

ReadForTick(p) == /\ At(p, "wait")
                  /\ \/ call.status = "active" /\ Read(p) /\ GoesTo(p, "debit")
                     \/ call.status # "active" /\ GoesTo(p, "bye") /\ UNCHANGED copy
                  /\ UNCHANGED <<storeVars, callVars, job, failed>>

\* Mutant: a minute that cannot be paid is passed over.
DebitOrWait(p) ==
  /\ At(p, "debit")
  /\ \/ Move(p, "debit", Caller, Rate, FALSE) /\ GoesTo(p, "share") /\ UNCHANGED copy
     \/ Refused(p, "debit", Caller, Rate) /\ GoesTo(p, "wait") /\ Drop(p) /\ UNCHANGED storeVars
  /\ UNCHANGED <<callVars, job, failed>>

DebitCaller(p) ==
  /\ At(p, "debit")
  /\ \/ Move(p, "debit", Caller, Rate, FALSE) /\ GoesTo(p, "share") /\ UNCHANGED copy
     \/ Refused(p, "debit", Caller, Rate) /\ GoesTo(p, "stop") /\ Drop(p) /\ UNCHANGED storeVars
  /\ UNCHANGED <<callVars, job, failed>>

\* Mutant: the host is credited what the caller paid.
CreditRate(p) == /\ At(p, "share")
                 /\ Move(p, "credit", Host, Rate, FALSE)
                 /\ GoesTo(p, "totals")
                 /\ UNCHANGED <<callVars, copy, job, failed>>

\* The agency's 20% goes to the wallet of the agency's id, which no user has:
\* that UPDATE finds no row and its error is passed over.
CreditHost(p) == /\ At(p, "share")
                 /\ Move(p, "credit", Host, HostShare, FALSE)
                 /\ GoesTo(p, "totals")
                 /\ UNCHANGED <<callVars, copy, job, failed>>

\* TotalChargeIDR and HostEarningIDR; the platform's fee is their difference.
Billed(s) == [status |-> s.status, total |-> s.total + Rate, host |-> s.host + HostShare]

RecordTotals(p) == /\ At(p, "totals")
                   /\ UpdateCallSession(p, Billed(copy[p]))
                   /\ GoesTo(p, "wait")
                   /\ UNCHANGED <<storeVars, job, failed>>

-----------------------------------------------------------------------------
\* A statement returns an error.  Only the debit of a tick is checked before
\* the next one; it may have been executed, the answer lost.  After the other
\* writes the code goes on as if they had succeeded, so that an answer lost
\* there is a success to it.
Fails(p) ==
  /\ place[p] \in Working \ {"wait"}
  /\ \/ At(p, "accept") /\ AfterAccept(p) /\ Drop(p) /\ UNCHANGED storeVars
     \/ Ending(p) /\ AfterEnd(p) /\ Drop(p) /\ UNCHANGED storeVars
     \/ place[p] \in {"check", "create"} /\ GoesTo(p, "done") /\ Drop(p) /\ UNCHANGED storeVars
     \/ At(p, "debit") /\ GoesTo(p, "stop") /\ Drop(p)
        /\ (UNCHANGED storeVars \/ Move(p, "debit", Caller, Rate, FALSE))
     \/ At(p, "share") /\ GoesTo(p, "totals") /\ UNCHANGED <<storeVars, copy>>
     \/ At(p, "totals") /\ GoesTo(p, "wait") /\ Drop(p) /\ UNCHANGED storeVars
  /\ failed' = TRUE
  /\ UNCHANGED <<callVars, job>>

TickReadFails(p) == /\ At(p, "wait") /\ GoesTo(p, "bye")
                    /\ failed' = TRUE
                    /\ UNCHANGED <<storeVars, callVars, copy, job>>

\* The server stops; nothing restarts the tickers it had.
ServerStops == /\ \E p \in Session : place[p] \in Working
               /\ place' = [p \in Session |-> IF place[p] \in Working THEN "gone" ELSE place[p]]
               /\ copy' = [p \in Session |-> NoCall]
               /\ failed' = TRUE
               /\ UNCHANGED <<storeVars, callVars, job>>

RequestCall(p) == CheckCaller(p) \/ CreateCallSession(p)
AcceptCall(p) == ReadToAccept(p) \/ SetActive(p)
EndCall(p) == ReadToEnd(p) \/ SetEnded(p)
ProcessBillingTick(p) == ReadForTick(p) \/ DebitCaller(p) \/ CreditHost(p) \/ RecordTotals(p)

CallStep(p) == RequestCall(p) \/ AcceptCall(p) \/ EndCall(p) \/ ProcessBillingTick(p)

Quiescent == (\A p \in Session : place[p] \notin Working) /\ UNCHANGED paidVars

CallNext == \/ \E p \in Session : Begin(p) \/ CallStep(p) \/ Fails(p) \/ TickReadFails(p)
            \/ ServerStops
            \/ Quiescent

CallSpec == CallInit /\ [][CallNext]_paidVars
\* A goroutine that can run runs, and time.Ticker ticks.
CallLiveSpec == CallSpec /\ \A p \in Session : WF_paidVars(CallStep(p))

-----------------------------------------------------------------------------
(***************************************************************************)
(* Properties                                                              *)
(***************************************************************************)
Charged == Purses[Caller].bal - row[Caller].bal
Earned == row[Host].bal - Purses[Host].bal
Amount(labels, n) == n * Cardinality({p \in Session : place[p] \in labels})
Ended == call # NoCall /\ call.status = "ended"

\* The charge shown for a call is never more than the caller paid, and it is
\* what he paid, up to the ticks under way, unless two writers of the session
\* overlapped or a statement failed.
TotalsMatchMoney ==
  /\ call # NoCall => call.total <= Charged
  /\ ~failed /\ ~stale /\ call # NoCall =>
       call.total + Amount({"share", "totals"}, Rate) = Charged

\* The host earns his part of the minutes the caller paid, each once, however
\* many tickers bill the call and however it ends.
HostEarnsShare ==
  /\ Rate * Earned <= HostShare * Charged
  /\ ~failed => Rate * (Earned + Amount({"share"}, HostShare)) = HostShare * Charged
  /\ ~failed /\ ~stale /\ call # NoCall =>
       call.host + Amount({"totals"}, HostShare) = Earned

\* The call has ended, no tick is half done, and nobody will accept it.
Settled == /\ Ended
           /\ \A p \in Session : ~At(p, "debit") /\ ~At(p, "share") /\ ~At(p, "totals")
           /\ \A p \in Session : job[p] \in {"accept", "answer"} => place[p] \notin {"idle", "accept"}

\* Tickers outlive the call by up to a minute, and the check of the session
\* after a tick asks for the wrong thing: still nothing is charged and the
\* call stays ended.
SettledCallIsFree == [][Settled => Settled' /\ row' = row]_paidVars

\* Every ticker stops, at the latest when the caller has no money left, and a
\* call that was billed is then ended, unless a statement failed or the call
\* was accepted over HTTP, where nobody bills it.
BilledCallEnds ==
  <>[](/\ \A p \in Session : place[p] \notin Working
       /\ \/ failed
          \/ \E p \in Session : job[p] = "accept" /\ ~At(p, "idle")
          \/ call = NoCall \/ call.status # "active")
=============================================================================
