------------------------------- MODULE Calls --------------------------------
(***************************************************************************)
(* Calls that run at the same time: HTTP requests, jobs of a ticker, hub   *)
(* events.  A call reads what it needs, checks it, and goes on through the *)
(* statements of its use case, one at a time, each taking effect by        *)
(* itself: what it has read may be stale when it writes.                   *)
(***************************************************************************)
EXTENDS Naturals, Sequences, FiniteSets

CONSTANTS Proc,     \* the calls
          Jobs,     \* what they may be: functions from Proc
          Faults,   \* bound: the statements that fail for no reason of their own
          MaxTime   \* bound: the last tick of the clock

ASSUME CallAssumption == /\ Faults \in Nat /\ MaxTime \in Nat
                         /\ \A j \in Jobs : DOMAIN j = Proc

VARIABLES
  job,      \* job[p]: what is called
  fate,     \* fate[p]: "new", "running", "done" or "failed"
  plan,     \* plan[p]: the statements still to run
  seen,     \* seen[p]: what it has read and still holds
  past,     \* history: past[p], the calls that had ended when p began
  faults,
  now       \* the clock
callVars == <<job, fate, plan, seen, past, faults, now>>

Nothing == <<>>

CallTypeOK == /\ DOMAIN job = Proc
              /\ fate \in [Proc -> {"new", "running", "done", "failed"}]
              /\ \A p \in Proc : (fate[p] = "running") <=> (plan[p] # <<>>)
              /\ DOMAIN seen = Proc
              /\ past \in [Proc -> SUBSET Proc]
              /\ faults \in 0..Faults
              /\ now \in 0..MaxTime

CallInit == /\ job \in Jobs
            /\ fate = [p \in Proc |-> IF job[p].kind = "none" THEN "done" ELSE "new"]
            /\ plan = [p \in Proc |-> <<>>]
            /\ seen = [p \in Proc |-> Nothing]
            /\ past = [p \in Proc |-> {}]
            /\ faults = 0
            /\ now = 0

Kind(k) == {p \in Proc : job[p].kind = k}
Kinds(S) == {p \in Proc : job[p].kind \in S}
Ended == {p \in Proc : fate[p] \in {"done", "failed"}}
Done(p) == fate[p] = "done"
Before(p, q) == p \in past[q]
Overlap(p, q) == /\ p # q /\ fate[p] # "new" /\ fate[q] # "new"
                 /\ ~Before(p, q) /\ ~Before(q, p)

Asked(p, k) == fate[p] = "new" /\ job[p].kind = k
At(p, s) == fate[p] = "running" /\ Head(plan[p]) = s

\* p goes on to the statements s, holding v, or has come to its end.
Follow(p, s, v) == /\ plan' = [plan EXCEPT ![p] = s]
                   /\ seen' = [seen EXCEPT ![p] = IF s = <<>> THEN Nothing ELSE v]
                   /\ fate' = [fate EXCEPT ![p] = IF s = <<>> THEN "done" ELSE "running"]
                   /\ UNCHANGED <<job, now>>

Break(p) == /\ plan' = [plan EXCEPT ![p] = <<>>]
            /\ seen' = [seen EXCEPT ![p] = Nothing]
            /\ fate' = [fate EXCEPT ![p] = "failed"]
            /\ UNCHANGED <<job, now>>

\* A new call has read v and goes on to s; is refused; has nothing to write.
Begins(p) == past' = [past EXCEPT ![p] = Ended] /\ UNCHANGED faults
Begin(p, s, v) == Follow(p, s, v) /\ Begins(p)
Refuse(p) == Break(p) /\ Begins(p)
Return(p) == Begin(p, <<>>, Nothing)

\* A statement of p is done, or finds that the call cannot go on.
Go(p, s, v) == Follow(p, s, v) /\ UNCHANGED <<past, faults>>
Hold(p, v) == Go(p, Tail(plan[p]), v)
Continue(p) == Hold(p, seen[p])
Stop(p) == Break(p) /\ UNCHANGED <<past, faults>>

\* The statement fails, or the process stops: the call ends where it stands,
\* or goes on if the code ignores the errors of this statement.
Fault(p, ignored) == /\ fate[p] = "running" /\ faults < Faults
                     /\ faults' = faults + 1
                     /\ \/ Break(p)
                        \/ Head(plan[p]) \in ignored /\ Follow(p, Tail(plan[p]), seen[p])
                     /\ UNCHANGED past

\* A statement of p fails and the code, which ignores it, goes on to s with v.
Slip(p, s, v) == /\ faults < Faults /\ faults' = faults + 1
                 /\ Follow(p, s, v) /\ UNCHANGED past

Tick == /\ now < MaxTime
        /\ now' = now + 1
        /\ UNCHANGED <<job, fate, plan, seen, past, faults>>

Quiet == Ended = Proc
=============================================================================
