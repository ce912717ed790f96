------------------------------ MODULE JobQueue ------------------------------
(***************************************************************************)
(* What the worker pool promises for each job, whatever its workers,       *)
(* retries and shutdown do in between: a job is attempted by one worker at *)
(* a time and at most once more than its retries; a job that was taken in  *)
(* ends as done or discarded; it may be lost only on its way back into the *)
(* pool after a failed attempt.                                            *)
(***************************************************************************)
EXTENDS Naturals

CONSTANTS Job, MaxRetries

VARIABLES state,   \* state[j]
          tries    \* tries[j]: attempts that failed and are to be repeated
vars == <<state, tries>>

Init == /\ state = [j \in Job |-> "new"]
        /\ tries = [j \in Job |-> 0]

Step(j, from, to) == state[j] = from /\ state' = [state EXCEPT ![j] = to]

Accept(j)  == Step(j, "new", "waiting") /\ UNCHANGED tries
Refuse(j)  == Step(j, "new", "refused") /\ UNCHANGED tries
Attempt(j) == Step(j, "waiting", "running") /\ UNCHANGED tries
Skip(j)    == Step(j, "waiting", "discarded") /\ UNCHANGED tries  \* no handler
Finish(j)  == Step(j, "running", "done") /\ UNCHANGED tries
Retry(j)   == /\ Step(j, "running", "waiting")
              /\ tries[j] < MaxRetries[j]
              /\ tries' = [tries EXCEPT ![j] = @ + 1]
Discard(j) == /\ Step(j, "running", "discarded")
              /\ tries[j] >= MaxRetries[j]
              /\ UNCHANGED tries
Lose(j)    == /\ Step(j, "waiting", "lost")
              /\ tries[j] > 0
              /\ UNCHANGED tries

Next == \E j \in Job : \/ Accept(j) \/ Refuse(j) \/ Attempt(j) \/ Skip(j)
                       \/ Finish(j) \/ Retry(j) \/ Discard(j) \/ Lose(j)

Spec == Init /\ [][Next]_vars
=============================================================================
