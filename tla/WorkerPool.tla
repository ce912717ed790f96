----------------------------- MODULE WorkerPool -----------------------------
(***************************************************************************)
(* pkg/worker/pool.go: a bounded channel of jobs, the workers that receive *)
(* from it, retries with a backoff in goroutines of their own, and a       *)
(* shutdown with a time limit that closes the channel.                     *)
(*                                                                         *)
(* mu.RLock is held while a Submit is between its look at isClosed and the *)
(* send, so those are two steps; mu.Lock is held for one assignment, which *)
(* is one step.  A job is submitted at most once by its creator.           *)
(***************************************************************************)
EXTENDS Naturals, Sequences, FiniteSets

CONSTANTS Worker, Job, JobType,
          TypeOf,       \* the type of a job
          MaxRetries,   \* MaxRetries, MaxRetry or the default of a job
          QueueSize,
          NoJob

ASSUME PoolAssumption ==
  /\ TypeOf \in [Job -> JobType]
  /\ MaxRetries \in [Job -> Nat \ {0}]
  /\ QueueSize \in Nat
  /\ NoJob \notin Job
  /\ Worker # {}   \* NewPool(5, logger)

VARIABLES
  jobQueue,   \* the buffered channel
  closed,     \* close(jobQueue) was called
  isClosed,
  cancelled,  \* wp.cancel() was called
  handlers,   \* the job types with a handler
  worker,     \* worker[w]: where worker w is
  holds,      \* holds[w]: the job it received
  sender,     \* sender[j]: the goroutine that brings j into the queue
  retryCount, \* retryCount[j]
  fate,       \* fate[j]
  shutdown    \* where Shutdown is
channel == <<jobQueue, closed>>
control == <<isClosed, cancelled, shutdown>>
jobs == <<retryCount, fate>>
poolVars == <<channel, control, handlers, worker, holds, sender, jobs>>

PoolTypeOK == /\ jobQueue \in Seq(Job)
              /\ Len(jobQueue) <= QueueSize
              /\ closed \in BOOLEAN
              /\ isClosed \in BOOLEAN
              /\ cancelled \in BOOLEAN
              /\ handlers \subseteq JobType
              /\ worker \in [Worker -> {"select", "lookup", "running", "exited"}]
              /\ holds \in [Worker -> Job \cup {NoJob}]
              /\ sender \in [Job -> {"none", "sleeping", "awake", "sending"}]
              /\ retryCount \in [Job -> Nat]
              /\ fate \in [Job -> {"new", "accepted", "refused", "done", "discarded", "lost"}]
              /\ shutdown \in {"none", "marked", "waiting", "ok", "timeout"}

PoolInit == /\ jobQueue = <<>>
            /\ closed = FALSE
            /\ isClosed = FALSE
            /\ cancelled = FALSE
            /\ handlers = {}
            /\ worker = [w \in Worker |-> "select"]
            /\ holds = [w \in Worker |-> NoJob]
            /\ sender = [j \in Job |-> "none"]
            /\ retryCount = [j \in Job |-> 0]
            /\ fate = [j \in Job |-> "new"]
            /\ shutdown = "none"

\* mu.Lock waits for the submitters that hold mu.RLock.
NoReader == \A j \in Job : sender[j] # "sending"

Sender(j, s) == sender' = [sender EXCEPT ![j] = s]
Fate(j, f) == fate' = [fate EXCEPT ![j] = f]

\* A submission that fails: its error, or a line in the log for a retry.
TurnedAway(j) == /\ Sender(j, "none")
                 /\ Fate(j, IF fate[j] = "new" THEN "refused" ELSE "lost")
                 /\ UNCHANGED <<channel, control, handlers, worker, holds, retryCount>>

-----------------------------------------------------------------------------
RegisterHandler(t) == /\ NoReader
                      /\ handlers' = handlers \cup {t}
                      /\ t \notin handlers
                      /\ UNCHANGED <<channel, control, worker, holds, sender, jobs>>

(***************************************************************************)
(* Submit, called by the creator of the job or by its retry                *)
(***************************************************************************)
Submitting(j) == \/ fate[j] = "new" /\ sender[j] = "none"
                 \/ sender[j] = "awake"

SubmitClosed(j) == /\ Submitting(j)
                   /\ isClosed
                   /\ TurnedAway(j)

SubmitOpen(j) == /\ Submitting(j)
                 /\ ~isClosed
                 /\ Sender(j, "sending")
                 /\ UNCHANGED <<channel, control, handlers, worker, holds, jobs>>

Enqueue(j) == /\ sender[j] = "sending"
              /\ Len(jobQueue) < QueueSize
              /\ jobQueue' = Append(jobQueue, j)
              /\ Sender(j, "none")
              /\ Fate(j, "accepted")
              /\ UNCHANGED <<closed, control, handlers, worker, holds, retryCount>>

QueueFull(j) == /\ sender[j] = "sending"
                /\ Len(jobQueue) = QueueSize
                /\ TurnedAway(j)

(***************************************************************************)
(* worker and process                                                      *)
(***************************************************************************)
\* Mutant: the worker looks at the channel without taking the job out.
Peek(w) == /\ worker[w] = "select"
           /\ jobQueue # <<>>
           /\ holds' = [holds EXCEPT ![w] = Head(jobQueue)]
           /\ worker' = [worker EXCEPT ![w] = "lookup"]
           /\ UNCHANGED <<channel, control, handlers, sender, jobs>>

Receive(w) == /\ worker[w] = "select"
              /\ jobQueue # <<>>
              /\ holds' = [holds EXCEPT ![w] = Head(jobQueue)]
              /\ jobQueue' = Tail(jobQueue)
              /\ worker' = [worker EXCEPT ![w] = "lookup"]
              /\ UNCHANGED <<closed, control, handlers, sender, jobs>>

\* Mutant: a worker exits as soon as the channel is closed.
ExitEarly(w) == /\ worker[w] = "select"
                /\ cancelled \/ closed
                /\ worker' = [worker EXCEPT ![w] = "exited"]
                /\ UNCHANGED <<channel, control, handlers, holds, sender, jobs>>

\* Mutant: break leaves the select and not the loop.
BreakSelect(w) == /\ worker[w] = "select"
                  /\ cancelled \/ (closed /\ jobQueue = <<>>)
                  /\ UNCHANGED poolVars

\* The channel is closed and empty, or the context is cancelled: when it is,
\* select may still take a job instead.
Exit(w) == /\ worker[w] = "select"
           /\ cancelled \/ (closed /\ jobQueue = <<>>)
           /\ worker' = [worker EXCEPT ![w] = "exited"]
           /\ UNCHANGED <<channel, control, handlers, holds, sender, jobs>>

\* process returns to the loop of the worker.
Returns(w) == /\ worker' = [worker EXCEPT ![w] = "select"]
              /\ holds' = [holds EXCEPT ![w] = NoJob]

Lookup(w) ==
  LET j == holds[w]
  IN  /\ worker[w] = "lookup"
      /\ IF TypeOf[j] \in handlers
         THEN worker' = [worker EXCEPT ![w] = "running"] /\ UNCHANGED <<holds, fate>>
         ELSE Returns(w) /\ Fate(j, "discarded")
      /\ UNCHANGED <<channel, control, handlers, sender, retryCount>>

Succeed(w) == /\ worker[w] = "running"
              /\ Returns(w)
              /\ Fate(holds[w], "done")
              /\ UNCHANGED <<channel, control, handlers, sender, retryCount>>

\* Mutant: the limit is passed by one attempt.
FailOnce(w) ==
  LET j == holds[w]
  IN  /\ worker[w] = "running"
      /\ Returns(w)
      /\ IF retryCount[j] > MaxRetries[j]
         THEN Fate(j, "discarded") /\ UNCHANGED <<retryCount, sender>>
         ELSE /\ retryCount' = [retryCount EXCEPT ![j] = @ + 1]
              /\ Sender(j, "sleeping")
              /\ UNCHANGED fate
      /\ UNCHANGED <<channel, control, handlers>>

\* The handler returns an error or panics: handleFailure.
HandleFailure(w) ==
  LET j == holds[w]
  IN  /\ worker[w] = "running"
      /\ Returns(w)
      /\ IF retryCount[j] >= MaxRetries[j]
         THEN Fate(j, "discarded") /\ UNCHANGED <<retryCount, sender>>
         ELSE /\ retryCount' = [retryCount EXCEPT ![j] = @ + 1]
              /\ Sender(j, "sleeping")
              /\ UNCHANGED fate
      /\ UNCHANGED <<channel, control, handlers>>

\* Mutant: the retry goroutine ends without giving the job back.
WakesIdle(j) == /\ sender[j] = "sleeping"
                /\ Sender(j, "none")
                /\ UNCHANGED <<channel, control, handlers, worker, holds, jobs>>

\* The backoff is over; isClosed is read once here and again in Submit.
Wake(j) == /\ sender[j] = "sleeping"
           /\ \/ isClosed /\ TurnedAway(j)
              \/ /\ ~isClosed
                 /\ Sender(j, "awake")
                 /\ UNCHANGED <<channel, control, handlers, worker, holds, jobs>>

(***************************************************************************)
(* Shutdown                                                                *)
(***************************************************************************)

\* Mutant: isClosed is set without mu.Lock.
MarkUnlocked == /\ shutdown = "none"
                /\ isClosed' = TRUE
                /\ shutdown' = "marked"
                /\ UNCHANGED <<channel, cancelled, handlers, worker, holds, sender, jobs>>

MarkClosed == /\ shutdown = "none"
              /\ NoReader
              /\ isClosed' = TRUE
              /\ shutdown' = "marked"
              /\ UNCHANGED <<channel, cancelled, handlers, worker, holds, sender, jobs>>

CloseQueue == /\ shutdown = "marked"
              /\ closed' = TRUE
              /\ shutdown' = "waiting"
              /\ UNCHANGED <<jobQueue, isClosed, cancelled, handlers, worker, holds, sender, jobs>>

\* wg.Wait returned.
WorkersDone == /\ shutdown = "waiting"
               /\ \A w \in Worker : worker[w] = "exited"
               /\ shutdown' = "ok"
               /\ cancelled' = TRUE
               /\ UNCHANGED <<channel, isClosed, handlers, worker, holds, sender, jobs>>

TimedOut == /\ shutdown = "waiting"
            /\ shutdown' = "timeout"
            /\ cancelled' = TRUE
            /\ UNCHANGED <<channel, isClosed, handlers, worker, holds, sender, jobs>>

Shutdown == MarkClosed \/ CloseQueue \/ WorkersDone \/ TimedOut

\* Nothing is left to do once the pool is shut down.
Stopped == /\ shutdown \in {"ok", "timeout"}
           /\ \A w \in Worker : worker[w] = "exited"
           /\ UNCHANGED poolVars

Submit(j) == SubmitClosed(j) \/ SubmitOpen(j) \/ Enqueue(j) \/ QueueFull(j)
Work(w) == Receive(w) \/ Exit(w) \/ Lookup(w) \/ Succeed(w) \/ HandleFailure(w)

PoolNext == \/ \E j \in Job : Submit(j) \/ Wake(j)
            \/ \E w \in Worker : Work(w)
            \/ \E t \in JobType : RegisterHandler(t)
            \/ Shutdown
            \/ Stopped

PoolSpec == PoolInit /\ [][PoolNext]_poolVars

\* Goroutines run, handlers return, and Shutdown, once called, goes on.
PoolLiveSpec == /\ PoolSpec
                /\ \A w \in Worker : WF_poolVars(Work(w))
                /\ \A j \in Job : WF_poolVars(Wake(j)) /\ WF_poolVars(sender[j] # "none" /\ Submit(j))
                /\ WF_poolVars(CloseQueue \/ WorkersDone \/ TimedOut)

-----------------------------------------------------------------------------
(***************************************************************************)
(* Properties                                                              *)
(***************************************************************************)

\* A goroutine that is about to send finds the channel open: a send on a
\* closed channel would panic.  It rests on the order mark, then close, and
\* on the read lock that is held over the send.
NoSendOnClosedChannel == \A j \in Job : sender[j] = "sending" => ~closed

Queued(j) == {i \in DOMAIN jobQueue : jobQueue[i] = j}
HeldBy(j) == {w \in Worker : holds[w] = j}
Places(j) == Cardinality(Queued(j)) + Cardinality(HeldBy(j))
             + (IF sender[j] # "none" THEN 1 ELSE 0)

\* An accepted job is in exactly one place, the queue, one worker or one
\* retry goroutine, and a settled one in none: it is neither forgotten nor
\* attempted twice at once, although retries and the shutdown pass it on.
JobsHaveOnePlace ==
  \A j \in Job : CASE fate[j] = "accepted" -> Places(j) = 1
                   [] fate[j] = "new"      -> Places(j) <= 1 /\ HeldBy(j) = {}
                   [] OTHER                -> Places(j) = 0

\* A Shutdown that returned without an error left nothing behind but the
\* jobs that were waiting for a retry.
GracefulMeansDrained ==
  shutdown = "ok" => /\ jobQueue = <<>>
                     /\ \A j \in Job : fate[j] = "accepted" => sender[j] # "none"

Running(j) == \E w \in HeldBy(j) : worker[w] = "running"
JobState(j) == IF fate[j] # "accepted" THEN fate[j]
               ELSE IF Running(j) THEN "running" ELSE "waiting"

\* The pool does with every job what JobQueue allows.
Abstract == INSTANCE JobQueue WITH state <- [j \in Job |-> JobState(j)], tries <- retryCount
ImplementsJobQueue == Abstract!Spec

\* Every accepted job is settled, unless a shutdown ran out of time.
AcceptedJobsSettle ==
  \A j \in Job : fate[j] = "accepted" ~> (fate[j] # "accepted" \/ shutdown = "timeout")

\* The workers end after a shutdown, also one that ran out of time.
WorkersExit == shutdown = "marked" ~> \A w \in Worker : worker[w] = "exited"

\* Jobs and workers come to an end.
PoolSettles == AcceptedJobsSettle /\ WorkersExit
=============================================================================
