---------------------------- MODULE ServiceProofs ----------------------------
(***************************************************************************)
(* Proofs about the parts that stand by themselves.  WorkerPool: where its *)
(* jobs are, that it never sends on its closed channel, what it leaves     *)
(* behind; for any workers, jobs and queue.  Idempotency: that a key lets  *)
(* one request through.  PaidCall: what a call costs and earns.            *)
(* WalletLedger: what its transactions check, write and record, and that   *)
(* it implements AtomicLedger.                                             *)
(***************************************************************************)
EXTENDS WorkerPool, Idempotency, PaidCall, WalletLedger, SumLemmas

\* The channel is closed after isClosed was set, and isClosed is set under
\* the write lock, so that nobody is then between the check and the send.
CloseOrder == /\ closed => isClosed
              /\ isClosed <=> shutdown # "none"
              /\ isClosed => NoReader

\* A worker that is not in its select holds the job it works on.
BusyHolds == \A w \in Worker : worker[w] \in {"lookup", "running"} => holds[w] \in Job

PoolInv == PoolTypeOK /\ CloseOrder /\ BusyHolds

\* The invariant holds of the pool that NewPool makes.
LEMMA InitEstablishes == PoolInit => PoolInv
<1> SUFFICES ASSUME PoolInit PROVE PoolInv
  OBVIOUS
<1> USE DEF PoolInit
<1>1. jobQueue \in Seq(Job) /\ Len(jobQueue) <= QueueSize
  BY PoolAssumption
<1>2. holds \in [Worker -> Job \cup {NoJob}] /\ retryCount \in [Job -> Nat]
  OBVIOUS
<1>3. CloseOrder /\ BusyHolds
  BY DEF CloseOrder, BusyHolds, NoReader
<1> QED BY <1>1, <1>2, <1>3 DEF PoolInv, PoolTypeOK

\* A submission or a retry that comes back keeps it.
LEMMA SubmitKeeps ==
  ASSUME PoolInv, NEW j \in Job, Submit(j) \/ Wake(j)
  PROVE  PoolInv'
<1> USE DEF PoolInv, PoolTypeOK, CloseOrder, BusyHolds, NoReader, Sender, Fate, channel, control, jobs
<1>1. ASSUME TurnedAway(j) PROVE PoolInv'
  BY <1>1 DEF TurnedAway
<1>2. CASE SubmitClosed(j)
  BY <1>1, <1>2 DEF SubmitClosed
<1>3. CASE SubmitOpen(j)
  BY <1>3 DEF SubmitOpen
<1>4. CASE Enqueue(j)
  <2>1. jobQueue' \in Seq(Job) /\ Len(jobQueue') <= QueueSize
    BY <1>4, PoolAssumption DEF Enqueue
  <2> QED BY <1>4, <2>1 DEF Enqueue
<1>5. CASE QueueFull(j)
  BY <1>1, <1>5 DEF QueueFull
<1>6. CASE Wake(j)
  BY <1>1, <1>6 DEF Wake
<1> QED BY <1>2, <1>3, <1>4, <1>5, <1>6 DEF Submit

\* A worker keeps it.
LEMMA WorkKeeps ==
  ASSUME PoolInv, NEW w \in Worker, Work(w)
  PROVE  PoolInv'
<1> USE DEF PoolInv, PoolTypeOK, CloseOrder, BusyHolds, NoReader, Sender, Fate, channel, control, jobs
<1>1. CASE Receive(w)
  <2>1. Head(jobQueue) \in Job
    BY <1>1 DEF Receive
  <2>2. jobQueue' \in Seq(Job) /\ Len(jobQueue') <= QueueSize
    BY <1>1, PoolAssumption DEF Receive
  <2> QED BY <1>1, <2>1, <2>2 DEF Receive
<1>2. CASE Exit(w)
  BY <1>2 DEF Exit
<1>3. CASE Lookup(w)
  BY <1>3 DEF Lookup, Returns
<1>4. CASE Succeed(w)
  BY <1>4 DEF Succeed, Returns
<1>5. CASE HandleFailure(w)
  <2>1. holds[w] \in Job
    BY <1>5 DEF HandleFailure
  <2>2. retryCount' \in [Job -> Nat]
    BY <1>5, <2>1 DEF HandleFailure
  <2>3. ~(sender'[holds[w]] = "sending" /\ sender[holds[w]] # "sending")
    BY <1>5, <2>1 DEF HandleFailure
  <2> QED BY <1>5, <2>1, <2>2, <2>3 DEF HandleFailure, Returns
<1> QED BY <1>1, <1>2, <1>3, <1>4, <1>5 DEF Work

\* Every step keeps it.
LEMMA NextKeeps == PoolInv /\ [PoolNext]_poolVars => PoolInv'
<1> SUFFICES ASSUME PoolInv, [PoolNext]_poolVars PROVE PoolInv'
  OBVIOUS
<1> USE DEF PoolInv, PoolTypeOK, CloseOrder, BusyHolds, NoReader, channel, control, jobs
<1>1. ASSUME NEW j \in Job, Submit(j) \/ Wake(j) PROVE PoolInv'
  BY <1>1, SubmitKeeps
<1>2. ASSUME NEW w \in Worker, Work(w) PROVE PoolInv'
  BY <1>2, WorkKeeps
<1>3. ASSUME NEW t \in JobType, RegisterHandler(t) PROVE PoolInv'
  BY <1>3 DEF RegisterHandler
<1>4. CASE Shutdown
  BY <1>4 DEF Shutdown, MarkClosed, CloseQueue, WorkersDone, TimedOut
<1>5. CASE UNCHANGED poolVars
  BY <1>5 DEF poolVars
<1> QED BY <1>1, <1>2, <1>3, <1>4, <1>5 DEF PoolNext, Stopped

\* Every variable of the pool keeps its type, and the queue its bound.
THEOREM PoolTypeCorrect == PoolSpec => []PoolTypeOK
<1>1. PoolSpec => []PoolInv
  BY InitEstablishes, NextKeeps, PTL DEF PoolSpec
<1>2. PoolInv => PoolTypeOK
  BY DEF PoolInv
<1> QED BY <1>1, <1>2, PTL

\* pool.go Submit, Shutdown: the send in Submit never meets the closed
\* channel, whichever goroutines submit, retry and shut down at once.
THEOREM PoolNeverPanics == PoolSpec => []NoSendOnClosedChannel
<1>1. PoolSpec => []PoolInv
  BY InitEstablishes, NextKeeps, PTL DEF PoolSpec
<1>2. PoolInv => NoSendOnClosedChannel
  BY DEF PoolInv, CloseOrder, NoReader, NoSendOnClosedChannel
<1> QED BY <1>1, <1>2, PTL

-----------------------------------------------------------------------------
(***************************************************************************)
(* Where a job is.  JobsHaveOnePlace counts places; the invariant says the *)
(* same without cardinalities, and that a retry has been attempted before. *)
(***************************************************************************)
QueueOwns ==
  /\ \A a, b \in DOMAIN jobQueue : jobQueue[a] = jobQueue[b] => a = b
  /\ \A a \in DOMAIN jobQueue : /\ fate[jobQueue[a]] = "accepted"
                                /\ sender[jobQueue[a]] = "none"
                                /\ \A w \in Worker : holds[w] # jobQueue[a]

WorkerOwns ==
  /\ \A w \in Worker : worker[w] \in {"select", "exited"} => holds[w] = NoJob
  /\ \A w \in Worker : holds[w] \in Job => /\ fate[holds[w]] = "accepted"
                                           /\ sender[holds[w]] = "none"
  /\ \A v, w \in Worker : holds[v] = holds[w] /\ holds[v] \in Job => v = w

SenderOwns ==
  \A j \in Job : sender[j] # "none" =>
    \/ fate[j] = "new" /\ sender[j] = "sending"
    \/ fate[j] = "accepted" /\ retryCount[j] > 0

Accounted ==
  \A j \in Job : fate[j] = "accepted" => \/ \E a \in DOMAIN jobQueue : jobQueue[a] = j
                                         \/ \E w \in Worker : holds[w] = j
                                         \/ sender[j] # "none"

PInv == QueueOwns /\ WorkerOwns /\ SenderOwns /\ Accounted

\* At first no job is anywhere.
LEMMA PlacesAtFirst == PoolInit => PInv
BY PoolAssumption DEF PoolInit, PInv, QueueOwns, WorkerOwns, SenderOwns, Accounted

\* A submission that is turned away leaves no trace of the job.
LEMMA TurnedAwayKeepsPlaces ==
  ASSUME PoolTypeOK, PInv, NEW j \in Job, TurnedAway(j),
         sender[j] # "none" \/ fate[j] = "new"
  PROVE  PInv'
<1>1. /\ fate'[j] # "accepted" /\ sender'[j] = "none"
      /\ \A k \in Job \ {j} : fate'[k] = fate[k] /\ sender'[k] = sender[k]
      /\ UNCHANGED <<jobQueue, worker, holds, retryCount>>
  BY DEF PoolTypeOK, TurnedAway, Sender, Fate, channel
<1>2. (\A a \in DOMAIN jobQueue : jobQueue[a] # j) /\ (\A w \in Worker : holds[w] # j)
  BY DEF PoolTypeOK, PInv, QueueOwns, WorkerOwns
<1>3. \A a \in DOMAIN jobQueue : jobQueue[a] \in Job
  BY DEF PoolTypeOK
<1>4. QueueOwns'
  BY <1>1, <1>2, <1>3 DEF PInv, QueueOwns
<1>5. WorkerOwns'
  BY <1>1, <1>2 DEF PInv, WorkerOwns
<1>6. SenderOwns'
  BY <1>1 DEF PInv, SenderOwns
<1>7. Accounted'
  BY <1>1 DEF PInv, Accounted
<1> QED BY <1>4, <1>5, <1>6, <1>7 DEF PInv

\* The send puts the job of the submitter into the queue.
LEMMA EnqueueKeepsPlaces ==
  ASSUME PoolTypeOK, PInv, NEW j \in Job, Enqueue(j)
  PROVE  PInv'
<1> DEFINE n == Len(jobQueue)
<1>1. /\ fate'[j] = "accepted" /\ sender'[j] = "none" /\ sender[j] = "sending"
      /\ \A k \in Job \ {j} : fate'[k] = fate[k] /\ sender'[k] = sender[k]
      /\ UNCHANGED <<worker, holds, retryCount>>
  BY DEF PoolTypeOK, Enqueue, Sender, Fate
<1>2. /\ n \in Nat /\ DOMAIN jobQueue = 1..n /\ DOMAIN jobQueue' = 1..(n + 1)
      /\ jobQueue'[n + 1] = j
      /\ \A a \in 1..n : jobQueue'[a] = jobQueue[a] /\ jobQueue[a] \in Job
  BY DEF PoolTypeOK, Enqueue
<1>3. (\A a \in 1..n : jobQueue[a] # j) /\ (\A w \in Worker : holds[w] # j)
  BY <1>1, <1>2 DEF PoolTypeOK, PInv, QueueOwns, WorkerOwns
<1>4. QueueOwns'
  BY <1>1, <1>2, <1>3 DEF PInv, QueueOwns
<1>5. WorkerOwns'
  BY <1>1, <1>3 DEF PInv, WorkerOwns
<1>6. SenderOwns'
  BY <1>1 DEF PInv, SenderOwns
<1>7. Accounted'
  BY <1>1, <1>2 DEF PInv, Accounted
<1> QED BY <1>4, <1>5, <1>6, <1>7 DEF PInv

\* The worker takes the job from the queue.
LEMMA ReceiveKeepsPlaces ==
  ASSUME PoolTypeOK, PInv, NEW w \in Worker, Receive(w)
  PROVE  PInv'
<1> DEFINE n == Len(jobQueue)
           j == Head(jobQueue)
<1>1. /\ n \in Nat \ {0} /\ DOMAIN jobQueue = 1..n /\ DOMAIN jobQueue' = 1..(n - 1)
      /\ j = jobQueue[1]
      /\ \A a \in 1..n : jobQueue[a] \in Job
      /\ \A a \in 1..(n - 1) : jobQueue'[a] = jobQueue[a + 1]
  BY DEF PoolTypeOK, Receive
<1>2. /\ holds'[w] = j /\ worker'[w] = "lookup" /\ worker[w] = "select"
      /\ \A v \in Worker \ {w} : holds'[v] = holds[v] /\ worker'[v] = worker[v]
      /\ UNCHANGED <<fate, sender, retryCount>>
  BY DEF PoolTypeOK, Receive, jobs
<1>3. QueueOwns'
  <2>1. ASSUME NEW a \in 1..(n - 1) PROVE jobQueue'[a] = jobQueue[a + 1] /\ a + 1 \in 2..n
    BY <1>1
  <2>2. ASSUME NEW a \in 1..(n - 1), NEW b \in 1..(n - 1), jobQueue'[a] = jobQueue'[b]
        PROVE  a = b
    <3>1. /\ a + 1 \in DOMAIN jobQueue /\ b + 1 \in DOMAIN jobQueue
          /\ jobQueue[a + 1] = jobQueue[b + 1]
      BY <1>1, <2>1, <2>2
    <3>2. a + 1 = b + 1
      BY <3>1 DEF PInv, QueueOwns
    <3> QED BY <3>2
  <2>3. ASSUME NEW a \in 1..(n - 1)
        PROVE  /\ fate[jobQueue'[a]] = "accepted" /\ sender[jobQueue'[a]] = "none"
               /\ \A v \in Worker : holds'[v] # jobQueue'[a]
    <3>1. jobQueue'[a] # j
      BY <1>1, <2>1 DEF PInv, QueueOwns
    <3> QED BY <1>1, <1>2, <2>1, <3>1 DEF PInv, QueueOwns
  <2> QED BY <1>1, <1>2, <2>2, <2>3 DEF QueueOwns
<1>4. WorkerOwns'
  BY <1>1, <1>2 DEF PInv, QueueOwns, WorkerOwns
<1>5. SenderOwns'
  BY <1>2 DEF PInv, SenderOwns
<1>6. Accounted'
  <2> SUFFICES ASSUME NEW k \in Job, fate[k] = "accepted"
               PROVE  \/ \E a \in DOMAIN jobQueue' : jobQueue'[a] = k
                      \/ \E v \in Worker : holds'[v] = k
                      \/ sender[k] # "none"
    BY <1>2 DEF Accounted
  <2>1. ASSUME NEW a \in 1..n, jobQueue[a] = k, a # 1
        PROVE  \E b \in DOMAIN jobQueue' : jobQueue'[b] = k
    <3>1. a - 1 \in 1..(n - 1) /\ jobQueue'[a - 1] = k
      BY <1>1, <2>1
    <3> QED BY <1>1, <3>1
  <2>2. ASSUME NEW v \in Worker, holds[v] = k PROVE v # w
    BY <1>2, <2>2, PoolAssumption DEF PInv, WorkerOwns
  <2> QED BY <1>1, <1>2, <2>1, <2>2 DEF PInv, Accounted
<1> QED BY <1>3, <1>4, <1>5, <1>6 DEF PInv

\* The worker is done with its job: it is settled, or passed to a retry.
LEMMA ReturnKeepsPlaces ==
  ASSUME PoolTypeOK, PInv, NEW w \in Worker, Returns(w), holds[w] \in Job,
         UNCHANGED jobQueue,
         \A k \in Job \ {holds[w]} : fate'[k] = fate[k] /\ sender'[k] = sender[k]
                                     /\ retryCount'[k] = retryCount[k],
         \/ fate'[holds[w]] # "accepted" /\ sender'[holds[w]] = "none"
         \/ /\ fate'[holds[w]] = "accepted" /\ sender'[holds[w]] # "none"
            /\ retryCount'[holds[w]] > 0
  PROVE  PInv'
<1>1. /\ holds'[w] = NoJob /\ worker'[w] = "select"
      /\ \A v \in Worker \ {w} : holds'[v] = holds[v] /\ worker'[v] = worker[v]
  BY DEF PoolTypeOK, Returns
<1>2. \A a \in DOMAIN jobQueue : jobQueue[a] \in Job /\ jobQueue[a] # holds[w]
  BY DEF PoolTypeOK, PInv, QueueOwns
<1>3. \A v \in Worker \ {w} : holds[v] \in Job => holds[v] # holds[w]
  BY DEF PInv, WorkerOwns
<1>4. QueueOwns'
  BY <1>1, <1>2, PoolAssumption DEF PInv, QueueOwns
<1>5. WorkerOwns'
  BY <1>1, <1>3, PoolAssumption DEF PInv, WorkerOwns
<1>6. SenderOwns'
  BY DEF PInv, SenderOwns
<1>7. Accounted'
  BY <1>1 DEF PInv, Accounted
<1> QED BY <1>4, <1>5, <1>6, <1>7 DEF PInv

\* Every step leaves each job in one place.
LEMMA PlacesKept == PoolInv /\ PInv /\ [PoolNext]_poolVars => PInv'
<1> SUFFICES ASSUME PoolTypeOK, BusyHolds, PInv, [PoolNext]_poolVars PROVE PInv'
  BY DEF PoolInv
<1>1. ASSUME NEW j \in Job, Submit(j) \/ Wake(j) PROVE PInv'
  <2>1. CASE SubmitClosed(j)
    BY <2>1, TurnedAwayKeepsPlaces DEF SubmitClosed, Submitting
  <2>2. CASE SubmitOpen(j)
    <3>1. /\ sender'[j] = "sending"
          /\ \A k \in Job \ {j} : sender'[k] = sender[k]
          /\ UNCHANGED <<jobQueue, worker, holds, fate, retryCount>>
          /\ fate[j] = "new" \/ sender[j] = "awake"
      BY <2>2 DEF SubmitOpen, Submitting, Sender, PoolTypeOK, channel, jobs
    <3>2. QueueOwns'
      BY <3>1 DEF PInv, QueueOwns, PoolTypeOK
    <3>3. WorkerOwns'
      BY <3>1 DEF PInv, WorkerOwns
    <3>4. SenderOwns'
      BY <3>1 DEF PInv, SenderOwns
    <3>5. Accounted'
      BY <3>1 DEF PInv, Accounted
    <3> QED BY <3>2, <3>3, <3>4, <3>5 DEF PInv
  <2>3. CASE Enqueue(j)
    BY <2>3, EnqueueKeepsPlaces
  <2>4. CASE QueueFull(j)
    BY <2>4, TurnedAwayKeepsPlaces DEF QueueFull
  <2>5. CASE Wake(j)
    <3>1. CASE TurnedAway(j)
      BY <2>5, <3>1, TurnedAwayKeepsPlaces DEF Wake
    <3>2. CASE Sender(j, "awake") /\ UNCHANGED <<channel, control, handlers, worker, holds, jobs>>
      <4>1. /\ sender[j] = "sleeping" /\ sender'[j] = "awake"
            /\ \A k \in Job \ {j} : sender'[k] = sender[k]
            /\ UNCHANGED <<jobQueue, worker, holds, fate, retryCount>>
        BY <2>5, <3>2 DEF Wake, Sender, PoolTypeOK, channel, jobs
      <4>2. QueueOwns'
        BY <4>1 DEF PInv, QueueOwns, PoolTypeOK
      <4>3. WorkerOwns'
        BY <4>1 DEF PInv, WorkerOwns
      <4>4. SenderOwns'
        BY <4>1 DEF PInv, SenderOwns
      <4>5. Accounted'
        BY <4>1 DEF PInv, Accounted
      <4> QED BY <4>2, <4>3, <4>4, <4>5 DEF PInv
    <3> QED BY <2>5, <3>1, <3>2 DEF Wake
  <2> QED BY <1>1, <2>1, <2>2, <2>3, <2>4, <2>5 DEF Submit
<1>2. ASSUME NEW w \in Worker, Work(w) PROVE PInv'
  <2>1. CASE Receive(w)
    BY <2>1, ReceiveKeepsPlaces
  <2>2. CASE Exit(w)
    BY <2>2 DEF Exit, PoolTypeOK, PInv, QueueOwns, WorkerOwns, SenderOwns, Accounted, channel, jobs
  <2>3. CASE Lookup(w) /\ TypeOf[holds[w]] \in handlers
    BY <2>3 DEF Lookup, PoolTypeOK, PInv, QueueOwns, WorkerOwns, SenderOwns, Accounted, channel
  <2>4. CASE Lookup(w) /\ TypeOf[holds[w]] \notin handlers
    BY <2>4, ReturnKeepsPlaces DEF Lookup, PoolTypeOK, BusyHolds, Fate, channel, PInv, WorkerOwns
  <2>5. CASE Succeed(w)
    BY <2>5, ReturnKeepsPlaces DEF Succeed, PoolTypeOK, BusyHolds, Fate, channel, PInv, WorkerOwns
  <2>6. CASE HandleFailure(w) /\ retryCount[holds[w]] >= MaxRetries[holds[w]]
    BY <2>6, ReturnKeepsPlaces DEF HandleFailure, PoolTypeOK, BusyHolds, Fate, channel, PInv, WorkerOwns
  <2>7. CASE HandleFailure(w) /\ ~(retryCount[holds[w]] >= MaxRetries[holds[w]])
    <3>1. /\ holds[w] \in Job /\ fate[holds[w]] = "accepted"
          /\ Returns(w) /\ UNCHANGED <<jobQueue, fate>>
          /\ sender' = [sender EXCEPT ![holds[w]] = "sleeping"]
          /\ retryCount' = [retryCount EXCEPT ![holds[w]] = @ + 1]
      BY <2>7 DEF HandleFailure, BusyHolds, Sender, channel, PInv, WorkerOwns
    <3>2. /\ sender'[holds[w]] = "sleeping" /\ retryCount'[holds[w]] > 0
          /\ \A k \in Job \ {holds[w]} : sender'[k] = sender[k] /\ retryCount'[k] = retryCount[k]
      BY <3>1 DEF PoolTypeOK
    <3> QED BY <3>1, <3>2, ReturnKeepsPlaces
  <2> QED BY <1>2, <2>1, <2>2, <2>3, <2>4, <2>5, <2>6, <2>7 DEF Work
<1>3. ASSUME UNCHANGED <<jobQueue, worker, holds, sender, fate, retryCount>> PROVE PInv'
  BY <1>3 DEF PInv, QueueOwns, WorkerOwns, SenderOwns, Accounted
<1>4. ASSUME NEW t \in JobType, RegisterHandler(t) PROVE PInv'
  BY <1>3, <1>4 DEF RegisterHandler, channel, jobs
<1>5. CASE Shutdown
  BY <1>3, <1>5 DEF Shutdown, MarkClosed, CloseQueue, WorkersDone, TimedOut, channel, jobs
<1>6. CASE UNCHANGED poolVars
  BY <1>3, <1>6 DEF poolVars, channel, jobs
<1> QED BY <1>1, <1>2, <1>4, <1>5, <1>6 DEF PoolNext, Stopped

\* pool.go: who owns a job, by which the place of each job is found again.
THEOREM PlacesInvariant == PoolSpec => [](PoolInv /\ PInv)
BY InitEstablishes, NextKeeps, PlacesAtFirst, PlacesKept, PTL DEF PoolSpec

\* At most one position of the queue, and at most one worker, has the job.
LEMMA PlacesCounted ==
  ASSUME PoolTypeOK, PInv, NEW j \in Job
  PROVE  /\ Cardinality(Queued(j)) = IF \E a \in DOMAIN jobQueue : jobQueue[a] = j THEN 1 ELSE 0
         /\ Cardinality(HeldBy(j)) = IF \E w \in Worker : holds[w] = j THEN 1 ELSE 0
<1>1. ASSUME NEW a \in DOMAIN jobQueue, jobQueue[a] = j PROVE Queued(j) = {a}
  BY <1>1 DEF Queued, PInv, QueueOwns
<1>2. ASSUME ~ \E a \in DOMAIN jobQueue : jobQueue[a] = j PROVE Queued(j) = {}
  BY <1>2 DEF Queued
<1>3. ASSUME NEW w \in Worker, holds[w] = j PROVE HeldBy(j) = {w}
  BY <1>3 DEF HeldBy, PInv, WorkerOwns
<1>4. ASSUME ~ \E w \in Worker : holds[w] = j PROVE HeldBy(j) = {}
  BY <1>4 DEF HeldBy
<1> QED BY <1>1, <1>2, <1>3, <1>4, FS_Singleton, FS_EmptySet

\* pool.go: between submission and settlement a job is in the queue, with one
\* worker or with one retry goroutine, and nowhere twice, whatever workers,
\* retries and Shutdown pass it on.
THEOREM PoolKeepsJobs == PoolSpec => []JobsHaveOnePlace
<1>1. PoolInv /\ PInv => JobsHaveOnePlace
  <2> SUFFICES ASSUME PoolTypeOK, PInv, NEW j \in Job
               PROVE  CASE fate[j] = "accepted" -> Places(j) = 1
                        [] fate[j] = "new"      -> Places(j) <= 1 /\ HeldBy(j) = {}
                        [] OTHER                -> Places(j) = 0
    BY DEF PoolInv, JobsHaveOnePlace
  <2> DEFINE q == \E a \in DOMAIN jobQueue : jobQueue[a] = j
             h == \E w \in Worker : holds[w] = j
             s == sender[j] # "none"
  <2>1. Places(j) = (IF q THEN 1 ELSE 0) + (IF h THEN 1 ELSE 0) + (IF s THEN 1 ELSE 0)
    BY PlacesCounted DEF Places
  <2>2. (q => ~h /\ ~s) /\ (h => ~s)
    BY DEF PInv, QueueOwns, WorkerOwns
  <2>3. q \/ h => fate[j] = "accepted"
    BY DEF PInv, QueueOwns, WorkerOwns
  <2>4. s => fate[j] \in {"accepted", "new"}
    BY DEF PInv, SenderOwns
  <2>5. fate[j] = "accepted" => q \/ h \/ s
    BY DEF PInv, Accounted
  <2>6. fate[j] = "accepted" => Places(j) = 1
    BY <2>1, <2>2, <2>5
  <2>7. fate[j] = "new" => Places(j) <= 1 /\ HeldBy(j) = {}
    BY <2>1, <2>3 DEF HeldBy
  <2>8. fate[j] \notin {"accepted", "new"} => Places(j) = 0
    BY <2>1, <2>3, <2>4
  <2> QED BY <2>6, <2>7, <2>8
<1> QED BY <1>1, PlacesInvariant, PTL

-----------------------------------------------------------------------------
(***************************************************************************)
(* The shutdown.  Until it runs out of time a worker leaves only when the  *)
(* channel is closed and empty, and nothing enters a closed channel, so    *)
(* what the last worker finds empty stays empty.                           *)
(***************************************************************************)
DrainOrder ==
  /\ closed => shutdown \in {"waiting", "ok", "timeout"}
  /\ cancelled => shutdown \in {"ok", "timeout"}
  /\ shutdown # "timeout" => \A w \in Worker : worker[w] = "exited" => closed /\ jobQueue = <<>>
  /\ shutdown = "ok" => \A w \in Worker : worker[w] = "exited"

\* Every step keeps that order.
LEMMA DrainOrderKept == PoolInv /\ DrainOrder /\ [PoolNext]_poolVars => DrainOrder'
<1> SUFFICES ASSUME PoolInv, DrainOrder, [PoolNext]_poolVars PROVE DrainOrder'
  OBVIOUS
<1> USE DEF DrainOrder, channel, control
<1>1. ASSUME NEW j \in Job, Submit(j) \/ Wake(j) PROVE DrainOrder'
  <2>1. CASE Enqueue(j)
    <3>1. ~closed
      BY <2>1 DEF Enqueue, PoolInv, CloseOrder, NoReader
    <3>2. QED
      BY <2>1, <3>1 DEF Enqueue
  <2>2. CASE ~Enqueue(j)
    <3>1. UNCHANGED <<jobQueue, closed, cancelled, shutdown, worker>>
      BY <1>1, <2>2 DEF Submit, SubmitClosed, SubmitOpen, QueueFull, Wake, TurnedAway
    <3>2. QED
      BY <3>1
  <2>3. QED
    BY <2>1, <2>2
<1>2. ASSUME NEW w \in Worker, Work(w) PROVE DrainOrder'
  <2>1. worker \in [Worker -> {"select", "lookup", "running", "exited"}]
    BY DEF PoolInv, PoolTypeOK
  <2>2. CASE Receive(w)
    BY <2>1, <2>2 DEF Receive
  <2>3. CASE Exit(w)
    BY <2>1, <2>3 DEF Exit
  <2>4. CASE Lookup(w)
    BY <2>1, <2>4 DEF Lookup, Returns
  <2>5. CASE Succeed(w)
    BY <2>1, <2>5 DEF Succeed, Returns
  <2>6. CASE HandleFailure(w)
    BY <2>1, <2>6 DEF HandleFailure, Returns
  <2>7. QED
    BY <1>2, <2>2, <2>3, <2>4, <2>5, <2>6 DEF Work
<1>3. ASSUME NEW t \in JobType, RegisterHandler(t) PROVE DrainOrder'
  BY <1>3 DEF RegisterHandler
<1>4. CASE Shutdown
  BY <1>4 DEF Shutdown, MarkClosed, CloseQueue, WorkersDone, TimedOut, PoolInv, CloseOrder
<1>5. CASE UNCHANGED poolVars
  BY <1>5 DEF poolVars
<1>6. QED
  BY <1>1, <1>2, <1>3, <1>4, <1>5 DEF PoolNext, Stopped

\* pool.go Shutdown: when wg.Wait returned in time the channel is empty, no
\* worker has a job, and every accepted job that is not settled waits in a
\* retry goroutine.
THEOREM PoolDrainsGracefully == PoolSpec => []GracefulMeansDrained
<1>1. PoolInit => DrainOrder
  BY DEF PoolInit, DrainOrder
<1>2. PoolInv /\ PInv /\ DrainOrder => GracefulMeansDrained
  <2> SUFFICES ASSUME PoolInv, PInv, DrainOrder, shutdown = "ok"
               PROVE  /\ jobQueue = <<>>
                      /\ \A j \in Job : fate[j] = "accepted" => sender[j] # "none"
    BY DEF GracefulMeansDrained
  <2>1. \A w \in Worker : worker[w] = "exited" /\ jobQueue = <<>>
    BY DEF DrainOrder
  <2>2. jobQueue = <<>>
    BY <2>1, PoolAssumption
  <2>3. DOMAIN jobQueue = {}
    BY <2>2
  <2>4. ASSUME NEW j \in Job, fate[j] = "accepted" PROVE sender[j] # "none"
    <3>1. \A w \in Worker : holds[w] # j
      BY <2>1, PoolAssumption DEF PInv, WorkerOwns
    <3>2. QED
      BY <2>3, <2>4, <3>1 DEF PInv, Accounted
  <2>5. QED
    BY <2>2, <2>4
<1>3. QED
  BY <1>1, <1>2, DrainOrderKept, PlacesInvariant, PTL DEF PoolSpec

-----------------------------------------------------------------------------
(***************************************************************************)
(* The pool implements the job queue: each action is a step of one job,    *)
(* or changes the state of none.                                           *)
(***************************************************************************)
LEMMA OneJobSteps ==
  ASSUME NEW j \in Job, NEW from, NEW to, JobState(j) = from, JobState(j)' = to,
         \A k \in Job \ {j} : JobState(k)' = JobState(k)
  PROVE  Abstract!Step(j, from, to)
BY DEF Abstract!Step

\* When no job changes its state, JobQueue stutters.
LEMMA NoJobSteps ==
  ASSUME UNCHANGED retryCount, \A k \in Job : JobState(k)' = JobState(k)
  PROVE  UNCHANGED Abstract!vars
BY DEF Abstract!vars

\* A job whose flags and holder stay as they are keeps its state.
LEMMA SameState ==
  ASSUME NEW k \in Job, fate'[k] = fate[k],
         \A w \in Worker : holds'[w] = k /\ worker'[w] = "running"
                             <=> holds[w] = k /\ worker[w] = "running"
  PROVE  JobState(k)' = JobState(k)
BY DEF JobState, Running, HeldBy

\* Whoever sends a job is the only one to have it, so that it is waiting.
LEMMA SentIsWaiting ==
  ASSUME PInv, NEW j \in Job, sender[j] # "none" \/ fate[j] = "new"
  PROVE  JobState(j) = IF fate[j] = "new" THEN "new" ELSE "waiting"
BY DEF PInv, WorkerOwns, SenderOwns, JobState, Running, HeldBy

\* A job that is turned away is refused, or lost on its way back.
LEMMA TurnedAwaySteps ==
  ASSUME PoolTypeOK, PInv, NEW j \in Job, TurnedAway(j), sender[j] # "none" \/ fate[j] = "new"
  PROVE  Abstract!Next
<1>1. /\ fate'[j] = (IF fate[j] = "new" THEN "refused" ELSE "lost")
      /\ \A k \in Job \ {j} : fate'[k] = fate[k]
      /\ UNCHANGED <<worker, holds, retryCount>>
  BY DEF PoolTypeOK, TurnedAway, Fate
<1>2. \A k \in Job \ {j} : JobState(k)' = JobState(k)
  BY <1>1, SameState
<1>3. JobState(j)' = IF fate[j] = "new" THEN "refused" ELSE "lost"
  BY <1>1 DEF JobState
<1>4. CASE fate[j] = "new"
  <2>1. Abstract!Refuse(j)
    BY <1>1, <1>2, <1>3, <1>4, SentIsWaiting, OneJobSteps DEF Abstract!Refuse
  <2> QED BY <2>1 DEF Abstract!Next
<1>5. CASE fate[j] # "new"
  <2>1. retryCount[j] > 0
    BY <1>5 DEF PInv, SenderOwns
  <2>2. Abstract!Lose(j)
    BY <1>1, <1>2, <1>3, <1>5, <2>1, SentIsWaiting, OneJobSteps DEF Abstract!Lose
  <2> QED BY <2>2 DEF Abstract!Next
<1> QED BY <1>4, <1>5

\* A submission is a step of JobQueue for the job, or none.
LEMMA SubmitSteps ==
  ASSUME PoolTypeOK, PInv, NEW j \in Job, Submit(j) \/ Wake(j)
  PROVE  Abstract!Next \/ UNCHANGED Abstract!vars
<1>1. CASE TurnedAway(j) /\ (sender[j] # "none" \/ fate[j] = "new")
  BY <1>1, TurnedAwaySteps
<1>2. CASE UNCHANGED <<worker, holds, fate, retryCount>>
  BY <1>2, SameState, NoJobSteps
<1>3. CASE Enqueue(j)
  <2>1. /\ sender[j] = "sending" /\ fate'[j] = "accepted"
        /\ \A k \in Job \ {j} : fate'[k] = fate[k]
        /\ UNCHANGED <<worker, holds, retryCount>>
    BY <1>3 DEF Enqueue, Fate, PoolTypeOK
  <2>2. \A k \in Job \ {j} : JobState(k)' = JobState(k)
    BY <2>1, SameState
  <2>3. JobState(j)' = "waiting"
    BY <2>1 DEF JobState, Running, HeldBy, PInv, WorkerOwns
  <2>4. CASE fate[j] = "new"
    <3>1. Abstract!Accept(j)
      BY <2>1, <2>2, <2>3, <2>4, SentIsWaiting, OneJobSteps DEF Abstract!Accept
    <3> QED BY <3>1 DEF Abstract!Next
  <2>5. CASE fate[j] # "new"
    BY <2>1, <2>2, <2>3, <2>5, SentIsWaiting, NoJobSteps
  <2> QED BY <2>4, <2>5
<1>4. CASE SubmitOpen(j) \/ (Wake(j) /\ ~TurnedAway(j))
  BY <1>2, <1>4 DEF SubmitOpen, Wake, jobs
<1> QED BY <1>1, <1>3, <1>4 DEF Submit, SubmitClosed, Submitting, QueueFull, Wake

\* The worker returns from its job, whose state changes; others keep theirs.
LEMMA ReturnSteps ==
  ASSUME PoolTypeOK, PInv, NEW w \in Worker, NEW j \in Job, holds[w] = j, Returns(w),
         \A k \in Job \ {j} : fate'[k] = fate[k]
  PROVE  /\ \A k \in Job \ {j} : JobState(k)' = JobState(k)
         /\ JobState(j)' = IF fate'[j] = "accepted" THEN "waiting" ELSE fate'[j]
         /\ worker[w] = "running" => JobState(j) = "running"
         /\ worker[w] = "lookup" => JobState(j) = "waiting"
<1>1. /\ holds'[w] = NoJob /\ worker'[w] = "select"
      /\ \A v \in Worker \ {w} : holds'[v] = holds[v] /\ worker'[v] = worker[v]
  BY DEF PoolTypeOK, Returns
<1>2. \A v \in Worker \ {w} : holds[v] # j
  BY DEF PInv, WorkerOwns
<1>3. \A k \in Job \ {j} : JobState(k)' = JobState(k)
  BY <1>1, SameState, PoolAssumption
<1>4. fate[j] = "accepted"
  BY DEF PInv, WorkerOwns
<1>5. \A v \in Worker : holds'[v] # j
  BY <1>1, <1>2, PoolAssumption
<1>6. JobState(j)' = IF fate'[j] = "accepted" THEN "waiting" ELSE fate'[j]
  BY <1>5 DEF JobState, Running, HeldBy
<1>7. worker[w] = "running" => JobState(j) = "running"
  BY <1>4 DEF JobState, Running, HeldBy
<1>8. worker[w] = "lookup" => JobState(j) = "waiting"
  BY <1>2, <1>4 DEF JobState, Running, HeldBy
<1> QED BY <1>3, <1>6, <1>7, <1>8

\* So is each step of a worker for the job it holds.
LEMMA WorkSteps ==
  ASSUME PoolTypeOK, BusyHolds, PInv, NEW w \in Worker, Work(w)
  PROVE  Abstract!Next \/ UNCHANGED Abstract!vars
<1> DEFINE j == holds[w]
<1>1. CASE Receive(w) \/ Exit(w)
  <2>1. /\ worker[w] = "select" /\ worker'[w] # "running"
        /\ \A v \in Worker \ {w} : holds'[v] = holds[v] /\ worker'[v] = worker[v]
        /\ UNCHANGED <<fate, retryCount>>
    BY <1>1 DEF Receive, Exit, PoolTypeOK, jobs
  <2> QED BY <2>1, SameState, NoJobSteps
<1>2. CASE Lookup(w)
  <2>1. j \in Job
    BY <1>2 DEF Lookup, BusyHolds
  <2>2. CASE TypeOf[j] \in handlers
    <3>1. /\ worker[w] = "lookup" /\ worker'[w] = "running"
          /\ \A v \in Worker \ {w} : worker'[v] = worker[v]
          /\ UNCHANGED <<holds, fate, retryCount>>
      BY <1>2, <2>2 DEF Lookup, PoolTypeOK
    <3>2. PICK i \in Job : i = j
      BY <2>1
    <3>3. \A k \in Job \ {i} : JobState(k)' = JobState(k)
      BY <3>1, <3>2, SameState
    <3>4. fate[i] = "accepted" /\ \A v \in Worker \ {w} : holds[v] # i
      BY <3>2 DEF PInv, WorkerOwns
    <3>5. JobState(i) = "waiting" /\ JobState(i)' = "running"
      BY <3>1, <3>2, <3>4 DEF JobState, Running, HeldBy
    <3>6. Abstract!Attempt(i)
      BY <3>1, <3>3, <3>5, OneJobSteps DEF Abstract!Attempt
    <3> QED BY <3>6 DEF Abstract!Next
  <2>3. CASE TypeOf[j] \notin handlers
    <3>1. PICK i \in Job : i = j
      BY <2>1
    <3>2. /\ Returns(w) /\ fate'[i] = "discarded" /\ worker[w] = "lookup"
          /\ \A k \in Job \ {i} : fate'[k] = fate[k]
          /\ UNCHANGED retryCount
      BY <1>2, <2>3, <3>1 DEF Lookup, Fate, PoolTypeOK
    <3>3. Abstract!Skip(i)
      BY <3>1, <3>2, ReturnSteps, OneJobSteps DEF Abstract!Skip
    <3> QED BY <3>3 DEF Abstract!Next
  <2> QED BY <2>2, <2>3
<1>3. CASE Succeed(w)
  <2>1. PICK i \in Job : i = j
    BY <1>3 DEF Succeed, BusyHolds
  <2>2. /\ Returns(w) /\ fate'[i] = "done" /\ worker[w] = "running"
        /\ \A k \in Job \ {i} : fate'[k] = fate[k]
        /\ UNCHANGED retryCount
    BY <1>3, <2>1 DEF Succeed, Fate, PoolTypeOK
  <2>3. Abstract!Finish(i)
    BY <2>1, <2>2, ReturnSteps, OneJobSteps DEF Abstract!Finish
  <2> QED BY <2>3 DEF Abstract!Next
<1>4. CASE HandleFailure(w)
  <2>1. PICK i \in Job : i = j
    BY <1>4 DEF HandleFailure, BusyHolds
  <2>2. retryCount[i] \in Nat /\ MaxRetries[i] \in Nat
    BY PoolAssumption DEF PoolTypeOK
  <2>3. CASE retryCount[i] >= MaxRetries[i]
    <3>1. /\ Returns(w) /\ fate'[i] = "discarded" /\ worker[w] = "running"
          /\ \A k \in Job \ {i} : fate'[k] = fate[k]
          /\ UNCHANGED retryCount
      BY <1>4, <2>1, <2>3 DEF HandleFailure, Fate, PoolTypeOK
    <3>2. Abstract!Discard(i)
      BY <2>1, <2>3, <3>1, ReturnSteps, OneJobSteps DEF Abstract!Discard
    <3> QED BY <3>2 DEF Abstract!Next
  <2>4. CASE ~(retryCount[i] >= MaxRetries[i])
    <3>1. /\ Returns(w) /\ UNCHANGED fate /\ worker[w] = "running"
          /\ retryCount' = [retryCount EXCEPT ![i] = @ + 1]
      BY <1>4, <2>1, <2>4 DEF HandleFailure
    <3>2. fate[i] = "accepted" /\ retryCount[i] < MaxRetries[i]
      BY <2>1, <2>2, <2>4 DEF PInv, WorkerOwns
    <3>3. Abstract!Retry(i)
      BY <2>1, <3>1, <3>2, ReturnSteps, OneJobSteps DEF Abstract!Retry
    <3> QED BY <3>3 DEF Abstract!Next
  <2> QED BY <2>3, <2>4
<1> QED BY <1>1, <1>2, <1>3, <1>4 DEF Work

\* Every step of the pool is a step of JobQueue or a stutter.
LEMMA StepsAreSteps ==
  PoolInv /\ PInv /\ [PoolNext]_poolVars => [Abstract!Next]_(Abstract!vars)
<1> SUFFICES ASSUME PoolTypeOK, BusyHolds, PInv, [PoolNext]_poolVars
             PROVE  Abstract!Next \/ UNCHANGED Abstract!vars
  BY DEF PoolInv
<1>1. ASSUME NEW j \in Job, Submit(j) \/ Wake(j) PROVE Abstract!Next \/ UNCHANGED Abstract!vars
  BY <1>1, SubmitSteps
<1>2. ASSUME NEW w \in Worker, Work(w) PROVE Abstract!Next \/ UNCHANGED Abstract!vars
  BY <1>2, WorkSteps
<1>3. CASE UNCHANGED <<worker, holds, fate, retryCount>>
  BY <1>3, SameState, NoJobSteps
<1>4. CASE \E t \in JobType : RegisterHandler(t)
  BY <1>3, <1>4 DEF RegisterHandler, jobs
<1>5. CASE Shutdown
  BY <1>3, <1>5 DEF Shutdown, MarkClosed, CloseQueue, WorkersDone, TimedOut, jobs
<1>6. CASE UNCHANGED poolVars
  BY <1>3, <1>6 DEF poolVars, jobs
<1> QED BY <1>1, <1>2, <1>4, <1>5, <1>6 DEF PoolNext, Stopped

\* A new pool has new jobs.
LEMMA InitIsInit == PoolInit => Abstract!Init
BY DEF PoolInit, Abstract!Init, JobState

\* What pool.go does to a job, with any number of workers, submitters and
\* retries and a shutdown at any moment, is what JobQueue allows: one attempt
\* at a time, no more attempts than the retries admit, no job settled twice,
\* and none lost but on its way back after a failed attempt.
THEOREM PoolImplementsJobQueue == PoolSpec => ImplementsJobQueue
BY PlacesInvariant, InitIsInit, StepsAreSteps, PTL DEF PoolSpec, ImplementsJobQueue, Abstract!Spec
-----------------------------------------------------------------------------
(***************************************************************************)
(* Each store grants a key once, for any instances, requests and keys.     *)
(*                                                                         *)
(* OneGrantPerKey follows from what a store remembers: it still holds the  *)
(* key of every request it let through, and whoever finds a key there is   *)
(* not let through.                                                        *)
(***************************************************************************)
Asked == \A r \in Request : stage[r] \in {"health", "setnx", "memory"} => KeyOf[r] \in Key

GrantedAreReserved == \A s \in Store : \A r \in granted[s] : KeyOf[r] \in reserved[s]

KeyInv == KeyTypeOK /\ Asked /\ GrantedAreReserved /\ OneGrantPerKey

\* Nothing is granted at first.
LEMMA KeyInitEstablishes == KeyInit => KeyInv
BY DEF KeyInit, KeyInv, KeyTypeOK, Asked, GrantedAreReserved, OneGrantPerKey, Store, Waiting

\* A store that does not hold the key of r may let it through.
LEMMA ReserveKeeps ==
  ASSUME KeyInv, NEW r \in Request, NEW s \in Store,
         KeyOf[r] \in Key, KeyOf[r] \notin reserved[s], Reserve(r, s)
  PROVE  /\ reserved' \in [Store -> SUBSET Key] /\ granted' \in [Store -> SUBSET Request]
         /\ GrantedAreReserved' /\ OneGrantPerKey'
<1> USE DEF KeyInv, KeyTypeOK, Reserve
<1>1. /\ reserved'[s] = reserved[s] \cup {KeyOf[r]} /\ granted'[s] = granted[s] \cup {r}
      /\ \A z \in Store \ {s} : reserved'[z] = reserved[z] /\ granted'[z] = granted[z]
  OBVIOUS
<1>2. GrantedAreReserved'
  BY <1>1 DEF GrantedAreReserved
<1>3. OneGrantPerKey'
  BY <1>1 DEF GrantedAreReserved, OneGrantPerKey
<1> QED BY <1>2, <1>3

\* A store that loses keys forgets whom it let through with them.
LEMMA ForgetKeeps ==
  ASSUME KeyInv, NEW s \in Store, NEW K, Forget(s, K),
         reserved' = [reserved EXCEPT ![s] = @ \ K]
  PROVE  /\ reserved' \in [Store -> SUBSET Key] /\ granted' \in [Store -> SUBSET Request]
         /\ GrantedAreReserved' /\ OneGrantPerKey'
<1> USE DEF KeyInv, KeyTypeOK, Forget
<1>1. /\ reserved'[s] = reserved[s] \ K
      /\ granted'[s] = {r \in granted[s] : KeyOf[r] \notin K}
      /\ \A z \in Store \ {s} : reserved'[z] = reserved[z] /\ granted'[z] = granted[z]
  OBVIOUS
<1>2. GrantedAreReserved'
  BY <1>1 DEF GrantedAreReserved
<1>3. OneGrantPerKey'
  BY <1>1 DEF OneGrantPerKey
<1> QED BY <1>2, <1>3

\* Every step keeps the invariant.
LEMMA KeyNextKeeps == KeyInv /\ [KeyNext]_keyVars => KeyInv'
<1> SUFFICES ASSUME KeyInv, [KeyNext]_keyVars PROVE KeyInv'
  OBVIOUS
<1>0. Redis \in Store /\ \A r \in Request : at[r] \in Store
  BY DEF KeyInv, KeyTypeOK, Store
<1>1. ASSUME NEW r \in Request, Step(r) PROVE KeyInv'
  <2>1. CASE Arrive(r)
    BY <2>1, IdempotencyAssumption
       DEF Arrive, MoveTo, KeyInv, KeyTypeOK, Waiting, Asked, GrantedAreReserved, OneGrantPerKey
  <2>2. CASE CheckHealth(r)
    BY <2>2 DEF CheckHealth, MoveTo, KeyInv, KeyTypeOK, Waiting, Asked, GrantedAreReserved, OneGrantPerKey
  <2>3. CASE SetNX(r) /\ KeyOf[r] \in reserved[Redis]
    BY <2>3 DEF SetNX, MoveTo, KeyInv, KeyTypeOK, Waiting, Asked, GrantedAreReserved, OneGrantPerKey
  <2>4. CASE SetNX(r) /\ KeyOf[r] \notin reserved[Redis]
    <3>1. Reserve(r, Redis) /\ KeyOf[r] \in Key
      BY <2>4 DEF SetNX, KeyInv, Asked
    <3>2. /\ reserved' \in [Store -> SUBSET Key] /\ granted' \in [Store -> SUBSET Request]
          /\ GrantedAreReserved' /\ OneGrantPerKey'
      BY <1>0, <2>4, <3>1, ReserveKeeps
    <3> QED BY <2>4, <3>2 DEF SetNX, MoveTo, KeyInv, KeyTypeOK, Waiting, Asked
  <2>5. CASE SetNXFails(r)
    BY <1>0, <2>5
       DEF SetNXFails, MoveTo, KeyInv, KeyTypeOK, Waiting, Asked, GrantedAreReserved, OneGrantPerKey
  <2>6. CASE AcquireInMemory(r) /\ KeyOf[r] \in reserved[at[r]]
    BY <2>6 DEF AcquireInMemory, MoveTo, KeyInv, KeyTypeOK, Waiting, Asked, GrantedAreReserved, OneGrantPerKey
  <2>7. CASE AcquireInMemory(r) /\ KeyOf[r] \notin reserved[at[r]]
    <3>1. Reserve(r, at[r]) /\ KeyOf[r] \in Key
      BY <2>7 DEF AcquireInMemory, KeyInv, Asked
    <3>2. /\ reserved' \in [Store -> SUBSET Key] /\ granted' \in [Store -> SUBSET Request]
          /\ GrantedAreReserved' /\ OneGrantPerKey'
      BY <1>0, <2>7, <3>1, ReserveKeeps
    <3> QED BY <2>7, <3>2 DEF AcquireInMemory, MoveTo, KeyInv, KeyTypeOK, Waiting, Asked
  <2>8. CASE Serve(r)
    BY <2>8 DEF Serve, MoveTo, KeyInv, KeyTypeOK, Waiting, Asked, GrantedAreReserved, OneGrantPerKey
  <2> QED BY <1>1, <2>1, <2>2, <2>3, <2>4, <2>5, <2>6, <2>7, <2>8 DEF Step
<1>2. ASSUME NEW s \in Store, NEW k \in Key, Expire(s, k) PROVE KeyInv'
  <2>1. Forget(s, {k}) /\ reserved' = [reserved EXCEPT ![s] = @ \ {k}]
    BY <1>2 DEF Expire
  <2> QED BY <1>2, <2>1, ForgetKeeps DEF Expire, KeyInv, KeyTypeOK, Asked
<1>3. ASSUME NEW i \in Instance, Restart(i) PROVE KeyInv'
  <2>1. i \in Store /\ reserved[i] \ Key = {}
    BY DEF Store, KeyInv, KeyTypeOK
  <2>2. Forget(i, Key) /\ reserved' = [reserved EXCEPT ![i] = @ \ Key]
    BY <1>3, <2>1 DEF Restart
  <2>3. /\ reserved' \in [Store -> SUBSET Key] /\ granted' \in [Store -> SUBSET Request]
        /\ GrantedAreReserved' /\ OneGrantPerKey'
    BY <2>1, <2>2, ForgetKeeps
  <2> QED BY <1>3, <2>3 DEF Restart, KeyInv, KeyTypeOK, Waiting, Asked
<1>4. CASE RedisChanges
  <2>1. CASE UNCHANGED <<reserved, granted>>
    BY <1>4, <2>1 DEF RedisChanges, KeyInv, KeyTypeOK, Asked, GrantedAreReserved, OneGrantPerKey
  <2>2. CASE reserved' = [reserved EXCEPT ![Redis] = {}] /\ Forget(Redis, Key)
    <3>1. reserved[Redis] \ Key = {}
      BY <1>0 DEF KeyInv, KeyTypeOK
    <3>2. reserved' = [reserved EXCEPT ![Redis] = @ \ Key]
      BY <2>2, <3>1
    <3> QED BY <1>0, <1>4, <2>2, <3>2, ForgetKeeps DEF RedisChanges, KeyInv, KeyTypeOK, Asked
  <2> QED BY <1>4, <2>1, <2>2 DEF RedisChanges
<1>5. CASE UNCHANGED keyVars
  BY <1>5 DEF keyVars, KeyInv, KeyTypeOK, Asked, GrantedAreReserved, OneGrantPerKey
<1> QED BY <1>1, <1>2, <1>3, <1>4, <1>5 DEF KeyNext

\* idempotency.go: no store, Redis or the memory of an instance, lets two
\* requests with one key through while it keeps the key, whatever restarts,
\* expires or stops answering around it.
THEOREM StoresGrantOnce == KeySpec => []OneGrantPerKey
<1>1. KeyInv => OneGrantPerKey
  BY DEF KeyInv
<1> QED BY <1>1, KeyInitEstablishes, KeyNextKeeps, PTL DEF KeySpec

\* A request reaches its handler only in the step in which a store reserved
\* its key for it.
THEOREM HandlersNeedAGrant == KeySpec => HandledWasGranted
<1>1. KeyInv /\ [KeyNext]_keyVars =>
        [\A r \in Request : stage'[r] = "handler" /\ stage[r] # "handler" =>
           \E s \in {Redis, at[r]} : r \in granted'[s] /\ KeyOf[r] \in reserved'[s]]_keyVars
  <2> SUFFICES ASSUME KeyInv, KeyNext, NEW r \in Request, stage'[r] = "handler", stage[r] # "handler"
               PROVE  \E s \in {Redis, at[r]} : r \in granted'[s] /\ KeyOf[r] \in reserved'[s]
    OBVIOUS
  <2>1. PICK q \in Request : Step(q)
    BY DEF KeyNext, Expire, Restart, RedisChanges, KeyInv, KeyTypeOK
  <2>2. q = r
    BY <2>1 DEF Step, Arrive, CheckHealth, SetNX, SetNXFails, AcquireInMemory, Serve,
                MoveTo, KeyInv, KeyTypeOK
  <2>3. Reserve(r, Redis) \/ Reserve(r, at[r])
    BY <2>1, <2>2 DEF Step, Arrive, CheckHealth, SetNX, SetNXFails, AcquireInMemory, Serve,
                      MoveTo, KeyInv, KeyTypeOK
  <2> QED BY <2>3 DEF Reserve, KeyInv, KeyTypeOK, Store
<1> QED BY <1>1, KeyInitEstablishes, KeyNextKeeps, PTL DEF KeySpec, HandledWasGranted

-----------------------------------------------------------------------------
(***************************************************************************)
(* Billing a call, for any price, share and number of clients and tickers: *)
(* a settled call costs nothing, what is shown is what was paid, and the   *)
(* host earns his share of each minute.                                    *)
(*                                                                         *)
(* No statement runs in a transaction, so no row is ever locked and every  *)
(* write is committed at once.                                             *)
(***************************************************************************)
Writing == {"accept", "end", "stop", "bye", "debit", "share", "totals"}

Committed == /\ row \in [User -> Wallet]
             /\ ver = row
             /\ lock = [u \in User |-> NoTx]

\* Whoever has a copy is about to write it, a tick has one from its debit to
\* its totals, and it is a copy of a call that exists.
CopiesInUse ==
  /\ \A p \in Session : copy[p] # NoCall => place[p] \in Writing
  /\ call = NoCall =>
       \A p \in Session : copy[p] = NoCall /\ place[p] \in {"idle", "check", "create", "done", "gone"}
  /\ \A p \in Session : place[p] \in {"debit", "share", "totals"} => copy[p] # NoCall

AcceptsAccept == \A p \in Session : At(p, "accept") => job[p] \in {"accept", "answer"}

SInv == CallTypeOK /\ Committed /\ CopiesInUse /\ AcceptsAccept

\* A movement changes one wallet, at once and for good.
LEMMA MoveFacts ==
  ASSUME SInv, NEW p \in Session, NEW op \in {"credit", "debit"}, NEW u \in User, NEW a \in Nat,
         Move(p, op, u, a, FALSE)
  PROVE  /\ row'[u].bal = IF op = "credit" THEN row[u].bal + a ELSE row[u].bal - a
         /\ \A v \in User \ {u} : row'[v] = row[v]
         /\ StoreTypeOK' /\ Committed'
<1>1. row[u] \in Wallet /\ NoWallet \notin Wallet /\ Seen(p, u) = row[u]
  BY StoreAssumption DEF SInv, Committed, Seen
<1>2. Moved(op, row[u], a) \in Wallet
      /\ Moved(op, row[u], a).bal = IF op = "credit" THEN row[u].bal + a ELSE row[u].bal - a
  BY <1>1 DEF Move, Moved, Covered, CreditBalance, DebitBalance, Wallet
<1>3. /\ row' = [row EXCEPT ![u] = Moved(op, row[u], a)]
      /\ ver' = [ver EXCEPT ![u] = Moved(op, row[u], a)]
      /\ lock' = lock
  BY <1>1 DEF Move, Write, Lock
<1>4. row' \in [User -> Wallet] /\ ver' = row'
  BY <1>2, <1>3 DEF SInv, Committed
<1> QED BY <1>2, <1>3, <1>4 DEF SInv, CallTypeOK, StoreTypeOK, Committed

\* The structure holds of a call that was just inserted.
LEMMA StructureAtFirst == CallInit => SInv
<1> SUFFICES ASSUME CallInit PROVE SInv
  OBVIOUS
<1>1. StoreTypeOK /\ Committed
  BY CallAssumption DEF CallInit, StoreInit, StoreTypeOK, Committed
<1>2. job \in [Session -> Kinds]
  BY CallAssumption DEF CallInit
<1> QED BY <1>1, <1>2 DEF CallInit, SInv, CallTypeOK, CopiesInUse, AcceptsAccept, At

\* Prices and shares are numbers.
LEMMA ShareType == Rate \in Nat /\ HostShare \in Nat
BY CallAssumption

\* Every step keeps the structure.
LEMMA StructureKept == SInv /\ [CallNext]_paidVars => SInv'
<1> SUFFICES ASSUME SInv, [CallNext]_paidVars PROVE SInv'
  OBVIOUS
<1> USE CallAssumption, ShareType
        DEF SInv, CallTypeOK, CopiesInUse, AcceptsAccept, At, GoesTo, Working, Writing, callVars
<1>0. ASSUME UNCHANGED storeVars PROVE StoreTypeOK' /\ Committed'
  BY <1>0 DEF storeVars, StoreTypeOK, Committed
<1>1. ASSUME NEW p \in Session, Begin(p) PROVE SInv'
  BY <1>0, <1>1 DEF Begin, Kinds
<1>2. ASSUME NEW p \in Session, CallStep(p) PROVE SInv'
  <2>1. CASE CheckCaller(p)
    BY <1>0, <2>1 DEF CheckCaller
  <2>2. CASE CreateCallSession(p)
    BY <1>0, <2>2 DEF CreateCallSession, CallSession
  <2>3. CASE ReadToAccept(p)
    BY <1>0, <2>3 DEF ReadToAccept, Read
  <2>4. CASE SetActive(p)
    <3>1. [copy[p] EXCEPT !.status = "active"] \in CallSession
      BY <2>4 DEF SetActive, CallSession
    <3> QED BY <1>0, <2>4, <3>1 DEF SetActive, UpdateCallSession, Drop, AfterAccept
  <2>5. CASE ReadToEnd(p)
    BY <1>0, <2>5 DEF ReadToEnd, Read, Ending, AfterEnd
  <2>6. CASE SetEnded(p)
    <3>1. [copy[p] EXCEPT !.status = "ended"] \in CallSession
      BY <2>6 DEF SetEnded, CallSession
    <3> QED BY <1>0, <2>6, <3>1 DEF SetEnded, UpdateCallSession, Drop, Ending, AfterEnd
  <2>7. CASE ReadForTick(p)
    BY <1>0, <2>7 DEF ReadForTick, Read
  <2>8. CASE DebitCaller(p)
    <3>1. StoreTypeOK' /\ Committed'
      BY <1>0, <2>8, MoveFacts DEF DebitCaller
    <3> QED BY <2>8, <3>1 DEF DebitCaller, Drop
  <2>9. CASE CreditHost(p)
    <3>1. StoreTypeOK' /\ Committed'
      BY <2>9, MoveFacts DEF CreditHost
    <3> QED BY <2>9, <3>1 DEF CreditHost
  <2>10. CASE RecordTotals(p)
    <3>1. Billed(copy[p]) \in CallSession
      BY <2>10 DEF RecordTotals, Billed, CallSession
    <3> QED BY <1>0, <2>10, <3>1 DEF RecordTotals, UpdateCallSession, Drop
  <2> QED BY <1>2, <2>1, <2>2, <2>3, <2>4, <2>5, <2>6, <2>7, <2>8, <2>9, <2>10
          DEF CallStep, RequestCall, AcceptCall, EndCall, ProcessBillingTick
<1>3. ASSUME NEW p \in Session, Fails(p) PROVE SInv'
  <2>1. StoreTypeOK' /\ Committed'
    <3>1. UNCHANGED storeVars \/ Move(p, "debit", Caller, Rate, FALSE)
      BY <1>3, Zenon DEF Fails
    <3>2. CASE Move(p, "debit", Caller, Rate, FALSE)
      BY <1>3, <3>2, MoveFacts, Zenon
    <3>3. QED
      BY <1>0, <3>1, <3>2
  <2>2. UNCHANGED <<call, stale, job>> /\ failed' = TRUE
    BY <1>3 DEF Fails
  <2>3. CASE place[p] = "share"
    <3>1. place' = [place EXCEPT ![p] = "totals"] /\ copy' = copy
      BY <1>3, <2>3 DEF Fails, Ending
    <3>2. QED
      BY <2>1, <2>2, <2>3, <3>1
  <2>4. CASE place[p] # "share"
    <3>1. copy' = [copy EXCEPT ![p] = NoCall]
      BY <1>3, <2>4 DEF Fails, Drop
    <3>2. \E l \in {"done", "wait", "stop", "bye"} : place' = [place EXCEPT ![p] = l]
      BY <1>3, <2>4, Zenon DEF Fails, AfterAccept, AfterEnd
    <3>3. call # NoCall \/ \E l \in {"done"} : place' = [place EXCEPT ![p] = l]
      BY <1>3, <2>4 DEF Fails, Ending
    <3>4. QED
      BY <2>1, <2>2, <3>1, <3>2, <3>3
  <2>5. QED
    BY <2>3, <2>4
<1>4. ASSUME NEW p \in Session, TickReadFails(p) PROVE SInv'
  BY <1>0, <1>4 DEF TickReadFails
<1>5. CASE ServerStops
  BY <1>0, <1>5 DEF ServerStops
<1>6. CASE UNCHANGED paidVars
  BY <1>0, <1>6 DEF paidVars
<1> QED BY <1>1, <1>2, <1>3, <1>4, <1>5, <1>6 DEF CallNext, Quiescent

\* Every variable of the call keeps its type: no wallet goes below zero.
THEOREM CallTypeCorrect == CallSpec => []CallTypeOK
<1>1. SInv => CallTypeOK
  BY DEF SInv
<1> QED BY <1>1, StructureAtFirst, StructureKept, PTL DEF CallSpec

\* call_ws_handler.go: once a call has ended, no tick is half done and nobody
\* is about to accept it, no ticker that still runs charges anybody.
THEOREM SettledCallsAreFree == CallSpec => SettledCallIsFree
<1>1. SInv /\ [CallNext]_paidVars => [Settled => Settled' /\ row' = row]_paidVars
  <2> SUFFICES ASSUME SInv, CallNext, Settled PROVE Settled' /\ row' = row
    OBVIOUS
  <2> USE CallAssumption
          DEF SInv, CallTypeOK, CopiesInUse, AcceptsAccept, Settled, Ended, At, GoesTo, Working,
              storeVars, callVars
  <2>1. ASSUME NEW p \in Session, Begin(p) \/ TickReadFails(p) PROVE Settled' /\ row' = row
    BY <2>1 DEF Begin, TickReadFails, Kinds
  <2>2. ASSUME NEW p \in Session, RequestCall(p) \/ AcceptCall(p) PROVE Settled' /\ row' = row
    BY <2>2 DEF RequestCall, AcceptCall, CheckCaller, CreateCallSession, ReadToAccept, SetActive
  <2>3. ASSUME NEW p \in Session, EndCall(p) PROVE Settled' /\ row' = row
    <3>1. copy[p] # NoCall => [copy[p] EXCEPT !.status = "ended"].status = "ended"
      BY DEF CallSession
    <3> QED BY <2>3, <3>1 DEF EndCall, ReadToEnd, SetEnded, Ending, AfterEnd,
                              UpdateCallSession, Drop, Read, CallSession
  <2>4. ASSUME NEW p \in Session, ProcessBillingTick(p) PROVE Settled' /\ row' = row
    BY <2>4 DEF ProcessBillingTick, ReadForTick, DebitCaller, CreditHost, RecordTotals, Read
  <2>5. ASSUME NEW p \in Session, Fails(p) PROVE Settled' /\ row' = row
    <3>1. /\ place[p] \notin {"debit", "share", "totals", "idle"} /\ UNCHANGED <<call, job>>
          /\ \E l \in {"done", "wait", "bye"} : place' = [place EXCEPT ![p] = l]
          /\ UNCHANGED storeVars
      BY <2>5, Zenon DEF Fails, Ending, AfterEnd, AfterAccept
    <3>2. QED
      BY <3>1
  <2>6. CASE ServerStops
    BY <2>6 DEF ServerStops
  <2>7. CASE Quiescent
    BY <2>7 DEF Quiescent, paidVars
  <2> QED BY <2>1, <2>2, <2>3, <2>4, <2>5, <2>6, <2>7 DEF CallNext, CallStep
<1> QED BY <1>1, StructureAtFirst, StructureKept, PTL DEF CallSpec, SettledCallIsFree

-----------------------------------------------------------------------------
(***************************************************************************)
(* What is shown and earned.  Ticks under way are counted by their labels. *)
(***************************************************************************)
Ticks(labels) == Cardinality({p \in Session : place[p] \in labels})

\* A step of one session changes each count by at most one.
LEMMA TicksMove ==
  ASSUME CallTypeOK, NEW p \in Session, NEW l, NEW labels, GoesTo(p, l)
  PROVE  /\ Ticks(labels) \in Nat
         /\ Ticks(labels)' = Ticks(labels) + (IF l \in labels THEN 1 ELSE 0)
                                           - (IF place[p] \in labels THEN 1 ELSE 0)
<1> DEFINE S == {q \in Session : place[q] \in labels}
           T == {q \in Session : place'[q] \in labels}
<1>1. IsFiniteSet(S) /\ Cardinality(S) \in Nat
  BY CallAssumption, FS_Subset, FS_CardinalityType
<1>2. place'[p] = l /\ \A q \in Session \ {p} : place'[q] = place[q]
  BY DEF CallTypeOK, GoesTo
<1>3. CASE l \in labels
  <2>1. T = S \cup {p}
    BY <1>2, <1>3
  <2>2. Cardinality(T) = IF p \in S THEN Cardinality(S) ELSE Cardinality(S) + 1
    <3> HIDE DEF S, T
    <3> QED BY <1>1, <2>1, FS_AddElement
  <2>3. p \in S <=> place[p] \in labels
    OBVIOUS
  <2> QED BY <1>1, <1>3, <2>2, <2>3 DEF Ticks
<1>4. CASE l \notin labels
  <2>1. T = S \ {p}
    BY <1>2, <1>4
  <2>2. Cardinality(S \ {p}) = IF p \in S THEN Cardinality(S) - 1 ELSE Cardinality(S)
    BY <1>1, FS_RemoveElement
  <2>3. p \in S <=> place[p] \in labels
    OBVIOUS
  <2>4. Cardinality(T) = Cardinality(S) - (IF place[p] \in labels THEN 1 ELSE 0)
    <3> HIDE DEF S, T
    <3>1. CASE place[p] \in labels
      BY <1>1, <2>1, <2>2, <2>3, <3>1
    <3>2. CASE place[p] \notin labels
      BY <1>1, <2>1, <2>2, <2>3, <3>2
    <3> QED BY <3>1, <3>2
  <2> QED BY <1>1, <1>4, <2>4 DEF Ticks
<1> QED BY <1>3, <1>4

\* A session that comes to a set of labels adds one tick,
LEMMA TicksEnter ==
  ASSUME CallTypeOK, NEW p \in Session, NEW l, NEW labels, GoesTo(p, l), place[p] \notin labels, l \in labels
  PROVE  Ticks(labels)' = Ticks(labels) + 1
<1>1. Ticks(labels)' = Ticks(labels) + 1 - 0 /\ Ticks(labels) \in Nat
  BY TicksMove
<1> QED BY <1>1

\* one that leaves takes one away,
LEMMA TicksLeave ==
  ASSUME CallTypeOK, NEW p \in Session, NEW l, NEW labels, GoesTo(p, l), place[p] \in labels, l \notin labels
  PROVE  Ticks(labels)' = Ticks(labels) - 1
<1>1. Ticks(labels)' = Ticks(labels) + 0 - 1 /\ Ticks(labels) \in Nat
  BY TicksMove
<1> QED BY <1>1

\* and one that stays, or stays out, changes nothing.
LEMMA TicksStay ==
  ASSUME CallTypeOK, NEW p \in Session, NEW l, NEW labels, GoesTo(p, l), place[p] \in labels <=> l \in labels
  PROVE  Ticks(labels)' = Ticks(labels)
<1>1. CASE l \in labels
  <2>1. Ticks(labels)' = Ticks(labels) + 1 - 1 /\ Ticks(labels) \in Nat
    BY <1>1, TicksMove
  <2> QED BY <2>1
<1>2. CASE l \notin labels
  <2>1. Ticks(labels)' = Ticks(labels) + 0 - 0 /\ Ticks(labels) \in Nat
    BY <1>2, TicksMove
  <2> QED BY <2>1
<1> QED BY <1>1, <1>2

\* Every copy of the session, and the session, show no more than was paid.
Shown ==
  /\ call # NoCall => call.total <= Charged
  /\ \A p \in Session : copy[p] # NoCall =>
       copy[p].total + (IF place[p] \in {"share", "totals"} THEN Rate ELSE 0) <= Charged

\* Minutes paid and minutes shared; a minute is shared after it was paid.
Minutes ==
  \E m, k \in Nat : /\ Charged = Rate * m /\ Earned = HostShare * k
                    /\ k + Ticks({"share"}) <= m
                    /\ ~failed => k + Ticks({"share"}) = m

Booked ==
  /\ ~failed /\ ~stale /\ call # NoCall =>
       /\ call.total + Rate * Ticks({"share", "totals"}) = Charged
       /\ call.host + HostShare * Ticks({"totals"}) = Earned
  /\ call = NoCall => Charged = 0 /\ Earned = 0

BInv == Shown /\ Minutes /\ Booked

\* The wallets are the money that moved.
LEMMA Accounts == ASSUME SInv PROVE Charged \in Int /\ Earned \in Int
BY CallAssumption DEF SInv, Committed, Charged, Earned, Wallet

\* Nobody at the labels: no ticks.
LEMMA NoTicks ==
  ASSUME NEW labels, \A p \in Session : place[p] \notin labels
  PROVE  Ticks(labels) = 0
<1>1. {p \in Session : place[p] \in labels} = {}
  OBVIOUS
<1> QED BY <1>1, FS_EmptySet DEF Ticks

\* Ticks are counted in natural numbers.
LEMMA TicksType == ASSUME NEW labels PROVE Ticks(labels) \in Nat
<1>1. IsFiniteSet({p \in Session : place[p] \in labels})
  BY CallAssumption, FS_Subset
<1> QED BY <1>1, FS_CardinalityType DEF Ticks

\* After a step as well.
LEMMA TicksTypeNext == ASSUME NEW labels PROVE Ticks(labels)' \in Nat
<1>1. IsFiniteSet({p \in Session : place'[p] \in labels})
  BY CallAssumption, FS_Subset
<1> QED BY <1>1, FS_CardinalityType DEF Ticks

\* Nothing is charged at first.
LEMMA BooksAtFirst == CallInit => BInv
<1> SUFFICES ASSUME CallInit PROVE BInv
  OBVIOUS
<1>1. Charged = 0 /\ Earned = 0
  BY CallAssumption DEF CallInit, StoreInit, Charged, Earned, Wallet
<1>2. Ticks({"share"}) = 0
  BY NoTicks DEF CallInit
<1>3. Minutes
  <2>1. Rate * 0 = 0 /\ HostShare * 0 = 0
    BY ShareType
  <2> QED BY <1>1, <1>2, <2>1 DEF Minutes
<1> QED BY <1>1, <1>3 DEF CallInit, BInv, Shown, Booked

\* Reading, writing back and failing without money: whoever writes, writes a
\* copy with another status, and no tick changes its place between the debit
\* and the totals.
LEMMA NoMoneyKeepsBooks ==
  ASSUME SInv, BInv, SInv', UNCHANGED row, failed => failed',
         Ticks({"share"})' <= Ticks({"share"}),
         ~failed' => /\ UNCHANGED Ticks({"share"}) /\ UNCHANGED Ticks({"totals"})
                     /\ UNCHANGED Ticks({"share", "totals"}),
         \A p \in Session : copy'[p] # NoCall =>
           \/ copy'[p] = copy[p] /\ (place'[p] \in {"share", "totals"} <=> place[p] \in {"share", "totals"})
           \/ copy'[p] = call /\ place'[p] \notin {"share", "totals"},
         \/ UNCHANGED callVars
         \/ call = NoCall /\ call' # NoCall
              /\ call'.total = 0 /\ call'.host = 0 /\ stale' = stale
              /\ \A p \in Session : place[p] \notin {"share", "totals"}
         \/ \E p \in Session : /\ copy[p] # NoCall /\ call' # NoCall
                               /\ call'.total = copy[p].total /\ call'.host = copy[p].host
                               /\ stale' = (stale \/ call # copy[p])
  PROVE  BInv'
<1>1. Charged' = Charged /\ Earned' = Earned
  BY DEF Charged, Earned
<1>2. Shown'
  BY <1>1, Accounts, ShareType DEF BInv, Shown, Booked, SInv, CallTypeOK, CopiesInUse, CallSession, callVars
<1>3. Minutes'
  <2>1. Ticks({"share"}) \in Nat /\ Ticks({"share"})' \in Nat
    BY TicksType, TicksTypeNext
  <2>2. PICK m \in Nat, k \in Nat :
               /\ Charged = Rate * m /\ Earned = HostShare * k
               /\ k + Ticks({"share"}) <= m
               /\ ~failed => k + Ticks({"share"}) = m
    BY DEF BInv, Minutes
  <2>3. k + Ticks({"share"})' <= m /\ (~failed' => k + Ticks({"share"})' = m)
    BY <2>1, <2>2
  <2> QED BY <1>1, <2>2, <2>3 DEF Minutes
<1>4. Booked'
  <2>1. CASE UNCHANGED callVars
    BY <1>1, <2>1 DEF BInv, Booked, callVars
  <2>2. CASE call = NoCall /\ call' # NoCall
              /\ call'.total = 0 /\ call'.host = 0 /\ stale' = stale
              /\ \A p \in Session : place[p] \notin {"share", "totals"}
    <3>1. Ticks({"share", "totals"}) = 0 /\ Ticks({"totals"}) = 0
      BY <2>2, NoTicks
    <3> QED BY <1>1, <2>2, <3>1, ShareType DEF BInv, Booked
  <2>3. CASE \E p \in Session : /\ copy[p] # NoCall /\ call' # NoCall
                               /\ call'.total = copy[p].total /\ call'.host = copy[p].host
                               /\ stale' = (stale \/ call # copy[p])
    BY <1>1, <2>3 DEF BInv, Booked
  <2> QED BY <2>1, <2>2, <2>3
<1> QED BY <1>2, <1>3, <1>4 DEF BInv

\* A minute is paid, in time or by a debit whose answer is lost.
LEMMA DebitKeepsBooks ==
  ASSUME SInv, BInv, NEW p \in Session, At(p, "debit"), Move(p, "debit", Caller, Rate, FALSE),
         UNCHANGED callVars,
         \/ GoesTo(p, "share") /\ UNCHANGED <<copy, failed>>
         \/ GoesTo(p, "stop") /\ Drop(p) /\ failed'
  PROVE  BInv'
<1>1. Charged' = Charged + Rate /\ Earned' = Earned
  <2>1. Caller \in User /\ Host \in User \ {Caller}
    BY CallAssumption
  <2>2. row'[Caller].bal = row[Caller].bal - Rate /\ row'[Host] = row[Host]
    BY <2>1, ShareType, MoveFacts
  <2>3. row[Caller].bal \in Nat /\ Purses[Caller].bal \in Nat
    BY <2>1, CallAssumption DEF SInv, Committed, Wallet
  <2> QED BY <2>2, <2>3, ShareType DEF Charged, Earned
<1>2. call' = call /\ stale' = stale /\ call # NoCall /\ copy[p] # NoCall
  BY DEF callVars, SInv, CopiesInUse, At
<1>3. Shown'
  BY <1>1, <1>2, Accounts, ShareType
  DEF BInv, Shown, SInv, CallTypeOK, CallSession, At, GoesTo, Drop
<1>4. /\ Ticks({"share"}) \in Nat /\ Ticks({"share", "totals"}) \in Nat
      /\ Ticks({"share"})' \in Nat
      /\ Ticks({"share"})' <= Ticks({"share"}) + 1
      /\ ~failed' => /\ ~failed
                     /\ Ticks({"share"})' = Ticks({"share"}) + 1
                     /\ Ticks({"share", "totals"})' = Ticks({"share", "totals"}) + 1
                     /\ Ticks({"totals"})' = Ticks({"totals"})
  <2>1. \A labels : Ticks(labels) \in Nat /\ Ticks(labels)' \in Nat
    BY TicksType, TicksTypeNext
  <2>2. CASE GoesTo(p, "share") /\ UNCHANGED <<copy, failed>>
    <3>1. Ticks({"share"})' = Ticks({"share"}) + 1
      BY <2>1, <2>2, TicksEnter DEF SInv, At
    <3>2. Ticks({"share", "totals"})' = Ticks({"share", "totals"}) + 1
      BY <2>1, <2>2, TicksEnter DEF SInv, At
    <3>3. Ticks({"totals"})' = Ticks({"totals"})
      BY <2>1, <2>2, TicksStay DEF SInv, At
    <3> QED BY <2>1, <2>2, <3>1, <3>2, <3>3
  <2>3. CASE GoesTo(p, "stop") /\ Drop(p) /\ failed'
    <3>1. Ticks({"share"})' = Ticks({"share"})
      BY <2>1, <2>3, TicksStay DEF SInv, At
    <3> QED BY <2>1, <2>3, <3>1
  <2> QED BY <2>2, <2>3
<1>5. Minutes'
  <2>1. PICK m \in Nat, k \in Nat :
               /\ Charged = Rate * m /\ Earned = HostShare * k
               /\ k + Ticks({"share"}) <= m
               /\ ~failed => k + Ticks({"share"}) = m
    BY DEF BInv, Minutes
  <2>2. Charged' = Rate * (m + 1) /\ m + 1 \in Nat
    BY <1>1, <2>1, ShareType
  <2>3. k + Ticks({"share"})' <= m + 1 /\ (~failed' => k + Ticks({"share"})' = m + 1)
    BY <1>4, <2>1
  <2> QED BY <1>1, <2>1, <2>2, <2>3 DEF Minutes
<1>6. Booked'
  <2>1. ASSUME NEW n \in Nat PROVE Rate * (n + 1) = Rate * n + Rate
    BY ShareType
  <2>2. call.total \in Nat /\ Rate * Ticks({"share", "totals"}) \in Nat
    BY <1>2, <1>4, ShareType DEF SInv, CallTypeOK, CallSession
  <2> QED BY <1>1, <1>2, <1>4, <2>1, <2>2, ShareType DEF BInv, Booked
<1> QED BY <1>3, <1>5, <1>6 DEF BInv

\* The host is credited his share of a minute that was paid.
LEMMA CreditKeepsBooks ==
  ASSUME SInv, BInv, NEW p \in Session, CreditHost(p)
  PROVE  BInv'
<1>1. Charged' = Charged /\ Earned' = Earned + HostShare
  <2>1. Host \in User /\ Caller \in User \ {Host}
    BY CallAssumption
  <2>2. row'[Host].bal = row[Host].bal + HostShare /\ row'[Caller] = row[Caller]
    BY <2>1, ShareType, MoveFacts DEF CreditHost
  <2>3. row[Host].bal \in Nat /\ Purses[Host].bal \in Nat
    BY <2>1, CallAssumption DEF SInv, Committed, Wallet
  <2> QED BY <2>2, <2>3, ShareType DEF Charged, Earned
<1>2. call' = call /\ stale' = stale /\ call # NoCall /\ failed' = failed
  BY DEF CreditHost, callVars, SInv, CopiesInUse, At
<1>3. Shown'
  BY <1>1, <1>2 DEF CreditHost, BInv, Shown, SInv, CallTypeOK, At, GoesTo
<1>4. \A labels : Ticks(labels) \in Nat /\ Ticks(labels)' \in Nat
  BY TicksType, TicksTypeNext
<1>5. Ticks({"share"})' = Ticks({"share"}) - 1
  BY <1>4, TicksLeave DEF CreditHost, SInv, At
<1>6. Ticks({"share", "totals"})' = Ticks({"share", "totals"})
  BY <1>4, TicksStay DEF CreditHost, SInv, At
<1>7. Ticks({"totals"})' = Ticks({"totals"}) + 1
  BY <1>4, TicksEnter DEF CreditHost, SInv, At
<1>8. Minutes'
  <2>1. PICK m \in Nat, k \in Nat :
               /\ Charged = Rate * m /\ Earned = HostShare * k
               /\ k + Ticks({"share"}) <= m
               /\ ~failed => k + Ticks({"share"}) = m
    BY DEF BInv, Minutes
  <2>2. Earned' = HostShare * (k + 1) /\ k + 1 \in Nat
    BY <1>1, <2>1, ShareType
  <2>3. /\ (k + 1) + Ticks({"share"})' <= m
        /\ ~failed' => (k + 1) + Ticks({"share"})' = m
    BY <1>2, <1>4, <1>5, <2>1
  <2> QED BY <1>1, <2>1, <2>2, <2>3 DEF Minutes
<1>9. Booked'
  <2>1. ASSUME NEW n \in Nat PROVE HostShare * (n + 1) = HostShare * n + HostShare
    BY ShareType
  <2>2. call.host \in Nat /\ HostShare * Ticks({"totals"}) \in Nat
    BY <1>2, <1>4, ShareType DEF SInv, CallTypeOK, CallSession
  <2> QED BY <1>1, <1>2, <1>4, <1>6, <1>7, <2>1, <2>2, ShareType DEF BInv, Booked
<1> QED BY <1>3, <1>8, <1>9 DEF BInv

\* The session is written back with one minute more than the copy showed.
LEMMA RecordKeepsBooks ==
  ASSUME SInv, BInv, NEW p \in Session, RecordTotals(p)
  PROVE  BInv'
<1>1. Charged' = Charged /\ Earned' = Earned /\ failed' = failed
  BY DEF RecordTotals, storeVars, Charged, Earned
<1>2. /\ copy[p] \in CallSession /\ call' = Billed(copy[p]) /\ call' # NoCall
      /\ stale' = (stale \/ call # copy[p])
      /\ call'.total = copy[p].total + Rate /\ call'.host = copy[p].host + HostShare
  <2>1. copy[p] \in CallSession
    BY DEF RecordTotals, SInv, CallTypeOK, CopiesInUse, At
  <2>2. Billed(copy[p]) \in CallSession
    BY <2>1, ShareType DEF Billed, CallSession
  <2> QED BY <2>1, <2>2, CallAssumption DEF RecordTotals, UpdateCallSession, Billed
<1>3. Shown'
  <2>1. call'.total <= Charged'
    <3>1. copy[p] # NoCall /\ place[p] = "totals"
      BY <1>2, CallAssumption DEF RecordTotals, At
    <3> QED BY <1>1, <1>2, <3>1 DEF BInv, Shown
  <2>2. ASSUME NEW q \in Session, copy'[q] # NoCall
        PROVE  q # p /\ copy'[q] = copy[q] /\ place'[q] = place[q]
    BY <2>2 DEF RecordTotals, UpdateCallSession, Drop, SInv, CallTypeOK, GoesTo
  <2> QED BY <1>1, <2>1, <2>2 DEF BInv, Shown
<1>4. \A labels : Ticks(labels) \in Nat /\ Ticks(labels)' \in Nat
  BY TicksType, TicksTypeNext
<1>5. Ticks({"share"})' = Ticks({"share"})
  BY <1>4, TicksStay DEF RecordTotals, SInv, At
<1>6. Ticks({"share", "totals"})' = Ticks({"share", "totals"}) - 1
  BY <1>4, TicksLeave DEF RecordTotals, SInv, At
<1>7. Ticks({"totals"})' = Ticks({"totals"}) - 1
  BY <1>4, TicksLeave DEF RecordTotals, SInv, At
<1>8. Minutes'
  BY <1>1, <1>5 DEF BInv, Minutes
<1>9. Booked'
  <2>1. ASSUME NEW n \in Nat, NEW a \in Nat PROVE a * (n - 1) = a * n - a
    OBVIOUS
  <2>2. /\ Rate * Ticks({"share", "totals"})' = Rate * Ticks({"share", "totals"}) - Rate
        /\ HostShare * Ticks({"totals"})' = HostShare * Ticks({"totals"}) - HostShare
    BY <1>4, <1>6, <1>7, <2>1, ShareType
  <2>3. /\ Rate * Ticks({"share", "totals"}) \in Nat /\ HostShare * Ticks({"totals"}) \in Nat
        /\ copy[p].total \in Nat /\ copy[p].host \in Nat
    BY <1>2, <1>4, ShareType DEF CallSession
  <2>4. ASSUME ~failed', ~stale'
        PROVE  /\ copy[p].total + Rate * Ticks({"share", "totals"}) = Charged
               /\ copy[p].host + HostShare * Ticks({"totals"}) = Earned
    BY <1>1, <1>2, <2>4, CallAssumption DEF BInv, Booked
  <2>5. ASSUME ~failed', ~stale'
        PROVE  /\ call'.total + Rate * Ticks({"share", "totals"})' = Charged'
               /\ call'.host + HostShare * Ticks({"totals"})' = Earned'
    BY <1>1, <1>2, <2>2, <2>3, <2>4, <2>5, ShareType, Accounts
  <2> QED BY <1>2, <2>5 DEF Booked
<1> QED BY <1>3, <1>8, <1>9 DEF BInv

\* What a step of one session that moves no money may do to the session's row.
Rewritten(p) ==
  \/ UNCHANGED callVars
  \/ call = NoCall /\ call' # NoCall /\ call'.total = 0 /\ call'.host = 0 /\ stale' = stale
  \/ /\ copy[p] # NoCall /\ call' # NoCall
     /\ call'.total = copy[p].total /\ call'.host = copy[p].host
     /\ stale' = (stale \/ call # copy[p])

\* A step that moves no money and writes no totals keeps the books.
LEMMA QuietStepKeepsBooks ==
  ASSUME SInv, BInv, SInv', NEW p \in Session, NEW l, GoesTo(p, l), Rewritten(p),
         place[p] \notin {"share", "totals"}, l \notin {"share", "totals"},
         UNCHANGED row, failed => failed',
         copy'[p] \in {copy[p], call, NoCall}, \A q \in Session \ {p} : copy'[q] = copy[q]
  PROVE  BInv'
<1>1. \A labels : Ticks(labels) \in Nat /\ Ticks(labels)' \in Nat
  BY TicksType, TicksTypeNext
<1>2. UNCHANGED Ticks({"share"})
  BY TicksStay DEF SInv
<1>3. UNCHANGED Ticks({"totals"})
  BY TicksStay DEF SInv
<1>4. UNCHANGED Ticks({"share", "totals"})
  BY TicksStay DEF SInv
<1>5. place'[p] = l /\ \A q \in Session \ {p} : place'[q] = place[q]
  BY DEF SInv, CallTypeOK, GoesTo
<1>6. \A q \in Session : copy'[q] # NoCall =>
        \/ copy'[q] = copy[q] /\ (place'[q] \in {"share", "totals"} <=> place[q] \in {"share", "totals"})
        \/ copy'[q] = call /\ place'[q] \notin {"share", "totals"}
  BY <1>5
<1>7. call = NoCall => \A q \in Session : place[q] \notin {"share", "totals"}
  BY DEF SInv, CopiesInUse
<1>8. \/ UNCHANGED callVars
      \/ call = NoCall /\ call' # NoCall
           /\ call'.total = 0 /\ call'.host = 0 /\ stale' = stale
           /\ \A q \in Session : place[q] \notin {"share", "totals"}
      \/ \E q \in Session : /\ copy[q] # NoCall /\ call' # NoCall
                            /\ call'.total = copy[q].total /\ call'.host = copy[q].host
                            /\ stale' = (stale \/ call # copy[q])
  BY <1>7 DEF Rewritten
<1>9. Ticks({"share"})' <= Ticks({"share"})
  BY <1>1, <1>2
<1> QED BY <1>2, <1>3, <1>4, <1>6, <1>8, <1>9, NoMoneyKeepsBooks

\* A status written back: the rest of the session is the copy's.
LEMMA StatusOnly ==
  ASSUME SInv, NEW p \in Session, NEW s \in {"active", "ended"}, copy[p] # NoCall,
         UpdateCallSession(p, [copy[p] EXCEPT !.status = s])
  PROVE  Rewritten(p) /\ copy'[p] = NoCall /\ \A q \in Session \ {p} : copy'[q] = copy[q]
<1>1. copy[p] \in CallSession
  BY DEF SInv, CallTypeOK
<1>2. /\ [copy[p] EXCEPT !.status = s] \in CallSession
      /\ [copy[p] EXCEPT !.status = s].total = copy[p].total
      /\ [copy[p] EXCEPT !.status = s].host = copy[p].host
  BY <1>1 DEF CallSession
<1> QED BY <1>2, CallAssumption DEF UpdateCallSession, Drop, Rewritten, SInv, CallTypeOK

\* Every step keeps the books.
LEMMA BooksKept == SInv /\ BInv /\ [CallNext]_paidVars => BInv'
<1> SUFFICES ASSUME SInv, BInv, [CallNext]_paidVars PROVE BInv'
  OBVIOUS
<1>s. SInv'
  BY StructureKept
<1>r. row \in [User -> Wallet] /\ place \in [Session -> Working \cup {"idle", "done", "gone"}]
      /\ copy \in [Session -> CallSession \cup {NoCall}]
  BY DEF SInv, CallTypeOK, Committed
<1>g. \A p \in Session : place' = place => GoesTo(p, place[p])
  BY <1>r DEF GoesTo
<1>1. ASSUME NEW p \in Session, Begin(p) \/ TickReadFails(p) PROVE BInv'
  <2>1. PICK l \in {"check", "end", "accept", "bye"} : GoesTo(p, l)
    BY <1>1 DEF Begin, TickReadFails
  <2> QED BY <1>1, <1>s, <2>1, QuietStepKeepsBooks
          DEF Begin, TickReadFails, At, storeVars, Rewritten
<1>2. ASSUME NEW p \in Session, CheckCaller(p) PROVE BInv'
  <2>1. PICK l \in {"create", "done"} : GoesTo(p, l)
    BY <1>2 DEF CheckCaller
  <2> QED BY <1>2, <1>s, <2>1, QuietStepKeepsBooks DEF CheckCaller, At, storeVars, Rewritten
<1>3. ASSUME NEW p \in Session, CreateCallSession(p) PROVE BInv'
  <2>1. call' # NoCall
    BY <1>3, CallAssumption DEF CreateCallSession, CallSession
  <2> QED BY <1>3, <1>s, <2>1, QuietStepKeepsBooks
          DEF CreateCallSession, At, storeVars, Rewritten
<1>4. ASSUME NEW p \in Session, ReadToAccept(p) PROVE BInv'
  <2>1. /\ GoesTo(p, place[p]) /\ copy'[p] = call
        /\ \A q \in Session \ {p} : copy'[q] = copy[q]
    BY <1>4, <1>r, <1>g DEF ReadToAccept, Read
  <2> QED BY <1>4, <1>s, <2>1, QuietStepKeepsBooks DEF ReadToAccept, At, storeVars, Rewritten
<1>5. ASSUME NEW p \in Session, SetActive(p) PROVE BInv'
  <2>1. Rewritten(p) /\ copy'[p] = NoCall /\ \A q \in Session \ {p} : copy'[q] = copy[q]
    BY <1>5, StatusOnly DEF SetActive
  <2>2. PICK l \in {"wait", "done"} : GoesTo(p, l)
    BY <1>5 DEF SetActive, AfterAccept
  <2> QED BY <1>5, <1>s, <2>1, <2>2, QuietStepKeepsBooks DEF SetActive, At, storeVars
<1>6. ASSUME NEW p \in Session, ReadToEnd(p) PROVE BInv'
  <2>1. PICK l \in {"bye", "done", place[p]} : GoesTo(p, l)
    BY <1>6, <1>g DEF ReadToEnd, AfterEnd
  <2>2. copy'[p] \in {copy[p], call} /\ \A q \in Session \ {p} : copy'[q] = copy[q]
    BY <1>6, <1>r DEF ReadToEnd, Read
  <2> QED BY <1>6, <1>s, <2>1, <2>2, QuietStepKeepsBooks
          DEF ReadToEnd, Ending, At, storeVars, Rewritten
<1>7. ASSUME NEW p \in Session, SetEnded(p) PROVE BInv'
  <2>1. Rewritten(p) /\ copy'[p] = NoCall /\ \A q \in Session \ {p} : copy'[q] = copy[q]
    BY <1>7, StatusOnly DEF SetEnded
  <2>2. PICK l \in {"bye", "done"} : GoesTo(p, l)
    BY <1>7 DEF SetEnded, AfterEnd
  <2> QED BY <1>7, <1>s, <2>1, <2>2, QuietStepKeepsBooks DEF SetEnded, Ending, At, storeVars
<1>8. ASSUME NEW p \in Session, ReadForTick(p) PROVE BInv'
  <2>1. PICK l \in {"debit", "bye"} : GoesTo(p, l)
    BY <1>8 DEF ReadForTick
  <2>2. copy'[p] \in {copy[p], call} /\ \A q \in Session \ {p} : copy'[q] = copy[q]
    BY <1>8, <1>r DEF ReadForTick, Read
  <2> QED BY <1>8, <1>s, <2>1, <2>2, QuietStepKeepsBooks
          DEF ReadForTick, At, storeVars, Rewritten
<1>9. ASSUME NEW p \in Session, DebitCaller(p) PROVE BInv'
  <2>1. CASE Move(p, "debit", Caller, Rate, FALSE) /\ GoesTo(p, "share") /\ UNCHANGED copy
    BY <1>9, <2>1, DebitKeepsBooks DEF DebitCaller
  <2>2. CASE GoesTo(p, "stop") /\ Drop(p) /\ UNCHANGED storeVars
    <3>1. copy'[p] = NoCall /\ \A q \in Session \ {p} : copy'[q] = copy[q]
      BY <2>2, <1>r DEF Drop
    <3> QED BY <1>9, <1>s, <2>2, <3>1, QuietStepKeepsBooks
            DEF DebitCaller, At, storeVars, Rewritten
  <2> QED BY <1>9, <2>1, <2>2 DEF DebitCaller
<1>10. ASSUME NEW p \in Session, Fails(p) PROVE BInv'
  <2>1. CASE UNCHANGED storeVars /\ place[p] \notin {"share", "totals"}
    <3>1. PICK l \in {"wait", "done", "bye", "stop"} : GoesTo(p, l)
      BY <1>10, <2>1 DEF Fails, AfterAccept, AfterEnd, At
    <3>2. copy'[p] = NoCall /\ \A q \in Session \ {p} : copy'[q] = copy[q]
      BY <1>10, <2>1, <1>r DEF Fails, Drop, At
    <3> QED BY <1>10, <1>s, <2>1, <3>1, <3>2, QuietStepKeepsBooks
            DEF Fails, storeVars, Rewritten
  <2>2. CASE At(p, "debit") /\ GoesTo(p, "stop") /\ Drop(p) /\ Move(p, "debit", Caller, Rate, FALSE)
    BY <1>10, <2>2, DebitKeepsBooks DEF Fails
  <2>3. CASE place[p] \in {"share", "totals"}
    <3>1. UNCHANGED storeVars /\ UNCHANGED callVars /\ failed'
      BY <1>10, <2>3 DEF Fails, At, Ending
    <3>2. \A labels : Ticks(labels) \in Nat /\ Ticks(labels)' \in Nat
      BY TicksType, TicksTypeNext
    <3>3. Ticks({"share"})' <= Ticks({"share"})
      <4>1. CASE At(p, "share") /\ GoesTo(p, "totals")
        <5>1. Ticks({"share"})' = Ticks({"share"}) - 1
          BY <4>1, TicksLeave DEF At, SInv
        <5> QED BY <3>2, <5>1
      <4>2. CASE At(p, "totals") /\ GoesTo(p, "wait")
        <5>1. Ticks({"share"})' = Ticks({"share"})
          BY <4>2, TicksStay DEF At, SInv
        <5> QED BY <3>2, <5>1
      <4> QED BY <1>10, <2>3, <4>1, <4>2 DEF Fails, At, Ending
    <3>4. ASSUME NEW q \in Session, copy'[q] # NoCall
          PROVE  copy'[q] = copy[q]
                 /\ (place'[q] \in {"share", "totals"} <=> place[q] \in {"share", "totals"})
      BY <1>10, <2>3, <3>4, <1>r DEF Fails, At, Ending, GoesTo, Drop
    <3>5. UNCHANGED row
      BY <3>1 DEF storeVars
    <3> QED BY <1>s, <3>1, <3>3, <3>4, <3>5, NoMoneyKeepsBooks
  <2> QED BY <1>10, <2>1, <2>2, <2>3 DEF Fails, At, Ending
<1>11. CASE ServerStops
  <2>1. {p \in Session : place'[p] \in {"share"}} = {}
    BY <1>11, <1>r DEF ServerStops, Working
  <2>2. Ticks({"share"})' = 0
    BY <2>1, FS_EmptySet DEF Ticks
  <2>3. Ticks({"share"}) \in Nat
    BY TicksType
  <2>4. \A p \in Session : copy'[p] = NoCall
    BY <1>11 DEF ServerStops
  <2>5. UNCHANGED row /\ UNCHANGED callVars /\ failed'
    BY <1>11 DEF ServerStops, storeVars
  <2>6. Ticks({"share"})' <= Ticks({"share"})
    BY <2>2, <2>3
  <2> QED BY <1>s, <2>4, <2>5, <2>6, NoMoneyKeepsBooks
<1>12. CASE UNCHANGED paidVars
  <2>1. UNCHANGED <<row, ver, lock, call, copy, place, failed, stale>>
    BY <1>12 DEF paidVars, storeVars
  <2> QED BY <2>1 DEF BInv, Shown, Minutes, Booked, Charged, Earned, Ticks
<1> QED BY <1>1, <1>2, <1>3, <1>4, <1>5, <1>6, <1>7, <1>8, <1>9, <1>10, <1>11, <1>12,
           CreditKeepsBooks, RecordKeepsBooks
    DEF CallNext, Quiescent, CallStep, RequestCall, AcceptCall, EndCall, ProcessBillingTick

\* The wallets, the copies of the session and its totals agree as BInv says.
THEOREM BooksInvariant == CallSpec => [](SInv /\ BInv)
BY StructureAtFirst, StructureKept, BooksAtFirst, BooksKept, PTL DEF CallSpec

\* The amount of a set of labels is its ticks times the price.
LEMMA AmountCounts == ASSUME NEW labels, NEW n PROVE Amount(labels, n) = n * Ticks(labels)
BY DEF Amount, Ticks

\* ProcessBillingTick: what a call shows as charged is covered by what the
\* caller paid, and is all of it when the writers did not overlap.
THEOREM ShownIsPaid == CallSpec => []TotalsMatchMoney
<1>1. SInv /\ BInv => TotalsMatchMoney
  BY AmountCounts DEF BInv, Shown, Booked, TotalsMatchMoney
<1> QED BY <1>1, BooksInvariant, PTL

\* ProcessBillingTick: the host gets his share of every minute paid, once.
THEOREM HostIsPaid == CallSpec => []HostEarnsShare
<1>1. ASSUME SInv, BInv PROVE HostEarnsShare
  <2>1. PICK m \in Nat, k \in Nat :
               /\ Charged = Rate * m /\ Earned = HostShare * k
               /\ k + Ticks({"share"}) <= m
               /\ ~failed => k + Ticks({"share"}) = m
    BY <1>1 DEF BInv, Minutes
  <2>2. Ticks({"share"}) \in Nat
    BY TicksType
  <2>3. PICK c \in Nat : c = Rate * HostShare
    BY ShareType
  <2>4. \A n \in Nat : Rate * (HostShare * n) = c * n /\ HostShare * (Rate * n) = c * n
    BY <2>3, ShareType
  <2>5. Rate * Earned <= HostShare * Charged
    <3>1. c * k <= c * m
      BY <2>1, <2>2
    <3> QED BY <2>1, <2>4, <3>1
  <2>6. ASSUME ~failed
        PROVE  Rate * (Earned + Amount({"share"}, HostShare)) = HostShare * Charged
    <3>1. Earned + Amount({"share"}, HostShare) = HostShare * m
      <4>1. Amount({"share"}, HostShare) = HostShare * Ticks({"share"})
        BY AmountCounts
      <4>2. ASSUME NEW t \in Nat, k + t = m PROVE HostShare * k + HostShare * t = HostShare * m
        BY <4>2, ShareType
      <4> QED BY <2>1, <2>2, <2>6, <4>1, <4>2
    <3> QED BY <2>1, <2>4, <3>1
  <2>7. ~failed /\ ~stale /\ call # NoCall => call.host + Amount({"totals"}, HostShare) = Earned
    BY <1>1, AmountCounts DEF BInv, Booked
  <2> QED BY <2>5, <2>6, <2>7 DEF HostEarnsShare
<1> QED BY <1>1, BooksInvariant, PTL

-----------------------------------------------------------------------------
(***************************************************************************)
(* WalletLedger, for any users, requests, plans and opening balances.      *)
(*                                                                         *)
(* First, the row lock makes the balance check of a transaction hold until *)
(* its UPDATE.  CheckStillHolds is not inductive: the invariant below adds *)
(* that locks belong to running transactions, that a transaction about to  *)
(* update holds the lock of the row it checked, and that an unlocked row   *)
(* has no uncommitted version, so that nobody but the holder changes the   *)
(* row.  On it rest the rows of transactions and, last, that the ledger    *)
(* implements AtomicLedger.                                                *)
(***************************************************************************)
LocksBelongToTransactions ==
  \A u \in User : lock[u] # NoTx => InTx(lock[u])

RepoCallsReachTheRepository ==
  \A p \in Session : pc[p] \in {"select", "update"} => Call(p).op \in RepoOps

CheckedRowIsLocked ==
  \A p \in Session : InTx(p) /\ pc[p] = "update" /\ Call(p).op # "credit" =>
    /\ lock[Call(p).user] = p
    /\ ver[Call(p).user] # NoWallet
    /\ CheckOK(Moved(Call(p).op, ver[Call(p).user], Call(p).amt))

IInv == /\ TypeOK
        /\ UnlockedRowsAreCommitted
        /\ LocksBelongToTransactions
        /\ RepoCallsReachTheRepository
        /\ CheckedRowIsLocked

\* A session's current call is a call of its plan.
LEMMA CallType ==
  ASSUME TypeOK, NEW p \in Session
  PROVE  Call(p) \in WalletCall
<1>1. plan[p] \in [tx : BOOLEAN, moves : Seq(WalletCall)]
  BY LedgerAssumption DEF TypeOK
<1>2. plan[p].moves \in Seq(WalletCall)
  BY <1>1
<1>3. step[p] \in 1..Len(plan[p].moves)
  BY DEF TypeOK
<1>4. QED
  BY <1>2, <1>3 DEF Call

\* A movement that passes the CHECK constraints leaves a wallet.
LEMMA MovedType ==
  ASSUME NEW op \in RepoOps, NEW w \in Wallet, NEW x \in Nat, CheckOK(Moved(op, w, x))
  PROVE  Moved(op, w, x) \in Wallet
BY DEF RepoOps, Wallet, CheckOK, Moved, CreditBalance, DebitBalance, FreezeBalance,
       UnfreezeBalance

\* The Go check implies the CHECK constraints.
LEMMA CoveredPassesCheck ==
  ASSUME NEW op \in RepoOps, NEW w \in Wallet, NEW x \in Nat, Covered(op, w, x)
  PROVE  CheckOK(Moved(op, w, x))
BY DEF RepoOps, Wallet, CheckOK, Covered, Moved, CreditBalance, DebitBalance,
       FreezeBalance, UnfreezeBalance

\* A session reads a wallet or finds none.
LEMMA SeenType ==
  ASSUME StoreTypeOK, NEW p \in Session, NEW u \in User
  PROVE  Seen(p, u) \in Wallet \cup {NoWallet}
BY DEF StoreTypeOK, Seen

\* Moving on to the next call keeps the position inside the plan, leaves a
\* transaction running, and enters the repository only for its operations.
LEMMA NextCallType ==
  ASSUME TypeOK, NEW p \in Session, NextCall(p), plan' = plan
  PROVE  /\ step' \in [Session -> Nat]
         /\ \A q \in Session : step'[q] \in 1..Len(plan[q].moves)
         /\ \A q \in Session \ {p} : pc'[q] = pc[q] /\ step'[q] = step[q]
         /\ pc' \in [Session -> Steps]
         /\ pc'[p] \in {"lookup", "select", "commit", "done"}
         /\ plan[p].tx => pc'[p] # "done"
         /\ pc'[p] = "select" => Call(p)'.op \in RepoOps
<1>1. /\ plan[p] \in [tx : BOOLEAN, moves : Seq(WalletCall)]
      /\ pc \in [Session -> Steps]
      /\ step \in [Session -> Nat]
      /\ \A q \in Session : step[q] \in 1..Len(plan[q].moves)
  BY LedgerAssumption DEF TypeOK
<1>2. CASE step[p] < Len(plan[p].moves)
  <2>1. /\ step' = [step EXCEPT ![p] = step[p] + 1]
        /\ pc' = [pc EXCEPT ![p] = Entry(plan[p].moves[step[p] + 1].op)]
    BY <1>2 DEF NextCall, Goto
  <2>2. plan[p].moves[step[p] + 1] \in WalletCall
    BY <1>1, <1>2
  <2>3. plan[p].moves[step[p] + 1].op \in Op
    BY <2>2 DEF WalletCall
  <2>4. QED
    BY <1>1, <1>2, <2>1, <2>3 DEF Call, Entry, Op, Steps
<1>3. CASE ~(step[p] < Len(plan[p].moves))
  <2>1. /\ step' = step
        /\ pc' = [pc EXCEPT ![p] = IF plan[p].tx THEN "commit" ELSE "done"]
    BY <1>3 DEF NextCall, Goto
  <2>2. QED
    BY <1>1, <2>1 DEF Steps
<1>4. QED
  BY <1>2, <1>3

\* A request that fails leaves every other transaction as it was.
LEMMA FailKeepsInvariant ==
  ASSUME IInv, NEW p \in Session, Active(p), Fail(p)
  PROVE  IInv'
<1> USE DEF IInv, Fail, Rollback, Goto
<1>1. TypeOK'
  BY DEF TypeOK, StoreTypeOK, Steps
<1>2. UnlockedRowsAreCommitted'
  BY DEF TypeOK, StoreTypeOK, UnlockedRowsAreCommitted
<1>3. LocksBelongToTransactions'
  BY StoreAssumption DEF TypeOK, StoreTypeOK, LocksBelongToTransactions, InTx, Active
<1>4. RepoCallsReachTheRepository'
  BY DEF TypeOK, RepoCallsReachTheRepository, Call
<1>5. CheckedRowIsLocked'
  BY CallType DEF TypeOK, StoreTypeOK, CheckedRowIsLocked, InTx, Active, Call, WalletCall
<1>6. QED
  BY <1>1, <1>2, <1>3, <1>4, <1>5

\* A step of p that touches no row keeps the invariant if it keeps the type
\* invariant, p stays in its transaction or was in none, and p does not jump
\* to an UPDATE whose check it skipped.
LEMMA RowsUntouched ==
  ASSUME IInv, NEW p \in Session, UNCHANGED <<storeVars, plan>>,
         TypeOK', InTx(p) => InTx(p)',
         \A q \in Session \ {p} : pc'[q] = pc[q] /\ step'[q] = step[q],
         pc'[p] \in {"select", "update"} => Call(p)'.op \in RepoOps,
         pc'[p] = "update" => Call(p)'.op = "credit"
  PROVE  IInv'
<1> USE DEF IInv, storeVars
<1>1. UnlockedRowsAreCommitted'
  BY DEF UnlockedRowsAreCommitted
<1>2. LocksBelongToTransactions'
  BY StoreAssumption DEF TypeOK, StoreTypeOK, LocksBelongToTransactions, InTx, Active
<1>3. RepoCallsReachTheRepository'
  BY DEF RepoCallsReachTheRepository, Call
<1>4. CheckedRowIsLocked'
  BY DEF CheckedRowIsLocked, InTx, Active, Call
<1>5. QED
  BY <1>1, <1>2, <1>3, <1>4

\* An INSERT or UPDATE of p keeps the invariant if p stays in its transaction
\* and is not yet before another UPDATE: no row that another transaction has
\* locked changes.
LEMMA RowWritten ==
  ASSUME IInv, NEW p \in Session, NEW u \in User, NEW w \in Wallet,
         Active(p), Write(p, u, w, plan[p].tx), plan' = plan,
         TypeOK', InTx(p) => InTx(p)',
         \A q \in Session \ {p} : pc'[q] = pc[q] /\ step'[q] = step[q],
         pc'[p] # "update",
         pc'[p] = "select" => Call(p)'.op \in RepoOps
  PROVE  IInv'
<1>1. plan[p].tx \in BOOLEAN
  BY LedgerAssumption DEF IInv, TypeOK
<1>2. /\ \A v \in User : lock[v] \in Session \ {p} =>
           lock'[v] = lock[v] /\ ver'[v] = ver[v]
      /\ \A v \in User : lock'[v] \in {lock[v], p}
      /\ \A v \in User : lock'[v] # lock[v] => InTx(p)
  BY <1>1, StoreAssumption DEF IInv, TypeOK, StoreTypeOK, Write, Lock, Unlocked, InTx
<1>3. UnlockedRowsAreCommitted'
  BY <1>1, StoreAssumption
     DEF IInv, TypeOK, StoreTypeOK, UnlockedRowsAreCommitted, Write, Lock, Unlocked
<1>4. LocksBelongToTransactions'
  <2>1. SUFFICES ASSUME NEW v \in User, NEW q \in Session, lock'[v] = q
                 PROVE  InTx(q)'
    BY DEF LocksBelongToTransactions, IInv, TypeOK, StoreTypeOK
  <2>2. CASE lock[v] = q
    <3>1. InTx(q)
      BY <2>2, StoreAssumption DEF IInv, LocksBelongToTransactions
    <3>2. QED
      BY <3>1 DEF InTx, Active
  <2>3. CASE lock[v] # q
    BY <1>2, <2>1, <2>3
  <2>4. QED
    BY <2>2, <2>3
<1>5. RepoCallsReachTheRepository'
  BY DEF IInv, RepoCallsReachTheRepository, Call
<1>6. CheckedRowIsLocked'
  <2>1. SUFFICES ASSUME NEW q \in Session \ {p}, InTx(q), pc[q] = "update",
                        Call(q).op # "credit", Call(q)' = Call(q)
                 PROVE  /\ lock'[Call(q).user] = q
                        /\ ver'[Call(q).user] # NoWallet
                        /\ CheckOK(Moved(Call(q).op, ver'[Call(q).user], Call(q).amt))
    BY DEF CheckedRowIsLocked, InTx, Active, Call
  <2>2. Call(q).user \in User
    BY CallType DEF IInv, WalletCall
  <2>3. QED
    BY <1>2, <2>1, <2>2 DEF IInv, CheckedRowIsLocked
<1>7. QED
  BY <1>3, <1>4, <1>5, <1>6 DEF IInv

\* A check of the balance, and the lock a transaction takes with it.
LEMMA CheckBalanceKeepsInvariant ==
  ASSUME IInv, NEW p \in Session, CheckBalance(p)
  PROVE  IInv'
<1> DEFINE u == Call(p).user
<1>1. /\ Call(p) \in WalletCall
      /\ u \in User
      /\ plan[p].tx \in BOOLEAN
  BY CallType, LedgerAssumption DEF IInv, TypeOK, WalletCall
<1>2. TypeOK'
  BY <1>1 DEF CheckBalance, SelectForUpdate, Lock, Goto, IInv, TypeOK, StoreTypeOK, Steps
<1>3. /\ \A v \in User : lock'[v] \in {lock[v], p}
      /\ \A v \in User : lock'[v] # lock[v] => lock[v] = NoTx /\ plan[p].tx
      /\ plan[p].tx => lock'[u] = p
      /\ UNCHANGED <<row, ver, plan, step>>
      /\ pc' = [pc EXCEPT ![p] = "update"]
  BY <1>1 DEF CheckBalance, SelectForUpdate, Lock, Unlocked, Goto, IInv, TypeOK, StoreTypeOK
<1>4. UnlockedRowsAreCommitted'
  BY <1>3, StoreAssumption DEF IInv, UnlockedRowsAreCommitted
<1>5. LocksBelongToTransactions'
  BY <1>3, StoreAssumption
     DEF CheckBalance, IInv, TypeOK, StoreTypeOK, LocksBelongToTransactions, InTx, Active
<1>6. RepoCallsReachTheRepository'
  BY <1>3 DEF CheckBalance, IInv, TypeOK, RepoCallsReachTheRepository, Call
<1>7. CheckedRowIsLocked'
  <2>1. SUFFICES ASSUME NEW q \in Session, InTx(q)', pc'[q] = "update",
                        Call(q).op # "credit"
                 PROVE  /\ lock'[Call(q).user] = q
                        /\ ver'[Call(q).user] # NoWallet
                        /\ CheckOK(Moved(Call(q).op, ver'[Call(q).user], Call(q).amt))
    BY <1>3 DEF CheckedRowIsLocked, Call
  <2>2. CASE q = p
    <3>1. ver[u] = Seen(p, u)
      BY <1>1, StoreAssumption
         DEF CheckBalance, SelectForUpdate, Unlocked, Seen, IInv, UnlockedRowsAreCommitted
    <3>2. /\ ver[u] \in Wallet
          /\ Covered(Call(p).op, ver[u], Call(p).amt)
      BY <1>1, <3>1 DEF CheckBalance, IInv, TypeOK, StoreTypeOK
    <3>3. Call(p).op \in RepoOps /\ Call(p).amt \in Nat
      BY <1>1 DEF CheckBalance, IInv, RepoCallsReachTheRepository, WalletCall
    <3>4. plan[p].tx
      BY <1>3, <2>1, <2>2 DEF InTx
    <3>5. QED
      BY <1>3, <2>2, <3>2, <3>3, <3>4, CoveredPassesCheck, StoreAssumption
  <2>3. CASE q # p
    <3>1. InTx(q) /\ pc[q] = "update" /\ Call(q).user \in User
      BY <1>3, <2>1, <2>3, CallType DEF InTx, Active, IInv, TypeOK, WalletCall
    <3>2. QED
      BY <1>3, <2>1, <3>1, StoreAssumption DEF IInv, CheckedRowIsLocked
  <2>4. QED
    BY <2>2, <2>3
<1>8. QED
  BY <1>2, <1>4, <1>5, <1>6, <1>7 DEF IInv

\* A commit: the versions of the transaction become the rows, its locks are free.
LEMMA CommitKeepsInvariant ==
  ASSUME IInv, NEW p \in Session, CommitTx(p)
  PROVE  IInv'
<1> USE DEF IInv, CommitTx, Commit, Goto
<1>1. TypeOK'
  BY DEF TypeOK, StoreTypeOK, Steps
<1>2. UnlockedRowsAreCommitted'
  BY DEF TypeOK, StoreTypeOK, UnlockedRowsAreCommitted
<1>3. LocksBelongToTransactions'
  <2>1. SUFFICES ASSUME NEW v \in User, NEW q \in Session, lock'[v] = q
                 PROVE  InTx(q)'
    BY <1>1 DEF LocksBelongToTransactions, TypeOK, StoreTypeOK
  <2>2. lock[v] = q /\ q # p
    BY <2>1, StoreAssumption DEF TypeOK, StoreTypeOK
  <2>3. InTx(q)
    BY <2>2, StoreAssumption DEF LocksBelongToTransactions
  <2>4. pc'[q] = pc[q] /\ plan'[q] = plan[q]
    BY <2>2 DEF TypeOK
  <2>5. QED
    BY <2>3, <2>4 DEF InTx, Active
<1>4. RepoCallsReachTheRepository'
  BY DEF TypeOK, RepoCallsReachTheRepository, Call
<1>5. CheckedRowIsLocked'
  BY CallType DEF TypeOK, StoreTypeOK, CheckedRowIsLocked, InTx, Active, Call, WalletCall
<1>6. QED
  BY <1>1, <1>2, <1>3, <1>4, <1>5

\* The strengthened invariant holds in every reachable state.
THEOREM InvariantHolds == Spec => []IInv
<1>1. Init => IInv
  <2>1. SUFFICES ASSUME Init
                 PROVE  IInv
    OBVIOUS
  <2>2. TypeOK
    <3>1. \A p \in Session : plan[p] \in [tx : BOOLEAN, moves : Seq(WalletCall)]
                              /\ plan[p].moves # <<>>
      BY <2>1, LedgerAssumption DEF Init
    <3>2. \A p \in Session : 1 \in 1..Len(plan[p].moves)
      BY <3>1
    <3>3. QED
      BY <2>1, <3>2, LedgerAssumption
         DEF Init, StoreInit, TypeOK, StoreTypeOK, Steps
  <2>3. UnlockedRowsAreCommitted
    BY <2>1 DEF Init, StoreInit, UnlockedRowsAreCommitted
  <2>4. LocksBelongToTransactions
    BY <2>1 DEF Init, StoreInit, LocksBelongToTransactions
  <2>5. RepoCallsReachTheRepository /\ CheckedRowIsLocked
    BY <2>1 DEF Init, RepoCallsReachTheRepository, CheckedRowIsLocked
  <2>6. QED
    BY <2>2, <2>3, <2>4, <2>5 DEF IInv
<1>2. IInv /\ [Next]_vars => IInv'
  <2>1. SUFFICES ASSUME IInv, [Next]_vars
                 PROVE  IInv'
    OBVIOUS
  <2> USE <2>1
  <2>2. ASSUME NEW p \in Session, Start(p)
        PROVE  IInv'
    <3>1. /\ pc' = [pc EXCEPT ![p] = Entry(Call(p).op)]
          /\ UNCHANGED <<row, ver, lock, plan, step, found, applied, logged, broken, cache>>
          /\ Call(p).op \in Op
          /\ ~InTx(p)
      BY <2>2, CallType
         DEF Start, Goto, InTx, Active, IInv, storeVars, WalletCall
    <3>2. TypeOK' /\ pc'[p] \in {"lookup", "select"} /\ Call(p)' = Call(p)
      BY <3>1 DEF Entry, IInv, TypeOK, StoreTypeOK, Steps, Call
    <3>3. pc'[p] = "select" => Call(p).op \in RepoOps
      BY <3>1 DEF Entry, IInv, TypeOK, Op
    <3>4. QED
      BY <3>1, <3>2, <3>3, RowsUntouched DEF IInv, TypeOK, storeVars
  <2>3. ASSUME NEW p \in Session, LookupHit(p)
        PROVE  IInv'
    <3>1. /\ UNCHANGED <<row, ver, lock, plan, found, applied, logged, broken>>
          /\ InTx(p) => plan[p].tx
          /\ Call(p) \in WalletCall
      BY <2>3, CallType DEF LookupHit, InTx, IInv, storeVars
    <3>2. cache' \in [User -> Nat \cup {Uncached}]
      BY <2>3, <3>1 DEF LookupHit, IInv, TypeOK, WalletCall
    <3>3. CASE NextCall(p)
      BY <3>1, <3>2, <3>3, NextCallType, RowsUntouched
         DEF IInv, TypeOK, StoreTypeOK, storeVars, InTx, Active
    <3>4. CASE Call(p).op # "read" /\ Goto(p, "select") /\ UNCHANGED step
      <4>1. /\ TypeOK'
            /\ Call(p)' = Call(p)
            /\ pc' = [pc EXCEPT ![p] = "select"]
        BY <3>1, <3>2, <3>4 DEF Goto, IInv, TypeOK, StoreTypeOK, Steps, Call
      <4>2. Call(p).op \in RepoOps
        BY <3>1, <3>4 DEF WalletCall, Op
      <4>3. QED
        BY <3>1, <3>4, <4>1, <4>2, RowsUntouched
           DEF IInv, TypeOK, storeVars, InTx, Active
    <3>5. QED
      BY <2>3, <3>3, <3>4 DEF LookupHit, AfterLookup
  <2>4. ASSUME NEW p \in Session, FillCache(p)
        PROVE  IInv'
    <3>1. /\ UNCHANGED <<row, ver, lock, plan, found, applied, logged, broken>>
          /\ InTx(p) => plan[p].tx
          /\ Call(p) \in WalletCall
      BY <2>4, CallType DEF FillCache, InTx, IInv, storeVars
    <3>2. cache' \in [User -> Nat \cup {Uncached}]
      BY <2>4, <3>1 DEF FillCache, IInv, TypeOK, WalletCall
    <3>3. CASE NextCall(p)
      BY <3>1, <3>2, <3>3, NextCallType, RowsUntouched
         DEF IInv, TypeOK, StoreTypeOK, storeVars, InTx, Active
    <3>4. CASE Call(p).op # "read" /\ Goto(p, "select") /\ UNCHANGED step
      <4>1. /\ TypeOK'
            /\ Call(p)' = Call(p)
            /\ pc' = [pc EXCEPT ![p] = "select"]
        BY <3>1, <3>2, <3>4 DEF Goto, IInv, TypeOK, StoreTypeOK, Steps, Call
      <4>2. Call(p).op \in RepoOps
        BY <3>1, <3>4 DEF WalletCall, Op
      <4>3. QED
        BY <3>1, <3>4, <4>1, <4>2, RowsUntouched
           DEF IInv, TypeOK, storeVars, InTx, Active
    <3>5. QED
      BY <2>4, <3>3, <3>4 DEF FillCache, AfterLookup
  <2>5. ASSUME NEW p \in Session, LookupMiss(p)
        PROVE  IInv'
    <3>1. Seen(p, Call(p).user) \in Wallet \cup {NoWallet}
      BY CallType, SeenType DEF IInv, TypeOK, WalletCall
    <3>2. /\ found' \in [Session -> Nat]
          /\ \E l \in {"create", "fill"} : pc' = [pc EXCEPT ![p] = l]
          /\ UNCHANGED <<row, ver, lock, plan, step, applied, logged, broken, cache>>
      BY <2>5, <3>1 DEF LookupMiss, Goto, storeVars, IInv, TypeOK, Wallet
    <3>3. TypeOK'
      BY <3>2 DEF IInv, TypeOK, StoreTypeOK, Steps
    <3>4. QED
      BY <3>2, <3>3, RowsUntouched DEF IInv, TypeOK, storeVars, InTx, Active
  <2>6. ASSUME NEW p \in Session, CreateWallet(p)
        PROVE  IInv'
    <3>1. /\ Call(p).user \in User
          /\ plan[p].tx \in BOOLEAN
          /\ EmptyWallet \in Wallet
      BY CallType, LedgerAssumption DEF IInv, TypeOK, WalletCall, EmptyWallet, Wallet
    <3>2. /\ Write(p, Call(p).user, EmptyWallet, plan[p].tx)
          /\ pc' = [pc EXCEPT ![p] = "fill"]
          /\ UNCHANGED <<plan, step, found, applied, logged, broken, cache>>
          /\ Active(p)
      BY <2>6 DEF CreateWallet, Goto, Active
    <3>3. TypeOK'
      BY <3>1, <3>2 DEF IInv, TypeOK, StoreTypeOK, Write, Lock, Steps
    <3>4. QED
      BY <3>1, <3>2, <3>3, RowWritten DEF IInv, TypeOK, InTx, Active
  <2>7. ASSUME NEW p \in Session, UpdateBalance(p)
        PROVE  IInv'
    <3> DEFINE c == Call(p)
               w == Moved(c.op, Seen(p, c.user), c.amt)
    <3>1. /\ c \in WalletCall
          /\ c.user \in User
          /\ c.op \in RepoOps
          /\ plan[p].tx \in BOOLEAN
      BY <2>7, CallType, LedgerAssumption
         DEF UpdateBalance, IInv, TypeOK, RepoCallsReachTheRepository, WalletCall
    <3>2. w \in Wallet
      BY <2>7, <3>1, SeenType, MovedType DEF UpdateBalance, IInv, TypeOK, WalletCall
    <3>3. /\ Write(p, c.user, w, plan[p].tx)
          /\ applied' = [applied EXCEPT ![p] = step[p]]
          /\ UNCHANGED <<plan, found, logged, broken, cache>>
          /\ Active(p)
      BY <2>7 DEF UpdateBalance, Active
    <3>4. StoreTypeOK' /\ applied' \in [Session -> Nat]
      BY <3>1, <3>2, <3>3 DEF IInv, TypeOK, StoreTypeOK, Write, Lock
    <3>5. CASE NextCall(p)
      BY <3>1, <3>2, <3>3, <3>4, <3>5, NextCallType, RowWritten
         DEF IInv, TypeOK, InTx, Active
    <3>6. CASE Goto(p, "record") /\ UNCHANGED step
      <4>1. TypeOK' /\ pc' = [pc EXCEPT ![p] = "record"]
        BY <3>3, <3>4, <3>6 DEF Goto, IInv, TypeOK, Steps
      <4>2. QED
        BY <3>1, <3>2, <3>3, <3>6, <4>1, RowWritten DEF IInv, TypeOK, InTx, Active
    <3>7. QED
      BY <2>7, <3>5, <3>6 DEF UpdateBalance
  <2>8. ASSUME NEW p \in Session, CheckBalance(p)
        PROVE  IInv'
    BY <2>8, CheckBalanceKeepsInvariant
  <2>9. ASSUME NEW p \in Session, CommitTx(p)
        PROVE  IInv'
    BY <2>9, CommitKeepsInvariant
  <2>10. ASSUME NEW p \in Session, CreditsNoRow(p)
        PROVE  IInv'
    <3>1. /\ pc' = [pc EXCEPT ![p] = "update"]
          /\ UNCHANGED <<row, ver, lock, plan, step, found, applied, logged, broken, cache>>
          /\ Call(p).op = "credit"
          /\ Active(p)
      BY <2>10 DEF CreditsNoRow, Goto, storeVars, Active
    <3>2. TypeOK' /\ Call(p)' = Call(p)
      BY <3>1 DEF IInv, TypeOK, StoreTypeOK, Steps, Call
    <3>3. QED
      BY <3>1, <3>2, RowsUntouched DEF IInv, TypeOK, storeVars, InTx, Active, RepoOps
  <2>11. ASSUME NEW p \in Session, RecordTransaction(p)
        PROVE  IInv'
    <3>1. /\ pc' = [pc EXCEPT ![p] = "invalidate"]
          /\ UNCHANGED <<row, ver, lock, plan, step, found, applied, broken, cache>>
          /\ Active(p)
      BY <2>11 DEF RecordTransaction, Goto, storeVars, Active
    <3>2. logged' \in [Session -> SUBSET Nat]
      BY <2>11, LedgerAssumption DEF RecordTransaction, IInv, TypeOK
    <3>3. TypeOK'
      BY <3>1, <3>2 DEF IInv, TypeOK, StoreTypeOK, Steps
    <3>4. QED
      BY <3>1, <3>3, RowsUntouched DEF IInv, TypeOK, storeVars, InTx, Active
  <2>12. ASSUME NEW p \in Session, RecordFails(p)
        PROVE  IInv'
    <3>1. /\ pc' = [pc EXCEPT ![p] = "invalidate"]
          /\ UNCHANGED <<row, ver, lock, plan, step, found, applied, logged, cache>>
          /\ Active(p)
      BY <2>12 DEF RecordFails, Goto, storeVars, Active
    <3>2. broken' \in [Session -> BOOLEAN]
      BY <2>12, LedgerAssumption DEF RecordFails, IInv, TypeOK
    <3>3. TypeOK'
      BY <3>1, <3>2 DEF IInv, TypeOK, StoreTypeOK, Steps
    <3>4. QED
      BY <3>1, <3>3, RowsUntouched DEF IInv, TypeOK, storeVars, InTx, Active
  <2>13. ASSUME NEW p \in Session, InvalidateCache(p)
        PROVE  IInv'
    <3>1. /\ UNCHANGED <<row, ver, lock, plan, found, applied, logged, broken>>
          /\ NextCall(p)
          /\ Call(p).user \in User
      BY <2>13, CallType DEF InvalidateCache, IInv, storeVars, WalletCall
    <3>2. cache' \in [User -> Nat \cup {Uncached}]
      BY <2>13, <3>1 DEF InvalidateCache, IInv, TypeOK
    <3>3. QED
      BY <3>1, <3>2, NextCallType, RowsUntouched
         DEF IInv, TypeOK, StoreTypeOK, storeVars, InTx, Active
  <2>14. ASSUME NEW p \in Session, CreateConflict(p)
        PROVE  IInv'
    <3>1. Active(p) /\ Fail(p)
      BY <2>14 DEF CreateConflict, Active
    <3>2. QED
      BY <3>1, FailKeepsInvariant
  <2>15. ASSUME NEW p \in Session, Refuse(p)
        PROVE  IInv'
    <3>1. Active(p) /\ Fail(p)
      BY <2>15 DEF Refuse, Active
    <3>2. QED
      BY <3>1, FailKeepsInvariant
  <2>16. ASSUME NEW p \in Session, UpdateFails(p)
        PROVE  IInv'
    <3>1. Active(p) /\ Fail(p)
      BY <2>16 DEF UpdateFails, Active
    <3>2. QED
      BY <3>1, FailKeepsInvariant
  <2>17. ASSUME NEW p \in Session, BrokenFails(p)
        PROVE  IInv'
    <3>1. Active(p) /\ Fail(p)
      BY <2>17 DEF BrokenFails, Active
    <3>2. QED
      BY <3>1, FailKeepsInvariant
  <2>18. ASSUME NEW p \in Session, DeadlockDetected(p)
        PROVE  IInv'
    <3>1. Active(p) /\ Fail(p)
      BY <2>18 DEF DeadlockDetected, WaitCycle, Blocked, Active
    <3>2. QED
      BY <3>1, FailKeepsInvariant
  <2>19. ASSUME NEW p \in Session, ConnectionLost(p)
        PROVE  IInv'
    <3>1. Active(p) /\ Fail(p)
      BY <2>19 DEF ConnectionLost, Active
    <3>2. QED
      BY <3>1, FailKeepsInvariant
  <2>20. ASSUME NEW u \in User, CacheExpires(u)
         PROVE  IInv'
    <3>1. UNCHANGED <<row, ver, lock, pc, plan, step, found, applied, logged, broken>>
      BY <2>20 DEF CacheExpires, storeVars, requestVars
    <3>2. TypeOK'
      BY <2>20, <3>1 DEF CacheExpires, IInv, TypeOK, StoreTypeOK
    <3>3. QED
      BY <3>1, <3>2
         DEF IInv, UnlockedRowsAreCommitted, LocksBelongToTransactions,
             RepoCallsReachTheRepository, CheckedRowIsLocked, InTx, Active, Call
  <2>21. CASE UNCHANGED vars
    BY <2>21
       DEF vars, storeVars, requestVars, IInv, TypeOK, StoreTypeOK,
           UnlockedRowsAreCommitted, LocksBelongToTransactions,
           RepoCallsReachTheRepository, CheckedRowIsLocked, InTx, Active, Call
  <2>22. QED
    BY <2>2, <2>3, <2>4, <2>5, <2>6, <2>7, <2>8, <2>9, <2>10, <2>11, <2>12, <2>13,
       <2>14, <2>15, <2>16, <2>17, <2>18, <2>19, <2>20, <2>21
       DEF Next, Advance, Finished
<1>3. QED
  BY <1>1, <1>2, PTL DEF Spec

\* The type invariant of the wallet ledger.
THEOREM TypeCorrect == Spec => []TypeOK
<1>1. IInv => TypeOK
  BY DEF IInv
<1>2. QED
  BY <1>1, InvariantHolds, PTL

\* In a transaction the check on the balance is still true at the UPDATE.
THEOREM ChecksStillHold == Spec => []CheckStillHolds
<1>1. IInv => CheckStillHolds
  BY DEF IInv, CheckStillHolds, CheckedRowIsLocked, Seen
<1>2. QED
  BY <1>1, InvariantHolds, PTL

-----------------------------------------------------------------------------
(***************************************************************************)
(* The rows of transactions.  A request logs a call right after it moved   *)
(* money; between the last movement and the current call there are only    *)
(* calls that log nothing; and where an INSERT failed in a transaction,    *)
(* the transaction is broken and cannot commit.                            *)
(***************************************************************************)
Recordable(p) == {i \in 1..applied[p] : Recorded(plan[p].moves[i].op)}

\* The call has not moved money yet; it has, and logs it.
BeforeMove == {"lookup", "create", "fill", "select", "update"}
AfterMove  == {"record", "invalidate"}

Unlogged(p) == IF pc[p] = "record" THEN {step[p]} ELSE {}

RowsMatch(p) ==
  /\ logged[p] \subseteq Recordable(p)
  /\ plan[p].tx /\ (broken[p] => ~Active(p)) => Recordable(p) \subseteq logged[p] \cup Unlogged(p)
  /\ pc[p] = "idle" => applied[p] = 0 /\ step[p] = 1
  /\ pc[p] \in BeforeMove => /\ applied[p] < step[p]
                             /\ \A i \in (applied[p] + 1)..(step[p] - 1) :
                                  ~Recorded(plan[p].moves[i].op)
  /\ pc[p] \in AfterMove => applied[p] = step[p] /\ Recorded(Call(p).op)

\* The part of the state of a request that its rows depend on.
RowState(p) == <<pc[p], plan[p], step[p], applied[p], logged[p], broken[p]>>

\* What does not touch it keeps its rows.
LEMMA SameRowsMatch ==
  ASSUME NEW p, RowsMatch(p), RowState(p)' = RowState(p)
  PROVE  RowsMatch(p)'
BY DEF RowsMatch, RowState, Recordable, Unlogged, Active, Call

\* A request that fails has rolled its rows back with its movements.
LEMMA FailKeepsRows ==
  ASSUME TypeOK, NEW p \in Session, RowsMatch(p), Fail(p)
  PROVE  RowsMatch(p)'
<1>1. /\ plan[p].tx \in BOOLEAN /\ plan' = plan /\ pc'[p] = "failed"
      /\ plan[p].tx => applied'[p] = 0 /\ logged'[p] = {}
      /\ ~plan[p].tx => applied'[p] = applied[p] /\ logged'[p] = logged[p]
  BY LedgerAssumption DEF TypeOK, Fail, Goto
<1>2. QED
  BY <1>1 DEF RowsMatch, Recordable, Unlogged, BeforeMove, AfterMove

\* The request goes on to its next call, with what it has moved logged, and
\* with nothing to log between the last movement and that call.
LEMMA NextCallKeepsRows ==
  ASSUME TypeOK, NEW p \in Session, NextCall(p), plan' = plan, broken' = broken,
         applied'[p] \in Nat, applied'[p] <= step[p], logged'[p] = logged[p],
         pc[p] \notin {"idle", "done", "failed"},
         logged[p] \subseteq Recordable(p)',
         plan[p].tx /\ ~broken[p] => Recordable(p)' \subseteq logged[p],
         \A i \in (applied'[p] + 1)..step[p] : ~Recorded(plan[p].moves[i].op)
  PROVE  RowsMatch(p)'
<1>1. /\ step[p] \in Nat /\ pc \in [Session -> Steps] /\ step \in [Session -> Nat]
      /\ pc'[p] \in {"lookup", "select", "commit", "done"} /\ (plan[p].tx => pc'[p] # "done")
  BY NextCallType DEF TypeOK
<1>2. \/ pc'[p] \in {"lookup", "select"} /\ step'[p] = step[p] + 1
      \/ pc'[p] \in {"commit", "done"}
  BY <1>1 DEF NextCall, Goto
<1>3. QED
  BY <1>1, <1>2 DEF RowsMatch, Unlogged, BeforeMove, AfterMove, Active

\* After a lookup the call goes on, or, if it only reads, is over.
LEMMA AfterLookupKeepsRows ==
  ASSUME TypeOK, NEW p \in Session, RowsMatch(p), pc[p] \in {"lookup", "fill"}, AfterLookup(p),
         UNCHANGED <<plan, applied, logged, broken>>
  PROVE  RowsMatch(p)'
<1>1. /\ applied[p] \in Nat /\ step[p] \in Nat /\ applied[p] < step[p]
      /\ Recordable(p)' = Recordable(p) /\ Unlogged(p) = {}
      /\ \A i \in (applied[p] + 1)..(step[p] - 1) : ~Recorded(plan[p].moves[i].op)
  BY DEF TypeOK, RowsMatch, BeforeMove, Recordable, Unlogged
<1>2. CASE Call(p).op = "read" /\ NextCall(p)
  <2>1. \A i \in (applied[p] + 1)..step[p] : ~Recorded(plan[p].moves[i].op)
    <3>1. ~Recorded(plan[p].moves[step[p]].op)
      BY <1>2 DEF Call, Recorded
    <3>2. QED
      BY <1>1, <3>1
  <2>2. QED
    BY <1>1, <1>2, <2>1, NextCallKeepsRows DEF RowsMatch
<1>3. CASE Goto(p, "select") /\ UNCHANGED step
  BY <1>1, <1>3 DEF TypeOK, Goto, RowsMatch, Unlogged, BeforeMove, AfterMove, Active
<1>4. QED
  BY <1>2, <1>3 DEF AfterLookup

\* The statement that moves money.
LEMMA UpdateKeepsRows ==
  ASSUME TypeOK, NEW p \in Session, RowsMatch(p), UpdateBalance(p)
  PROVE  RowsMatch(p)'
<1>1. /\ applied[p] \in Nat /\ step[p] \in Nat /\ applied[p] < step[p]
      /\ applied'[p] = step[p] /\ UNCHANGED <<plan, logged, broken>> /\ pc[p] = "update"
      /\ \A i \in (applied[p] + 1)..(step[p] - 1) : ~Recorded(plan[p].moves[i].op)
  BY DEF TypeOK, UpdateBalance, RowsMatch, BeforeMove
<1>2. /\ Recordable(p)' = Recordable(p) \cup {i \in {step[p]} : Recorded(Call(p).op)}
      /\ Unlogged(p) = {}
  BY <1>1 DEF Recordable, Unlogged, Call
<1>3. CASE Recorded(Call(p).op)
  <2>1. pc' = [pc EXCEPT ![p] = "record"] /\ step' = step
    BY <1>3 DEF UpdateBalance, Goto
  <2>2. Unlogged(p)' = {step[p]} /\ Recordable(p)' = Recordable(p) \cup {step[p]} /\ pc'[p] = "record"
    BY <1>2, <1>3, <2>1 DEF Unlogged, TypeOK
  <2>3. QED
    BY <1>1, <1>2, <1>3, <2>1, <2>2 DEF RowsMatch, BeforeMove, AfterMove, Active, Call
<1>4. CASE ~Recorded(Call(p).op)
  <2>1. NextCall(p) /\ Recordable(p)' = Recordable(p)
    BY <1>2, <1>4 DEF UpdateBalance
  <2>2. \A i \in (applied'[p] + 1)..step[p] : ~Recorded(plan[p].moves[i].op)
    BY <1>1
  <2>3. QED
    BY <1>1, <1>2, <2>1, <2>2, NextCallKeepsRows DEF RowsMatch, Active
<1>5. QED
  BY <1>3, <1>4

\* The call is over.
LEMMA InvalidateKeepsRows ==
  ASSUME TypeOK, NEW p \in Session, RowsMatch(p), InvalidateCache(p)
  PROVE  RowsMatch(p)'
<1>1. /\ applied[p] = step[p] /\ step[p] \in Nat /\ pc[p] = "invalidate"
      /\ NextCall(p) /\ UNCHANGED <<plan, applied, logged, broken>>
      /\ Recordable(p)' = Recordable(p) /\ Unlogged(p) = {}
  BY DEF TypeOK, InvalidateCache, RowsMatch, AfterMove, Recordable, Unlogged
<1>2. \A i \in (applied[p] + 1)..step[p] : ~Recorded(plan[p].moves[i].op)
  BY <1>1
<1>3. QED
  BY <1>1, <1>2, NextCallKeepsRows DEF RowsMatch, Active

\* The other steps of the request itself.
LEMMA OwnStepKeepsRows ==
  ASSUME TypeOK, NEW p \in Session, RowsMatch(p), Start(p) \/ Advance(p) \/ ConnectionLost(p)
  PROVE  RowsMatch(p)'
<1> USE DEF TypeOK, Goto
<1>1. CASE Start(p)
  <2>1. pc'[p] \in {"lookup", "select"} /\ pc[p] = "idle" /\ UNCHANGED <<plan, step, applied, logged, broken>>
    BY <1>1 DEF Start, Entry
  <2>2. QED
    BY <2>1 DEF RowsMatch, Recordable, Unlogged, BeforeMove, AfterMove, Active
<1>2. CASE LookupHit(p) \/ FillCache(p)
  BY <1>2, AfterLookupKeepsRows DEF LookupHit, FillCache
<1>3. CASE LookupMiss(p) \/ CreateWallet(p) \/ CheckBalance(p) \/ CreditsNoRow(p)
  <2>1. /\ pc[p] \in BeforeMove /\ pc'[p] \in BeforeMove /\ pc'[p] \notin {"idle", "record", "done", "failed"}
        /\ UNCHANGED <<plan, step, applied, logged, broken>>
    BY <1>3 DEF LookupMiss, CreateWallet, CheckBalance, CreditsNoRow, BeforeMove
  <2>2. QED
    BY <2>1 DEF RowsMatch, Recordable, Unlogged, BeforeMove, AfterMove, Active
<1>4. CASE UpdateBalance(p)
  BY <1>4, UpdateKeepsRows
<1>5. CASE RecordTransaction(p)
  <2>1. /\ pc[p] = "record" /\ pc'[p] = "invalidate" /\ logged'[p] = logged[p] \cup {step[p]}
        /\ UNCHANGED <<plan, step, applied, broken>>
    BY <1>5 DEF RecordTransaction
  <2>2. step[p] \in Recordable(p)
    BY <2>1 DEF RowsMatch, AfterMove, Recordable, Call
  <2>3. QED
    BY <2>1, <2>2 DEF RowsMatch, Recordable, Unlogged, BeforeMove, AfterMove, Active, Call
<1>6. CASE RecordFails(p)
  <2>1. /\ pc[p] = "record" /\ pc'[p] = "invalidate" /\ broken'[p] = plan[p].tx
        /\ UNCHANGED <<plan, step, applied, logged>>
    BY <1>6 DEF RecordFails
  <2>2. QED
    BY <2>1 DEF RowsMatch, Recordable, Unlogged, BeforeMove, AfterMove, Active, Call
<1>7. CASE InvalidateCache(p)
  BY <1>7, InvalidateKeepsRows
<1>8. CASE CommitTx(p)
  <2>1. /\ pc[p] = "commit" /\ pc'[p] \in {"done", "failed"} /\ ~broken[p]
        /\ UNCHANGED <<plan, step, applied, logged, broken>>
    BY <1>8 DEF CommitTx
  <2>2. QED
    BY <2>1 DEF RowsMatch, Recordable, Unlogged, BeforeMove, AfterMove, Active
<1>9. CASE Fail(p)
  BY <1>9, FailKeepsRows
<1>10. QED
  BY <1>1, <1>2, <1>3, <1>4, <1>5, <1>6, <1>7, <1>8, <1>9
     DEF Advance, CreateConflict, Refuse, UpdateFails, BrokenFails, DeadlockDetected, ConnectionLost

\* The steps of one request leave what another one has done and logged.
LEMMA OthersKeepRows ==
  ASSUME TypeOK, NEW p \in Session, NEW q \in Session \ {p},
         Start(p) \/ Advance(p) \/ ConnectionLost(p)
  PROVE  RowState(q)' = RowState(q)
<1> USE DEF TypeOK, Goto, RowState
<1>1. ASSUME NextCall(p) PROVE pc'[q] = pc[q] /\ step'[q] = step[q]
  BY <1>1 DEF NextCall
<1>2. CASE Fail(p)
  BY <1>2 DEF Fail
<1>3. CASE LookupHit(p) \/ FillCache(p) \/ InvalidateCache(p)
  BY <1>1, <1>3 DEF LookupHit, FillCache, InvalidateCache, AfterLookup
<1>4. CASE UpdateBalance(p)
  BY <1>1, <1>4 DEF UpdateBalance
<1>5. QED
  BY <1>2, <1>3, <1>4
     DEF Start, Advance, LookupMiss, CreateWallet, CheckBalance, CreditsNoRow, RecordTransaction,
         RecordFails, CommitTx, CreateConflict, Refuse, UpdateFails, BrokenFails, DeadlockDetected,
         ConnectionLost

\* wallet.go CreditWallet, DebitWallet: a row of transactions stands for a
\* movement that was made, and a transaction that has committed has one for
\* each of its movements, although nobody looks at the error of the INSERT.
THEOREM RowsMatchMovements == Spec => []LedgerRowsMatchMovements
<1> DEFINE Match == \A p \in Session : RowsMatch(p)
<1>1. Init => Match
  BY DEF Init, RowsMatch, Recordable, Unlogged, BeforeMove, AfterMove, Active
<1>2. TypeOK /\ Match /\ [Next]_vars => Match'
  <2> SUFFICES ASSUME TypeOK, Match, [Next]_vars, NEW q \in Session PROVE RowsMatch(q)'
    OBVIOUS
  <2>1. ASSUME NEW p \in Session, Start(p) \/ Advance(p) \/ ConnectionLost(p) PROVE RowsMatch(q)'
    BY <2>1, OwnStepKeepsRows, OthersKeepRows, SameRowsMatch
  <2>2. CASE UNCHANGED requestVars
    BY <2>2, SameRowsMatch DEF requestVars, RowState
  <2>3. QED
    BY <2>1, <2>2 DEF Next, CacheExpires, Finished, vars
<1>3. TypeOK /\ Match => LedgerRowsMatchMovements
  <2> SUFFICES ASSUME TypeOK, Match, NEW p \in Session
               PROVE  /\ logged[p] \subseteq Recordable(p)
                      /\ plan[p].tx /\ ~Active(p) => logged[p] = Recordable(p)
    BY DEF LedgerRowsMatchMovements, Recordable
  <2>1. ~Active(p) => Unlogged(p) = {}
    BY DEF Active, Unlogged
  <2>2. QED
    BY <2>1 DEF RowsMatch
<1> HIDE DEF Match
<1>4. QED
  BY <1>1, <1>2, <1>3, TypeCorrect, PTL DEF Spec

-----------------------------------------------------------------------------
(***************************************************************************)
(* The ledger implements AtomicLedger.  What a running transaction has     *)
(* done is visible to nobody else, and must at its commit be what its      *)
(* calls, one after the other, make of the wallets of that instant, which  *)
(* other requests may have changed since it began.  So the invariant says  *)
(* of all wallets that agree with the committed rows where the transaction *)
(* holds a lock what its calls so far make of them.                        *)
(***************************************************************************)
\* f[i] is what the first i calls make of the wallets w.
IsOutcomes(f, w, calls) ==
  f = [i \in 0..Len(calls) |-> IF i = 0 THEN [ok |-> TRUE, at |-> w]
                               ELSE Atomic!OneCall(f[i - 1], calls[i])]

\* Such a function exists: it is built call by call.
LEMMA OutcomesExist ==
  ASSUME NEW w, NEW calls, Len(calls) \in Nat
  PROVE  \E f : IsOutcomes(f, w, calls)
<1> DEFINE n == Len(calls)
           b == [ok |-> TRUE, at |-> w]
           F(f, i) == IF i = 0 THEN b ELSE Atomic!OneCall(f[i - 1], calls[i])
           Right(f, k) == \A i \in 0..n : i <= k => f[i] = F(f, i)
           G == {k \in Nat : \E f : f = [i \in 0..n |-> f[i]] /\ Right(f, k)}
<1>1. 0 \in G
  <2> DEFINE f == [i \in 0..n |-> b]
  <2>1. f = [i \in 0..n |-> f[i]] /\ Right(f, 0)
    OBVIOUS
  <2> HIDE DEF f
  <2>2. QED
    BY <2>1, Zenon
<1>2. ASSUME NEW k \in Nat, k \in G PROVE k + 1 \in G
  <2>1. PICK f : f = [i \in 0..n |-> f[i]] /\ Right(f, k)
    BY <1>2
  <2> DEFINE g == [i \in 0..n |-> F(f, i)]
  <2>2. g = [i \in 0..n |-> g[i]]
    OBVIOUS
  <2>3. \A i \in 0..n : i <= k => g[i] = f[i]
    BY <2>1
  <2>4. \A i \in 0..n : g[i] = F(f, i)
    OBVIOUS
  <2> HIDE DEF g
  <2>5. ASSUME NEW i \in 0..n, i <= k + 1 PROVE g[i] = F(g, i)
    <3>1. CASE i = 0
      BY <2>4, <3>1
    <3>2. CASE i # 0
      <4>1. i - 1 \in 0..n /\ i - 1 <= k
        BY <2>5, <3>2
      <4>2. g[i - 1] = f[i - 1]
        BY <2>3, <4>1
      <4>3. QED
        BY <2>4, <3>2, <4>2
    <3>3. QED
      BY <3>1, <3>2
  <2>6. Right(g, k + 1)
    BY <2>5
  <2> HIDE DEF Right
  <2>7. QED
    BY <2>2, <2>6
<1>3. \A k \in Nat : k \in G
  <2> HIDE DEF G
  <2>1. QED
    BY <1>1, <1>2, NaturalInduction
<1>4. PICK f : f = [i \in 0..n |-> f[i]] /\ Right(f, n)
  BY <1>3
<1>5. f = [i \in 0..n |-> F(f, i)]
  <2>1. \A i \in 0..n : f[i] = F(f, i)
    <3> HIDE DEF F
    <3>1. \A i \in 0..n : i <= n
      OBVIOUS
    <3>2. QED
      BY <1>4, <3>1
  <2> DEFINE h == [i \in 0..n |-> F(f, i)]
  <2>2. h = [i \in 0..n |-> h[i]] /\ \A i \in 0..n : h[i] = F(f, i)
    OBVIOUS
  <2> HIDE DEF h, F
  <2>3. \A i \in 0..n : h[i] = f[i]
    BY <2>1, <2>2
  <2>4. [i \in 0..n |-> h[i]] = [i \in 0..n |-> f[i]]
    BY <2>3
  <2>5. QED
    BY <1>4, <2>2, <2>4 DEF h
<1>6. IsOutcomes(f, w, calls)
  BY <1>5 DEF IsOutcomes
<1>7. QED
  BY <1>6, Zenon

\* It is the one AtomicLedger defines.
LEMMA OutcomesAre ==
  ASSUME NEW w, NEW calls
  PROVE  Atomic!Outcomes(w, calls) = CHOOSE f : IsOutcomes(f, w, calls)
BY DEF Atomic!Outcomes, IsOutcomes

\* No call leaves the wallets as they are.
LEMMA OutcomeOfNone ==
  ASSUME NEW w, NEW calls, Len(calls) \in Nat
  PROVE  Atomic!Outcomes(w, calls)[0] = [ok |-> TRUE, at |-> w]
<1> DEFINE c == CHOOSE f : IsOutcomes(f, w, calls)
           b == [ok |-> TRUE, at |-> w]
<1>1. IsOutcomes(c, w, calls)
  BY OutcomesExist, Zenon
<1> HIDE DEF c
<1>2. \A i \in 0..Len(calls) : c[i] = IF i = 0 THEN b ELSE Atomic!OneCall(c[i - 1], calls[i])
  BY <1>1 DEF IsOutcomes
<1> HIDE DEF b
<1>3. c[0] = b
  BY <1>2
<1>4. QED
  BY <1>3, OutcomesAre, Zenon DEF b, c

\* One more call changes them as OneCall says.
LEMMA OutcomeOfOneMore ==
  ASSUME NEW w, NEW calls, Len(calls) \in Nat
  PROVE  \A i \in 1..Len(calls) :
           Atomic!Outcomes(w, calls)[i] = Atomic!OneCall(Atomic!Outcomes(w, calls)[i - 1], calls[i])
<1> DEFINE c == CHOOSE f : IsOutcomes(f, w, calls)
<1>1. IsOutcomes(c, w, calls)
  BY OutcomesExist, Zenon
<1> DEFINE b == [ok |-> TRUE, at |-> w]
<1> HIDE DEF c
<1>2. \A i \in 0..Len(calls) : c[i] = IF i = 0 THEN b ELSE Atomic!OneCall(c[i - 1], calls[i])
  BY <1>1 DEF IsOutcomes
<1> HIDE DEF b
<1>3. \A i \in 1..Len(calls) : c[i] = Atomic!OneCall(c[i - 1], calls[i])
  BY <1>2
<1>4. QED
  BY <1>3, OutcomesAre, Zenon DEF c

\* What p's calls so far make of the wallets w.
Ran(p, w) == Atomic!Outcomes(w, plan[p].moves)[applied[p]]

Wallets == [User -> Wallet \cup {NoWallet}]

\* GetOrCreateWallet has opened the wallet of u, which p is about to credit.
JustOpened(p, u) == /\ pc[p] \in {"fill", "select", "update"}
                    /\ Call(p).op = "credit" /\ Call(p).user = u

\* Where p is between its calls.
Between(p) ==
  /\ pc[p] = "idle" => applied[p] = 0 /\ step[p] = 1
  /\ pc[p] \in BeforeMove => /\ applied[p] < step[p]
                             /\ \A i \in (applied[p] + 1)..(step[p] - 1) : plan[p].moves[i].op = "read"
  /\ pc[p] \in {"lookup", "create", "fill"} => Call(p).op \in {"read", "credit"}
  /\ pc[p] \in AfterMove => applied[p] = step[p]
  /\ pc[p] = "commit" => plan[p].tx /\ applied[p] = step[p] /\ step[p] = Len(plan[p].moves)

\* A running transaction: its calls so far would all be allowed on any wallets
\* that agree with the committed rows where it holds the lock, and would leave
\* its versions there and nothing else changed.
Follows(p) ==
  InTx(p) => \A w \in Wallets : (\A u \in User : lock[u] = p => w[u] = row[u]) =>
    /\ Ran(p, w).ok
    /\ Ran(p, w).at \in Wallets
    /\ \A u \in User : lock[u] # p => Ran(p, w).at[u] = w[u]
    /\ \A u \in User : lock[u] = p =>
         \/ Ran(p, w).at[u] = ver[u]
         \/ JustOpened(p, u) /\ Ran(p, w).at[u] = NoWallet /\ ver[u] = EmptyWallet

\* A transaction's calls all move money.
LEMMA TransactionMoves ==
  ASSUME TypeOK, NEW p \in Session, plan[p].tx
  PROVE  /\ \A i \in 1..Len(plan[p].moves) : plan[p].moves[i].op \in RepoOps
         /\ Call(p).op \in RepoOps
<1>1. plan[p] \in Plan /\ plan[p].moves \in Seq(WalletCall) /\ step[p] \in 1..Len(plan[p].moves)
  BY LedgerAssumption DEF TypeOK
<1>2. \A i \in 1..Len(plan[p].moves) : plan[p].moves[i].op \in RepoOps
  BY <1>1, LedgerAssumption
<1>3. QED
  BY <1>1, <1>2 DEF Call

\* So a transaction's next movement follows directly on its last one.
LEMMA NothingBetween ==
  ASSUME TypeOK, NEW p \in Session, plan[p].tx, Between(p), pc[p] \in BeforeMove
  PROVE  applied[p] = step[p] - 1
<1>1. /\ applied[p] \in Nat /\ step[p] \in 1..Len(plan[p].moves) /\ Len(plan[p].moves) \in Nat
      /\ applied[p] < step[p]
      /\ \A i \in (applied[p] + 1)..(step[p] - 1) : plan[p].moves[i].op = "read"
  BY LedgerAssumption DEF TypeOK, Between
<1>2. \A i \in 1..Len(plan[p].moves) : plan[p].moves[i].op # "read"
  BY TransactionMoves DEF RepoOps
<1>3. SUFFICES ASSUME applied[p] # step[p] - 1 PROVE FALSE
  OBVIOUS
<1>4. step[p] - 1 \in (applied[p] + 1)..(step[p] - 1) /\ step[p] - 1 \in 1..Len(plan[p].moves)
  BY <1>1, <1>3
<1>5. QED
  BY <1>1, <1>2, <1>4

\* A movement that passed its check is allowed, and does what the UPDATE does.
LEMMA OneMoreCall ==
  ASSUME NEW r, r.ok, r.at \in Wallets, NEW c \in WalletCall, c.op \in RepoOps, NEW x \in Wallet,
         \/ r.at[c.user] = x
         \/ c.op = "credit" /\ r.at[c.user] = NoWallet /\ x = EmptyWallet,
         CheckOK(Moved(c.op, x, c.amt))
  PROVE  /\ Atomic!OneCall(r, c).ok
         /\ Atomic!OneCall(r, c).at = [r.at EXCEPT ![c.user] = Moved(c.op, x, c.amt)]
<1>1. c.user \in User /\ c.amt \in Nat
  BY DEF WalletCall
<1>2. Atomic!Allowed(c.op, r.at[c.user], c.amt)
  <2>1. CASE c.op = "credit"
    BY <2>1 DEF Atomic!Allowed
  <2>2. CASE c.op # "credit"
    <3>1. r.at[c.user] = x /\ x.bal \in Nat /\ x.frz \in Nat /\ x # NoWallet
      BY <2>2, StoreAssumption DEF Wallet
    <3>2. c.op \in {"debit", "freeze"} => x.bal >= c.amt
      BY <1>1, <2>2, <3>1 DEF CheckOK, Moved, DebitBalance, FreezeBalance
    <3>3. c.op = "unfreeze" => x.frz >= c.amt
      BY <1>1, <2>2, <3>1 DEF CheckOK, Moved, UnfreezeBalance
    <3>4. QED
      BY <2>2, <3>1, <3>2, <3>3 DEF Atomic!Allowed, RepoOps
  <2>3. QED
    BY <2>1, <2>2
<1>3. Atomic!After(c.op, r.at[c.user], c.amt) = Moved(c.op, x, c.amt)
  BY <1>1, StoreAssumption DEF Atomic!After, Atomic!Opened, Moved, CreditBalance, DebitBalance,
       FreezeBalance, UnfreezeBalance, RepoOps, Wallet, EmptyWallet
<1>4. QED
  BY <1>2, <1>3 DEF Atomic!OneCall

\* What does not touch the state of a request leaves it between its calls.
LEMMA SameBetween ==
  ASSUME NEW p, Between(p), RowState(p)' = RowState(p)
  PROVE  Between(p)'
BY DEF Between, RowState, Call

\* The next call, where all calls since the last movement only read.
LEMMA NextCallKeepsBetween ==
  ASSUME TypeOK, NEW p \in Session, NextCall(p), plan' = plan, applied'[p] \in Nat, applied'[p] <= step[p],
         \A i \in (applied'[p] + 1)..step[p] : plan[p].moves[i].op = "read",
         plan[p].tx => applied'[p] = step[p]
  PROVE  Between(p)'
<1>1. /\ step[p] \in 1..Len(plan[p].moves) /\ pc \in [Session -> Steps] /\ step \in [Session -> Nat]
      /\ Len(plan[p].moves) \in Nat /\ plan[p].tx \in BOOLEAN
  BY LedgerAssumption DEF TypeOK
<1>2. CASE step[p] < Len(plan[p].moves)
  <2>1. /\ step'[p] = step[p] + 1
        /\ pc'[p] = Entry(Call(p)'.op)
    BY <1>1, <1>2 DEF NextCall, Goto, Call
  <2>2. pc'[p] \in {"lookup", "select"} /\ (pc'[p] = "lookup" => Call(p)'.op \in {"read", "credit"})
    BY <2>1 DEF Entry
  <2>3. QED
    BY <1>1, <2>1, <2>2 DEF Between, BeforeMove, AfterMove
<1>3. CASE ~(step[p] < Len(plan[p].moves))
  <2>1. pc'[p] = (IF plan[p].tx THEN "commit" ELSE "done") /\ step' = step
    BY <1>1, <1>3 DEF NextCall, Goto
  <2>2. QED
    BY <1>1, <1>3, <2>1 DEF Between, BeforeMove, AfterMove
<1>4. QED
  BY <1>2, <1>3

\* After a lookup the call goes on, or, if it only reads, is over.
LEMMA AfterLookupKeepsBetween ==
  ASSUME TypeOK, NEW p \in Session, Between(p), pc[p] \in {"lookup", "fill"}, AfterLookup(p),
         UNCHANGED <<plan, applied>>
  PROVE  Between(p)'
<1>1. /\ applied[p] \in Nat /\ step[p] \in Nat /\ applied[p] < step[p]
      /\ \A i \in (applied[p] + 1)..(step[p] - 1) : plan[p].moves[i].op = "read"
  BY DEF TypeOK, Between, BeforeMove
<1>2. CASE Call(p).op = "read" /\ NextCall(p)
  <2>1. ~plan[p].tx
    BY <1>2, TransactionMoves DEF RepoOps
  <2>2. \A i \in (applied[p] + 1)..step[p] : plan[p].moves[i].op = "read"
    <3>1. plan[p].moves[step[p]].op = "read"
      BY <1>2 DEF Call
    <3>2. QED
      BY <1>1, <3>1
  <2>3. QED
    BY <1>1, <1>2, <2>1, <2>2, NextCallKeepsBetween
<1>3. CASE Goto(p, "select") /\ UNCHANGED step
  BY <1>1, <1>3 DEF TypeOK, Goto, Between, BeforeMove, AfterMove
<1>4. QED
  BY <1>2, <1>3 DEF AfterLookup

\* The movement is the last one.
LEMMA UpdateKeepsBetween ==
  ASSUME TypeOK, NEW p \in Session, Between(p), UpdateBalance(p)
  PROVE  Between(p)'
<1>1. applied'[p] = step[p] /\ step[p] \in Nat /\ plan' = plan
  BY DEF UpdateBalance, TypeOK
<1>2. CASE NextCall(p)
  <2>1. \A i \in (applied'[p] + 1)..step[p] : plan[p].moves[i].op = "read"
    BY <1>1
  <2>2. applied'[p] \in Nat /\ applied'[p] <= step[p]
    BY <1>1
  <2>3. QED
    BY <1>1, <1>2, <2>1, <2>2, NextCallKeepsBetween
<1>3. CASE pc' = [pc EXCEPT ![p] = "record"] /\ UNCHANGED step
  BY <1>1, <1>3 DEF TypeOK, Between, BeforeMove, AfterMove
<1>4. QED
  BY <1>2, <1>3 DEF UpdateBalance, Goto

\* Every step of a request leaves it between its calls.
LEMMA OwnStepKeepsBetween ==
  ASSUME TypeOK, NEW p \in Session, Between(p), Start(p) \/ Advance(p) \/ ConnectionLost(p)
  PROVE  Between(p)'
<1> USE DEF TypeOK, Goto
<1>1. CASE Start(p)
  <2>1. pc'[p] = Entry(Call(p).op) /\ pc[p] = "idle" /\ UNCHANGED <<plan, step, applied>>
    BY <1>1 DEF Start
  <2>2. pc'[p] \in {"lookup", "select"} /\ (pc'[p] = "lookup" => Call(p).op \in {"read", "credit"})
    BY <2>1 DEF Entry
  <2>3. QED
    BY <2>1, <2>2 DEF Between, BeforeMove, AfterMove, Call
<1>2. CASE LookupHit(p) \/ FillCache(p)
  BY <1>2, AfterLookupKeepsBetween DEF LookupHit, FillCache
<1>3. CASE LookupMiss(p) \/ CreateWallet(p) \/ CheckBalance(p) \/ CreditsNoRow(p)
  <2>1. /\ pc[p] \in BeforeMove /\ pc'[p] \in {"create", "fill", "update"}
        /\ pc'[p] \in {"create", "fill"} => pc[p] \in {"lookup", "create"}
        /\ UNCHANGED <<plan, step, applied>>
    BY <1>3 DEF LookupMiss, CreateWallet, CheckBalance, CreditsNoRow, BeforeMove
  <2>2. QED
    BY <2>1 DEF Between, BeforeMove, AfterMove, Call
<1>4. CASE UpdateBalance(p)
  BY <1>4, UpdateKeepsBetween
<1>5. CASE RecordTransaction(p) \/ RecordFails(p)
  <2>1. pc[p] = "record" /\ pc'[p] = "invalidate" /\ UNCHANGED <<plan, step, applied>>
    BY <1>5 DEF RecordTransaction, RecordFails
  <2>2. QED
    BY <2>1 DEF Between, BeforeMove, AfterMove
<1>6. CASE InvalidateCache(p)
  BY <1>6, NextCallKeepsBetween DEF InvalidateCache, Between, AfterMove
<1>7. CASE Fail(p) \/ CommitTx(p)
  BY <1>7 DEF Fail, CommitTx, Between, BeforeMove, AfterMove
<1>8. QED
  BY <1>1, <1>2, <1>3, <1>4, <1>5, <1>6, <1>7
     DEF Advance, CreateConflict, Refuse, UpdateFails, BrokenFails, DeadlockDetected, ConnectionLost

\* A step that changes neither the rows a transaction has locked nor what it
\* has done leaves its calls as they are.
LEMMA StaysFollowing ==
  ASSUME NEW p \in Session, InTx(p), Follows(p), plan'[p] = plan[p], applied'[p] = applied[p],
         \A u \in User : lock'[u] = p <=> lock[u] = p,
         \A u \in User : lock[u] = p => ver'[u] = ver[u] /\ row'[u] = row[u],
         \A u \in User : JustOpened(p, u) => JustOpened(p, u)'
  PROVE  Follows(p)'
<1>1. SUFFICES ASSUME NEW w \in Wallets, \A u \in User : lock'[u] = p => w[u] = row'[u]
               PROVE  /\ Ran(p, w)'.ok
                      /\ Ran(p, w)'.at \in Wallets
                      /\ \A u \in User : lock'[u] # p => Ran(p, w)'.at[u] = w[u]
                      /\ \A u \in User : lock'[u] = p =>
                           \/ Ran(p, w)'.at[u] = ver'[u]
                           \/ /\ JustOpened(p, u)'
                              /\ Ran(p, w)'.at[u] = NoWallet /\ ver'[u] = EmptyWallet
  BY DEF Follows
<1>2. Ran(p, w)' = Ran(p, w)
  BY DEF Ran
<1>3. \A u \in User : lock[u] = p => w[u] = row[u]
  BY <1>1
<1> HIDE DEF Ran, JustOpened
<1>4. QED
  BY <1>2, <1>3 DEF Follows

\* A transaction that has done nothing has locked nothing.
LEMMA StartFollows ==
  ASSUME IInv, NEW p \in Session, Between(p), Start(p)
  PROVE  Follows(p)'
<1>1. applied'[p] = 0 /\ plan' = plan /\ UNCHANGED <<row, ver, lock>> /\ ~InTx(p)
  BY DEF Between, Start, storeVars, InTx, Active
<1>2. \A u \in User : lock'[u] # p
  BY <1>1, StoreAssumption DEF IInv, LocksBelongToTransactions, TypeOK, StoreTypeOK
<1>3. Len(plan[p].moves) \in Nat
  BY LedgerAssumption DEF IInv, TypeOK
<1>4. \A w : Ran(p, w)' = [ok |-> TRUE, at |-> w]
  BY <1>1, <1>3, OutcomeOfNone DEF Ran
<1>5. \A w : Ran(p, w)'.ok /\ Ran(p, w)'.at = w
  BY <1>4
<1> HIDE DEF Ran
<1>6. QED
  BY <1>2, <1>5 DEF Follows

\* The SELECT ... FOR UPDATE locks a row that nobody has changed.
LEMMA CheckFollows ==
  ASSUME IInv, NEW p \in Session, InTx(p), Follows(p), CheckBalance(p)
  PROVE  Follows(p)'
<1> DEFINE v == Call(p).user
<1>1. /\ v \in User /\ plan[p].tx
      /\ UNCHANGED <<row, ver, plan, step, applied>> /\ pc' = [pc EXCEPT ![p] = "update"]
      /\ pc \in [Session -> Steps] /\ pc[p] = "select"
      /\ lock \in [User -> Session \cup {NoTx}] /\ lock' = [lock EXCEPT ![v] = p]
      /\ lock[v] \in {NoTx, p}
  BY CallType DEF CheckBalance, SelectForUpdate, Lock, Unlocked, Goto, InTx, IInv, TypeOK, StoreTypeOK,
                  WalletCall
<1>2. \A u \in User : JustOpened(p, u) => JustOpened(p, u)'
  BY <1>1 DEF JustOpened, Call
<1>3. CASE lock[v] = p
  BY <1>1, <1>2, <1>3, StaysFollowing
<1>4. CASE lock[v] = NoTx
  <2>1. ver[v] = row[v] /\ lock[v] # p
    BY <1>1, <1>4, StoreAssumption DEF IInv, UnlockedRowsAreCommitted
  <2>2. SUFFICES ASSUME NEW w \in Wallets, \A u \in User : lock'[u] = p => w[u] = row'[u]
                 PROVE  /\ Ran(p, w)'.ok
                        /\ Ran(p, w)'.at \in Wallets
                        /\ \A u \in User : lock'[u] # p => Ran(p, w)'.at[u] = w[u]
                        /\ \A u \in User : lock'[u] = p =>
                             \/ Ran(p, w)'.at[u] = ver'[u]
                             \/ /\ JustOpened(p, u)'
                                /\ Ran(p, w)'.at[u] = NoWallet /\ ver'[u] = EmptyWallet
    BY DEF Follows
  <2>3. Ran(p, w)' = Ran(p, w)
    BY <1>1 DEF Ran
  <2>4. \A u \in User : lock[u] = p => w[u] = row[u]
    BY <1>1, <2>2
  <2>5. w[v] = row[v]
    BY <1>1, <2>2
  <2> HIDE DEF v
  <2>6. QED
    BY <1>1, <1>2, <2>1, <2>3, <2>4, <2>5 DEF Follows
<1>5. QED
  BY <1>1, <1>3, <1>4

\* The INSERT of GetOrCreateWallet.
LEMMA CreateFollows ==
  ASSUME IInv, NEW p \in Session, InTx(p), Between(p), Follows(p), CreateWallet(p)
  PROVE  Follows(p)'
<1> DEFINE v == Call(p).user
<1>1. /\ v \in User /\ plan[p].tx
      /\ UNCHANGED <<row, plan, step, applied>> /\ pc' = [pc EXCEPT ![p] = "fill"]
      /\ pc \in [Session -> Steps] /\ pc[p] = "create"
      /\ lock \in [User -> Session \cup {NoTx}] /\ lock' = [lock EXCEPT ![v] = p]
      /\ ver \in [User -> Wallet \cup {NoWallet}] /\ ver' = [ver EXCEPT ![v] = EmptyWallet]
      /\ lock[v] \in {NoTx, p} /\ Seen(p, v) = NoWallet
  BY CallType DEF CreateWallet, Write, Lock, Unlocked, Goto, InTx, IInv, TypeOK, StoreTypeOK, WalletCall
<1>2. Call(p).op = "credit"
  BY <1>1, TransactionMoves DEF Between, IInv, RepoOps
<1>3. /\ \A u \in User : ~JustOpened(p, u)
      /\ \A u \in User : u = v => JustOpened(p, u)'
  BY <1>1, <1>2 DEF JustOpened, Call
<1>4. SUFFICES ASSUME NEW w \in Wallets, \A u \in User : lock'[u] = p => w[u] = row'[u]
               PROVE  /\ Ran(p, w)'.ok
                      /\ Ran(p, w)'.at \in Wallets
                      /\ \A u \in User : lock'[u] # p => Ran(p, w)'.at[u] = w[u]
                      /\ \A u \in User : lock'[u] = p =>
                           \/ Ran(p, w)'.at[u] = ver'[u]
                           \/ /\ JustOpened(p, u)'
                              /\ Ran(p, w)'.at[u] = NoWallet /\ ver'[u] = EmptyWallet
  BY DEF Follows
<1>5. Ran(p, w)' = Ran(p, w)
  BY <1>1 DEF Ran
<1>6. (\A u \in User : lock[u] = p => w[u] = row[u]) /\ w[v] = row[v]
  BY <1>1, <1>4
<1>7. Ran(p, w).at[v] = NoWallet
  BY <1>1, <1>3, <1>6 DEF Follows, Seen
<1> HIDE DEF v
<1>8. \A u \in User : u # v => (lock'[u] = p <=> lock[u] = p) /\ ver'[u] = ver[u]
  BY <1>1
<1>9. lock'[v] = p /\ ver'[v] = EmptyWallet
  BY <1>1
<1>10. /\ Ran(p, w).ok
       /\ Ran(p, w).at \in Wallets
       /\ \A u \in User : lock[u] # p => Ran(p, w).at[u] = w[u]
       /\ \A u \in User : lock[u] = p => Ran(p, w).at[u] = ver[u]
  BY <1>3, <1>6 DEF Follows
<1>11. ASSUME NEW u \in User, lock'[u] = p
       PROVE  \/ Ran(p, w)'.at[u] = ver'[u]
              \/ JustOpened(p, u)' /\ Ran(p, w)'.at[u] = NoWallet /\ ver'[u] = EmptyWallet
  <2>1. CASE u = v
    BY <2>1, <1>3, <1>5, <1>7, <1>9
  <2>2. CASE u # v
    BY <2>2, <1>5, <1>8, <1>10, <1>11
  <2>3. QED
    BY <2>1, <2>2
<1>12. \A u \in User : lock'[u] # p => Ran(p, w)'.at[u] = w[u]
  BY <1>5, <1>8, <1>9, <1>10
<1>13. QED
  BY <1>5, <1>10, <1>11, <1>12

\* The UPDATE makes of the wallet what the call is to make of it.
LEMMA UpdateFollows ==
  ASSUME IInv, NEW p \in Session, InTx(p), Between(p), Follows(p), UpdateBalance(p)
  PROVE  Follows(p)'
<1> DEFINE c == Call(p)
           v == c.user
           x == Seen(p, v)
           y == Moved(c.op, x, c.amt)
<1>1. /\ c \in WalletCall /\ v \in User /\ c.op \in RepoOps /\ plan[p].tx
      /\ x \in Wallet /\ CheckOK(y) /\ y \in Wallet
      /\ UNCHANGED <<row, plan>> /\ applied'[p] = step[p]
      /\ lock \in [User -> Session \cup {NoTx}] /\ lock' = [lock EXCEPT ![v] = p]
      /\ ver \in [User -> Wallet \cup {NoWallet}] /\ ver' = [ver EXCEPT ![v] = y]
      /\ lock[v] \in {NoTx, p}
  <2>1. c \in WalletCall /\ v \in User /\ c.op \in RepoOps /\ plan[p].tx
    BY CallType, TransactionMoves DEF IInv, InTx, WalletCall
  <2>2. x \in Wallet /\ CheckOK(y)
    BY <2>1, SeenType DEF UpdateBalance, IInv, TypeOK
  <2>3. y \in Wallet
    BY <2>1, <2>2, MovedType DEF WalletCall
  <2>4. QED
    BY <2>1, <2>2, <2>3 DEF UpdateBalance, Write, Lock, Unlocked, IInv, TypeOK, StoreTypeOK
<1>2. applied[p] = step[p] - 1 /\ step[p] \in 1..Len(plan[p].moves) /\ Len(plan[p].moves) \in Nat
  BY <1>1, NothingBetween, LedgerAssumption DEF UpdateBalance, BeforeMove, IInv, TypeOK
<1>3. SUFFICES ASSUME NEW w \in Wallets, \A u \in User : lock'[u] = p => w[u] = row'[u]
               PROVE  /\ Ran(p, w)'.ok
                      /\ Ran(p, w)'.at \in Wallets
                      /\ \A u \in User : lock'[u] # p => Ran(p, w)'.at[u] = w[u]
                      /\ \A u \in User : lock'[u] = p => Ran(p, w)'.at[u] = ver'[u]
  BY DEF Follows
<1>4. (\A u \in User : lock[u] = p => w[u] = row[u]) /\ w[v] = row[v]
  BY <1>1, <1>3
<1>5. Ran(p, w)' = Atomic!OneCall(Ran(p, w), c)
  <2> DEFINE f == Atomic!Outcomes(w, plan[p].moves)
  <2>1. \A i \in 1..Len(plan[p].moves) : f[i] = Atomic!OneCall(f[i - 1], plan[p].moves[i])
    BY <1>2, OutcomeOfOneMore
  <2>2. Ran(p, w) = f[step[p] - 1] /\ Ran(p, w)' = f[step[p]]
    BY <1>1, <1>2 DEF Ran
  <2>3. QED
    BY <1>2, <2>1, <2>2 DEF Call
<1> DEFINE o == Ran(p, w)
<1>6. /\ o.ok /\ o.at \in Wallets
      /\ \A u \in User : lock[u] # p => o.at[u] = w[u]
      /\ \A u \in User : lock[u] = p =>
           \/ o.at[u] = ver[u]
           \/ JustOpened(p, u) /\ o.at[u] = NoWallet /\ ver[u] = EmptyWallet
  BY <1>4 DEF Follows
<1>7. o.at[v] = x \/ (c.op = "credit" /\ o.at[v] = NoWallet /\ x = EmptyWallet)
  BY <1>1, <1>4, <1>6 DEF Seen, JustOpened
<1>8. /\ Ran(p, w)'.ok
      /\ Ran(p, w)'.at = [o.at EXCEPT ![v] = y]
  BY <1>1, <1>5, <1>6, <1>7, OneMoreCall
<1> HIDE DEF c, v, x, y, o
<1>9. CASE TRUE
  <2>1. \A u \in User : u # v => (lock'[u] = p <=> lock[u] = p) /\ ver'[u] = ver[u] /\ Ran(p, w)'.at[u] = o.at[u]
    BY <1>1, <1>6, <1>8 DEF Wallets
  <2>2. \A u \in User : u # v => ~JustOpened(p, u)
    BY DEF JustOpened, v, c
  <2>3. Ran(p, w)'.at[v] = y /\ ver'[v] = y /\ lock'[v] = p
    BY <1>1, <1>6, <1>8 DEF Wallets
  <2>4. Ran(p, w)'.at \in Wallets
    BY <1>1, <1>6, <1>8 DEF Wallets
  <2>5. QED
    BY <1>1, <1>6, <1>8, <2>1, <2>2, <2>3, <2>4
<1>10. QED
  BY <1>9

\* A step of p leaves the rows that another transaction has locked.
LEMMA LocksAreRespected ==
  ASSUME TypeOK, NEW p \in Session, NEW q \in Session \ {p}, Start(p) \/ Advance(p) \/ ConnectionLost(p)
  PROVE  /\ \A u \in User : lock'[u] = q <=> lock[u] = q
         /\ \A u \in User : lock[u] = q => ver'[u] = ver[u] /\ row'[u] = row[u]
<1> USE StoreAssumption DEF TypeOK, StoreTypeOK
<1>1. CASE UNCHANGED storeVars
  BY <1>1 DEF storeVars
<1>2. CASE CheckBalance(p)
  BY <1>2 DEF CheckBalance, SelectForUpdate, Lock, Unlocked
<1>3. CASE CreateWallet(p) \/ UpdateBalance(p)
  <2>1. PICK v, w : Write(p, v, w, plan[p].tx)
    BY <1>3, Zenon DEF CreateWallet, UpdateBalance
  <2>2. QED
    BY <2>1 DEF Write, Lock, Unlocked
<1>4. CASE CommitTx(p)
  BY <1>4 DEF CommitTx, Commit
<1>5. CASE Fail(p)
  BY <1>5 DEF Fail, Rollback
<1>6. QED
  BY <1>1, <1>2, <1>3, <1>4, <1>5
     DEF Start, Advance, LookupHit, LookupMiss, FillCache, CreditsNoRow, RecordTransaction, RecordFails,
         InvalidateCache, CreateConflict, Refuse, UpdateFails, BrokenFails, DeadlockDetected, ConnectionLost

\* Another transaction is where it was.
LEMMA OthersFollow ==
  ASSUME TypeOK, NEW p \in Session, NEW q \in Session \ {p}, Follows(q),
         Start(p) \/ Advance(p) \/ ConnectionLost(p)
  PROVE  Follows(q)'
<1>1. RowState(q)' = RowState(q)
  BY OthersKeepRows
<1>2. /\ plan'[q] = plan[q] /\ applied'[q] = applied[q] /\ InTx(q)' = InTx(q)
      /\ \A u \in User : JustOpened(q, u) => JustOpened(q, u)'
  BY <1>1 DEF RowState, InTx, Active, JustOpened, Call
<1>3. CASE InTx(q)
  BY <1>2, <1>3, LocksAreRespected, StaysFollowing
<1>4. CASE ~InTx(q)
  BY <1>2, <1>4 DEF Follows
<1>5. QED
  BY <1>3, <1>4

\* And every step of the transaction itself takes it where its calls lead.
LEMMA OwnStepFollows ==
  ASSUME IInv, NEW p \in Session, Between(p), Follows(p), Start(p) \/ Advance(p) \/ ConnectionLost(p)
  PROVE  Follows(p)'
<1>1. CASE Start(p)
  BY <1>1, StartFollows
<1>2. CASE Fail(p) \/ CommitTx(p)
  <2>1. ~InTx(p)'
    BY <1>2 DEF Fail, CommitTx, Goto, InTx, Active, IInv, TypeOK
  <2>2. QED
    BY <2>1 DEF Follows
<1>3. CASE /\ ~InTx(p) /\ pc[p] # "idle" /\ plan' = plan
           /\ pc[p] \notin {"done", "failed"}
  <2>1. ~InTx(p)'
    BY <1>3 DEF InTx, Active
  <2>2. QED
    BY <2>1 DEF Follows
<1>4. CASE InTx(p) /\ CheckBalance(p)
  BY <1>4, CheckFollows
<1>5. CASE InTx(p) /\ CreateWallet(p)
  BY <1>5, CreateFollows
<1>6. CASE InTx(p) /\ UpdateBalance(p)
  BY <1>6, UpdateFollows
<1>7. CASE InTx(p) /\ (LookupMiss(p) \/ CreditsNoRow(p) \/ RecordTransaction(p) \/ RecordFails(p))
  <2>1. /\ UNCHANGED <<row, ver, lock, plan, step, applied>>
        /\ \A u \in User : JustOpened(p, u) => JustOpened(p, u)'
    BY <1>7 DEF LookupMiss, CreditsNoRow, RecordTransaction, RecordFails, Goto, storeVars, JustOpened, Call,
                IInv, TypeOK
  <2>2. QED
    BY <1>7, <2>1, StaysFollowing
<1>8. CASE InTx(p) /\ (LookupHit(p) \/ FillCache(p))
  <2>1. Call(p).op # "read"
    BY <1>8, TransactionMoves DEF IInv, InTx, RepoOps
  <2>2. /\ UNCHANGED <<row, ver, lock, plan, step, applied>> /\ pc' = [pc EXCEPT ![p] = "select"]
        /\ pc \in [Session -> Steps]
    BY <1>8, <2>1 DEF LookupHit, FillCache, AfterLookup, Goto, storeVars, IInv, TypeOK
  <2>3. \A u \in User : JustOpened(p, u) => JustOpened(p, u)'
    BY <2>2 DEF JustOpened, Call
  <2>4. QED
    BY <1>8, <2>2, <2>3, StaysFollowing
<1>9. CASE InTx(p) /\ InvalidateCache(p)
  <2>1. UNCHANGED <<row, ver, lock, plan, applied>> /\ pc[p] = "invalidate"
    BY <1>9 DEF InvalidateCache, storeVars
  <2>2. \A u \in User : ~JustOpened(p, u)
    BY <2>1 DEF JustOpened
  <2>3. QED
    BY <1>9, <2>1, <2>2, StaysFollowing
<1>10. Start(p) \/ Fail(p) \/ CommitTx(p) \/ LookupHit(p) \/ LookupMiss(p) \/ CreateWallet(p) \/ FillCache(p)
       \/ CheckBalance(p) \/ CreditsNoRow(p) \/ UpdateBalance(p) \/ RecordTransaction(p) \/ RecordFails(p)
       \/ InvalidateCache(p)
  BY DEF Advance, CreateConflict, Refuse, UpdateFails, BrokenFails, DeadlockDetected, ConnectionLost
<1>11. (LookupHit(p) \/ LookupMiss(p) \/ CreateWallet(p) \/ FillCache(p) \/ CheckBalance(p)
        \/ CreditsNoRow(p) \/ UpdateBalance(p) \/ RecordTransaction(p) \/ RecordFails(p)
        \/ InvalidateCache(p)) =>
       plan' = plan /\ pc[p] \notin {"idle", "done", "failed"}
  BY DEF LookupHit, LookupMiss, CreateWallet, FillCache, CheckBalance, CreditsNoRow, UpdateBalance,
         RecordTransaction, RecordFails, InvalidateCache
<1>12. QED
  BY <1>1, <1>2, <1>3, <1>4, <1>5, <1>6, <1>7, <1>8, <1>9, <1>10, <1>11

\* The progress that the abstract ledger sees.
Progresses == [p \in Session |-> Progress(p)]

\* A step of p is no progress of another request.
LEMMA ProgressOfOthers ==
  ASSUME TypeOK, NEW p \in Session, NEW q \in Session \ {p}, Start(p) \/ Advance(p) \/ ConnectionLost(p)
  PROVE  Progress(q)' = Progress(q)
<1>1. RowState(q)' = RowState(q)
  BY OthersKeepRows
<1>2. QED
  BY <1>1 DEF RowState, Progress, InTx, Active

\* A step that the abstract ledger does not see.
LEMMA Stutters ==
  ASSUME row' = row, plan' = plan, \A q \in Session : Progress(q)' = Progress(q)
  PROVE  UNCHANGED Atomic!vars
BY DEF Atomic!vars

\* A request outside a transaction holds no lock between its statements.
LEMMA NoLockOutside ==
  ASSUME IInv, NEW p \in Session, ~plan[p].tx, NEW u \in User
  PROVE  lock[u] # p
<1>1. lock[u] = p => InTx(p)
  BY StoreAssumption DEF IInv, LocksBelongToTransactions
<1>2. QED
  BY <1>1 DEF InTx

\* The UPDATE of a call made outside a transaction.
LEMMA UpdateIsSingleCall ==
  ASSUME IInv, NEW p \in Session, Between(p), ~plan[p].tx, UpdateBalance(p),
         \A q \in Session \ {p} : Progress(q)' = Progress(q)
  PROVE  Atomic!SingleCall(p)
<1> DEFINE c == Call(p)
           v == c.user
           x == Seen(p, v)
           y == Moved(c.op, x, c.amt)
           i == step[p]
<1>1. /\ c \in WalletCall /\ v \in User /\ c.op \in RepoOps
      /\ plan' = plan /\ applied'[p] = i /\ applied[p] \in Nat /\ i \in Nat
      /\ i \in 1..Len(plan[p].moves) /\ plan[p].moves \in Seq(WalletCall)
  <2>1. c \in WalletCall /\ c.op \in RepoOps
    BY CallType DEF UpdateBalance, IInv, RepoCallsReachTheRepository
  <2>2. plan[p] \in [tx : BOOLEAN, moves : Seq(WalletCall)] /\ i \in 1..Len(plan[p].moves)
    BY LedgerAssumption DEF IInv, TypeOK
  <2>3. plan' = plan /\ applied'[p] = i /\ applied[p] \in Nat
    BY DEF UpdateBalance, IInv, TypeOK
  <2>4. v \in User
    BY <2>1 DEF WalletCall
  <2> HIDE DEF c, v
  <2>5. QED
    BY <2>1, <2>2, <2>3, <2>4
<1>2. lock[v] # p
  BY <1>1, NoLockOutside
<1>3. x = row[v] /\ x \in Wallet /\ CheckOK(y) /\ row' = [row EXCEPT ![v] = y]
  BY <1>1, <1>2, SeenType DEF UpdateBalance, Seen, Write, IInv, TypeOK
<1>4. applied[p] < i /\ \A j \in (applied[p] + 1)..(i - 1) : plan[p].moves[j].op = "read"
  BY DEF UpdateBalance, Between, BeforeMove
<1>5. Progress(p) = applied[p] /\ Progress(p)' = i
  BY <1>1 DEF Progress, InTx
<1>6. Progresses[p] = applied[p] /\ Progresses' = [Progresses EXCEPT ![p] = i]
  BY <1>5 DEF Progresses
<1>7. i \in DOMAIN plan[p].moves /\ plan[p].moves[i] = c
  BY <1>1 DEF Call
<1>8. Atomic!Outcome(<<c>>).ok /\ row' = Atomic!Outcome(<<c>>).at
  <2> DEFINE calls == <<c>>
             r == Atomic!Outcomes(row, calls)[0]
  <2>1. Len(calls) = 1 /\ calls[1] = c
    OBVIOUS
  <2> HIDE DEF calls
  <2>2. r = [ok |-> TRUE, at |-> row]
    BY <2>1, OutcomeOfNone
  <2>3. r.ok /\ r.at = row
    BY <2>2
  <2> HIDE DEF r, c, v, x, y
  <2>4. Atomic!Outcomes(row, calls)[1] = Atomic!OneCall(r, c)
    BY <2>1, OutcomeOfOneMore DEF r
  <2>5. r.at \in Wallets
    BY <2>3 DEF IInv, TypeOK, StoreTypeOK, Wallets
  <2>6. Atomic!OneCall(r, c).ok /\ Atomic!OneCall(r, c).at = [row EXCEPT ![v] = y]
    <3>1. /\ r.ok /\ r.at \in Wallets /\ c \in WalletCall /\ c.op \in RepoOps /\ x \in Wallet
          /\ r.at[c.user] = x /\ CheckOK(Moved(c.op, x, c.amt))
      BY <1>1, <1>3, <2>3, <2>5 DEF v, y
    <3>2. /\ Atomic!OneCall(r, c).ok
          /\ Atomic!OneCall(r, c).at = [r.at EXCEPT ![c.user] = Moved(c.op, x, c.amt)]
      BY <3>1, OneMoreCall
    <3>3. QED
      BY <2>3, <3>2 DEF v, y
  <2>7. Atomic!Outcome(calls) = Atomic!OneCall(r, c)
    BY <2>1, <2>4 DEF Atomic!Outcome
  <2>8. QED
    BY <1>3, <2>6, <2>7 DEF calls
<1> HIDE DEF c, v, x, y, i
<1>9. /\ i \in DOMAIN plan[p].moves /\ i > Progresses[p]
      /\ \A j \in (Progresses[p] + 1)..(i - 1) : plan[p].moves[j].op = "read"
      /\ plan[p].moves[i].op \in RepoOps
      /\ Atomic!Outcome(<<plan[p].moves[i]>>).ok
      /\ row' = Atomic!Outcome(<<plan[p].moves[i]>>).at
      /\ Progresses' = [Progresses EXCEPT ![p] = i]
  BY <1>1, <1>4, <1>6, <1>7, <1>8
<1>10. QED
  BY <1>1, <1>9 DEF Atomic!SingleCall, Progresses, Atomic!RepoOps, RepoOps

\* COMMIT.
LEMMA CommitIsTransaction ==
  ASSUME IInv, NEW p \in Session, Between(p), Follows(p), CommitTx(p),
         \A q \in Session \ {p} : Progress(q)' = Progress(q)
  PROVE  Atomic!Transaction(p)
<1>1. /\ plan[p].tx /\ InTx(p) /\ ~InTx(p)' /\ plan' = plan /\ applied' = applied
      /\ applied[p] = Len(plan[p].moves)
  BY DEF CommitTx, Goto, Between, InTx, Active, IInv, TypeOK
<1>2. row \in Wallets /\ row' = [u \in User |-> IF lock[u] = p THEN ver[u] ELSE row[u]]
  BY DEF CommitTx, Commit, IInv, TypeOK, StoreTypeOK, Wallets
<1>3. \A u \in User : ~JustOpened(p, u)
  BY DEF CommitTx, JustOpened
<1>4. /\ Ran(p, row).ok /\ Ran(p, row).at \in Wallets
      /\ \A u \in User : Ran(p, row).at[u] = IF lock[u] = p THEN ver[u] ELSE row[u]
  BY <1>1, <1>2, <1>3 DEF Follows
<1>5. row' = Ran(p, row).at
  BY <1>2, <1>4 DEF Wallets
<1>6. Ran(p, row) = Atomic!Outcome(plan[p].moves)
  BY <1>1 DEF Ran, Atomic!Outcome
<1>7. Progress(p) = 0 /\ Progress(p)' = Len(plan[p].moves)
  BY <1>1 DEF Progress
<1>8. Progresses[p] = 0 /\ Progresses' = [Progresses EXCEPT ![p] = Len(plan[p].moves)]
  BY <1>7 DEF Progresses
<1>9. QED
  BY <1>1, <1>4, <1>5, <1>6, <1>8 DEF Atomic!Transaction, Progresses

\* Every other step of a request opens a wallet, or is not seen.
LEMMA OtherStepsAreOpenOrStutter ==
  ASSUME IInv, NEW p \in Session, Between(p), Start(p) \/ Advance(p) \/ ConnectionLost(p),
         ~CommitTx(p), ~(~plan[p].tx /\ UpdateBalance(p)),
         \A q \in Session \ {p} : Progress(q)' = Progress(q)
  PROVE  (\E u \in User : Atomic!Open(u)) \/ UNCHANGED Atomic!vars
<1> USE DEF Goto
<1>1. /\ pc \in [Session -> Steps] /\ plan[p].tx \in BOOLEAN /\ applied \in [Session -> Nat]
  BY LedgerAssumption DEF IInv, TypeOK
<1>2. CASE Start(p)
  <2>1. row' = row /\ plan' = plan /\ applied[p] = 0 /\ applied' = applied
    BY <1>2 DEF Start, storeVars, Between
  <2>2. Progress(p)' = Progress(p)
    BY <2>1 DEF Progress
  <2>3. QED
    BY <2>1, <2>2, Stutters
<1>3. ASSUME NextCall(p), plan' = plan PROVE plan[p].tx => pc'[p] \notin {"idle", "done", "failed"}
  BY <1>3, NextCallType DEF IInv
<1>4. CASE LookupHit(p) \/ LookupMiss(p) \/ FillCache(p) \/ CheckBalance(p) \/ CreditsNoRow(p)
           \/ RecordTransaction(p) \/ RecordFails(p) \/ InvalidateCache(p)
  <2>1. /\ row' = row /\ plan' = plan /\ applied' = applied /\ pc[p] \notin {"idle", "done", "failed"}
        /\ plan[p].tx => pc'[p] \notin {"idle", "done", "failed"}
    BY <1>1, <1>3, <1>4
       DEF LookupHit, LookupMiss, FillCache, CheckBalance, SelectForUpdate, CreditsNoRow,
           RecordTransaction, RecordFails, InvalidateCache, AfterLookup, storeVars
  <2>2. Progress(p)' = Progress(p)
    BY <2>1 DEF Progress, InTx, Active
  <2>3. QED
    BY <2>1, <2>2, Stutters
<1>5. CASE UpdateBalance(p)
  <2>1. plan[p].tx /\ row' = row /\ plan' = plan /\ pc[p] \notin {"idle", "done", "failed"}
    BY <1>1, <1>5 DEF UpdateBalance, Write
  <2>2. pc'[p] \notin {"idle", "done", "failed"}
    BY <1>1, <1>3, <1>5, <2>1 DEF UpdateBalance
  <2>3. Progress(p)' = Progress(p)
    BY <2>1, <2>2 DEF Progress, InTx, Active
  <2>4. QED
    BY <2>1, <2>3, Stutters
<1>6. CASE CreateWallet(p)
  <2>1. /\ plan' = plan /\ applied' = applied /\ pc[p] = "create" /\ pc'[p] = "fill"
    BY <1>1, <1>6 DEF CreateWallet
  <2>2. Progress(p)' = Progress(p)
    BY <2>1 DEF Progress, InTx, Active
  <2>3. CASE plan[p].tx
    BY <1>6, <2>1, <2>2, <2>3, Stutters DEF CreateWallet, Write
  <2>4. CASE ~plan[p].tx
    <3> DEFINE v == Call(p).user
    <3>1. v \in User /\ lock[v] # p
      BY <2>4, CallType, NoLockOutside DEF WalletCall, IInv
    <3>2. row[v] = NoWallet /\ row' = [row EXCEPT ![v] = EmptyWallet]
      BY <1>6, <2>4, <3>1 DEF CreateWallet, Seen, Write
    <3>3. Progresses' = Progresses
      BY <2>2 DEF Progresses
    <3>4. Atomic!Open(v)
      BY <2>1, <3>1, <3>2, <3>3 DEF Atomic!Open, Atomic!Opened, EmptyWallet, Progresses
    <3>5. QED
      BY <3>1, <3>4
  <2>5. QED
    BY <1>1, <2>3, <2>4
<1>7. CASE Fail(p) /\ pc[p] \notin {"idle", "done", "failed"}
  <2>1. /\ row' = row /\ plan' = plan /\ pc'[p] = "failed"
        /\ applied'[p] = IF plan[p].tx THEN 0 ELSE applied[p]
    BY <1>1, <1>7 DEF Fail, Rollback
  <2>2. Progress(p)' = Progress(p)
    BY <1>1, <1>7, <2>1 DEF Progress, InTx, Active
  <2>3. QED
    BY <2>1, <2>2, Stutters
<1>8. QED
  BY <1>2, <1>4, <1>5, <1>6, <1>7
     DEF Advance, CreateConflict, Refuse, UpdateFails, BrokenFails, DeadlockDetected, ConnectionLost,
         WaitCycle, Blocked, Active

\* wallet.go behind RunInTx: for any users, requests and plans, a transaction
\* takes effect at its commit or not at all, a call outside one at its UPDATE,
\* and each is covered by the balances of that instant.
THEOREM ImplementsAtomicity == Spec => ImplementsAtomicLedger
<1> DEFINE Inside == \A p \in Session : Between(p) /\ Follows(p)
<1>1. Init => Inside
  BY DEF Init, Between, Follows, InTx, Active, BeforeMove, AfterMove
<1>2. IInv /\ Inside /\ [Next]_vars => Inside'
  <2> SUFFICES ASSUME IInv, Inside, [Next]_vars, NEW q \in Session
               PROVE  Between(q)' /\ Follows(q)'
    OBVIOUS
  <2>1. ASSUME NEW p \in Session, Start(p) \/ Advance(p) \/ ConnectionLost(p)
        PROVE  Between(q)' /\ Follows(q)'
    <3>1. CASE q = p
      BY <2>1, <3>1, OwnStepKeepsBetween, OwnStepFollows DEF IInv
    <3>2. CASE q # p
      BY <2>1, <3>2, OthersKeepRows, SameBetween, OthersFollow DEF IInv
    <3>3. QED
      BY <3>1, <3>2
  <2>2. CASE UNCHANGED <<storeVars, requestVars>>
    <3>1. RowState(q)' = RowState(q) /\ UNCHANGED <<row, ver, lock, pc, plan, step, applied>>
      BY <2>2 DEF storeVars, requestVars, RowState
    <3>2. Between(q)'
      BY <3>1, SameBetween
    <3>3. Follows(q)'
      BY <3>1 DEF Follows, Ran, InTx, Active, JustOpened, Call
    <3>4. QED
      BY <3>2, <3>3
  <2>3. QED
    BY <2>1, <2>2 DEF Next, CacheExpires, Finished, vars
<1>3. Init => Atomic!Init
  BY DEF Init, StoreInit, Atomic!Init, Progress
<1>4. IInv /\ Inside /\ [Next]_vars => [Atomic!Next]_(Atomic!vars)
  <2> SUFFICES ASSUME IInv, Inside, [Next]_vars
               PROVE  Atomic!Next \/ UNCHANGED Atomic!vars
    OBVIOUS
  <2>1. ASSUME NEW p \in Session, Start(p) \/ Advance(p) \/ ConnectionLost(p)
        PROVE  Atomic!Next \/ UNCHANGED Atomic!vars
    <3>1. \A q \in Session \ {p} : Progress(q)' = Progress(q)
      BY <2>1, ProgressOfOthers DEF IInv
    <3>2. CASE CommitTx(p)
      BY <3>1, <3>2, CommitIsTransaction DEF Atomic!Next
    <3>3. CASE ~plan[p].tx /\ UpdateBalance(p)
      BY <3>1, <3>3, UpdateIsSingleCall DEF Atomic!Next
    <3>4. QED
      BY <2>1, <3>1, <3>2, <3>3, OtherStepsAreOpenOrStutter DEF Atomic!Next
  <2>2. CASE UNCHANGED <<storeVars, requestVars>>
    <3>1. row' = row /\ plan' = plan /\ pc' = pc /\ applied' = applied
      BY <2>2 DEF storeVars, requestVars
    <3>2. QED
      BY <3>1, Stutters DEF Progress, InTx, Active
  <2>3. QED
    BY <2>1, <2>2 DEF Next, CacheExpires, Finished, vars
<1> HIDE DEF Inside
<1>5. QED
  BY <1>1, <1>2, <1>3, <1>4, InvariantHolds, PTL DEF Spec, ImplementsAtomicLedger, Atomic!Spec
=============================================================================
