---------------------------- MODULE Idempotency ----------------------------
(***************************************************************************)
(* pkg/wallet/idempotency.go: the middleware that lets a financial POST    *)
(* through only if its X-Idempotency-Key can be reserved, in Redis, or in  *)
(* the memory of the server instance when Redis does not answer.  Several  *)
(* instances serve requests; each may restart, and Redis may come and go.  *)
(***************************************************************************)
EXTENDS Naturals, FiniteSets

CONSTANTS Instance,  \* server processes
          Request, Key,
          KeyOf,     \* the key of a request, NoKey without the header
          NoKey,
          Redis      \* the other place a key may be reserved in

ASSUME IdempotencyAssumption == /\ KeyOf \in [Request -> Key \cup {NoKey}]
                                /\ NoKey \notin Key
                                /\ Redis \notin Instance

Store == Instance \cup {Redis}

VARIABLES
  redisUp,    \* Redis answers
  reserved,   \* reserved[s]: the keys store s holds, unexpired
  isFallback, \* isFallback[i]: instance i started without Redis
  stage,         \* stage[r]: where request r is
  at,         \* at[r]: the instance that serves it
  granted     \* granted[s]: the requests whose key s reserved, since s last
              \* lost or expired that key
keyVars == <<redisUp, reserved, isFallback, stage, at, granted>>

Waiting == {"idle", "health", "setnx", "memory"}
KeyTypeOK == /\ redisUp \in BOOLEAN
             /\ reserved \in [Store -> SUBSET Key]
             /\ isFallback \in [Instance -> BOOLEAN]
             /\ stage \in [Request -> Waiting \cup {"handler", "served", "rejected", "crashed"}]
             /\ at \in [Request -> Instance]
             /\ granted \in [Store -> SUBSET Request]

KeyInit == /\ redisUp \in BOOLEAN
           /\ reserved = [s \in Store |-> {}]
           /\ isFallback = [i \in Instance |-> ~redisUp]
           /\ stage = [r \in Request |-> "idle"]
           /\ at \in [Request -> Instance]
           /\ granted = [s \in Store |-> {}]

MoveTo(r, l) == stage' = [stage EXCEPT ![r] = l]
Forget(s, K) == granted' = [granted EXCEPT ![s] = {r \in @ : KeyOf[r] \notin K}]

-----------------------------------------------------------------------------
\* Middleware: a financial POST, whose key is checked for presence first.
Arrive(r) == /\ stage[r] = "idle"
             /\ MoveTo(r, IF KeyOf[r] = NoKey THEN "rejected" ELSE "health")
             /\ UNCHANGED <<redisUp, reserved, isFallback, at, granted>>

\* The health check also fails when the context of the request has ended.
CheckHealth(r) ==
  /\ stage[r] = "health"
  /\ \/ ~isFallback[at[r]] /\ redisUp /\ MoveTo(r, "setnx")
     \/ MoveTo(r, "memory")
  /\ UNCHANGED <<redisUp, reserved, isFallback, at, granted>>

Reserve(r, s) == /\ reserved' = [reserved EXCEPT ![s] = @ \cup {KeyOf[r]}]
                 /\ granted' = [granted EXCEPT ![s] = @ \cup {r}]

\* Mutant: GET, then SET: the key is written whether it was there or not.
SetAnyway(r) == /\ stage[r] = "setnx"
                /\ redisUp
                /\ Reserve(r, Redis)
                /\ MoveTo(r, "handler")
                /\ UNCHANGED <<redisUp, isFallback, at>>

SetNX(r) ==
  /\ stage[r] = "setnx"
  /\ redisUp
  /\ IF KeyOf[r] \in reserved[Redis]
     THEN MoveTo(r, "rejected") /\ UNCHANGED <<reserved, granted>>
     ELSE Reserve(r, Redis) /\ MoveTo(r, "handler")
  /\ UNCHANGED <<redisUp, isFallback, at>>

\* Mutant: a request whose key Redis could not reserve is let through.
FailOpen(r) == /\ stage[r] = "setnx"
               /\ MoveTo(r, "handler")
               /\ UNCHANGED <<redisUp, reserved, isFallback, at, granted>>

\* The error may come after Redis set the key.
SetNXFails(r) ==
  /\ stage[r] = "setnx"
  /\ \/ redisUp /\ reserved' = [reserved EXCEPT ![Redis] = @ \cup {KeyOf[r]}]
     \/ UNCHANGED reserved
  /\ MoveTo(r, "memory")
  /\ UNCHANGED <<redisUp, isFallback, at, granted>>

\* Under im.mu.
AcquireInMemory(r) ==
  /\ stage[r] = "memory"
  /\ IF KeyOf[r] \in reserved[at[r]]
     THEN MoveTo(r, "rejected") /\ UNCHANGED <<reserved, granted>>
     ELSE Reserve(r, at[r]) /\ MoveTo(r, "handler")
  /\ UNCHANGED <<redisUp, isFallback, at>>

\* The handler of the route runs; the key stays reserved if it fails, too.
Serve(r) == /\ stage[r] = "handler"
            /\ MoveTo(r, "served")
            /\ UNCHANGED <<redisUp, reserved, isFallback, at, granted>>

\* 24 hours later.  cleanupLoop removes entries that no longer count.
Expire(s, k) == /\ k \in reserved[s]
                /\ reserved' = [reserved EXCEPT ![s] = @ \ {k}]
                /\ Forget(s, {k})
                /\ UNCHANGED <<redisUp, isFallback, stage, at>>

Restart(i) ==
  /\ reserved' = [reserved EXCEPT ![i] = {}]
  /\ Forget(i, Key)
  /\ isFallback' = [isFallback EXCEPT ![i] = ~redisUp]
  /\ stage' = [r \in Request |->
              IF at[r] = i /\ stage[r] \in {"health", "setnx", "memory", "handler"}
              THEN "crashed" ELSE stage[r]]
  /\ UNCHANGED <<redisUp, at>>

\* Redis goes, with or without its data, and comes back.
RedisChanges ==
  /\ redisUp' = ~redisUp
  /\ \/ UNCHANGED <<reserved, granted>>
     \/ /\ redisUp
        /\ reserved' = [reserved EXCEPT ![Redis] = {}]
        /\ Forget(Redis, Key)
  /\ UNCHANGED <<isFallback, stage, at>>

Step(r) == \/ Arrive(r) \/ CheckHealth(r) \/ SetNX(r) \/ SetNXFails(r)
           \/ AcquireInMemory(r) \/ Serve(r)

KeyNext == \/ \E r \in Request : Step(r)
        \/ \E s \in Store, k \in Key : Expire(s, k)
        \/ \E i \in Instance : Restart(i)
        \/ RedisChanges

KeySpec == KeyInit /\ [][KeyNext]_keyVars

-----------------------------------------------------------------------------
(***************************************************************************)
(* Properties                                                              *)
(***************************************************************************)

\* Each store lets one request per key through for as long as it keeps the
\* key: Redis for all instances together, an instance for itself.  So with
\* Redis reachable throughout, a key is used once.
OneGrantPerKey ==
  \A s \in Store : \A r, t \in granted[s] : KeyOf[r] = KeyOf[t] => r = t

\* A request runs only if some store reserved its key for it, and it did so
\* before the request ran: without the header, none does.
HandledWasGranted ==
  [][\A r \in Request : stage'[r] = "handler" /\ stage[r] # "handler" =>
       \E s \in {Redis, at[r]} : r \in granted'[s] /\ KeyOf[r] \in reserved'[s]]_keyVars
=============================================================================
