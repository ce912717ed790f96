# Verification of the live-streaming backend

The repository is the backend of a live-streaming platform in Go: an HTTP and
websocket API over PostgreSQL and Redis, with wallets, gifts, deposits and
withdrawals, creator tokens and prediction bets, paid calls, bookings, accounts
and moderation, chats and videos, live streams with battles, schedules and a
websocket hub, and background workers. This directory models the parts of it where
several requests, goroutines or servers meet over shared state, checks the
models with TLC and proves theorems about them with TLAPS.

`PROJECT.json` is the index: the components, the runs, the definitions and the
lines of code they stand for (`map`), a plausible bug for every property that the
property catches (`mutants`), disagreements found (`findings`), and what is hard
to test in this code (`hazards`). Paths below are relative to the repository root.

    tlc -workers 2 -config WalletLedger.cfg MCWalletLedger   # one run
    tlapm ServiceProofs.tla                                  # one proof

1. [The system](#1-the-system)
2. [The modules and the code](#2-the-modules-and-the-code)
3. [The runs](#3-the-runs)
4. [Fairness](#4-fairness)
5. [What is proved](#5-what-is-proved)
6. [Where the code and its words disagree](#6-where-the-code-and-its-words-disagree)
7. [What is not modelled](#7-what-is-not-modelled)
8. [Plan](#8-plan)

## 1. The system

The server is one Go binary (`main.go`) and may run in several instances. State
lives in PostgreSQL (a pgx pool), in Redis (caches, counters, locks, channels)
and in the memory of an instance (websocket hub, worker queue, tickers, the
fallbacks for a Redis that does not answer).

A use case (`internal/usecase`) calls repositories (`internal/repository`). A
repository call is one SQL statement, or two; it runs in a transaction only if a
caller put one into the context with `RunInTx` and the repository looks for
it there. Four facts follow, and most of the hazards with them:

* The wallet repository looks for the transaction; the repositories of
  withdrawals, gifts, agencies, paid calls and bookings do not, and write on the
  pool although a transaction is open around them.
* Many use cases that move money never call `RunInTx`. Their `SELECT ... FOR
  UPDATE` locks a row for one statement only.
* Statuses are read, compared in Go and written back unconditionally; a row lock
  or a `WHERE status = ...` is the exception.
* Most updates write the whole row, from a copy read earlier: users, streams,
  battles, schedules, occurrences, messages, videos, moderation states.

### Components

| Component | State | Operations | What makes it hard | What makes it correct |
| --- | --- | --- | --- | --- |
| Wallets (`repository/wallet.go`, `usecase/wallet.go`) | `wallets`, `transactions`, `wallet:balance:*` in Redis | credit, debit, freeze, unfreeze, open on first use, read through the cache, in a caller's transaction or alone | row locks, deadlocks, COMMIT without an answer, a cache invalidated before the commit | nobody overdraws; a transaction happens whole or not at all; the ledger's rows match; the cache recovers |
| Deposits and frozen withdrawals (`usecase/payment.go`) | `payments`, `transactions`, `wallets`, the callback key | request a deposit, gateway callback, request a withdrawal, approve, reject | duplicated and reordered callbacks, no transaction anywhere, undoing by hand | one credit per paid order; frozen money backs every pending withdrawal; money is conserved |
| Creator withdrawals (`usecase/withdrawal_usecase.go`) | `withdrawals`, fee audits, `wallets`, daily counters in Redis, auto-approval | request, approve, reject | rows written on the pool inside a transaction of another connection, settlements that overlap, counters read early and raised late | a debit has its row; status and money agree; limits; no wait for ever on connections |
| Worker pool (`pkg/worker/pool.go`) | channel, closed flag, worker goroutines, retry goroutines | submit, run, retry with backoff, shut down with a time limit | submitters, retries and the closing of the channel | no send on a closed channel; every accepted job is settled once |
| Idempotency middleware (`pkg/wallet/idempotency.go`) | keys in Redis or in a map | reserve a key, serve, expire | Redis that comes and goes, several instances, restarts | a store lets a key through once |
| Creator tokens, predictions (`usecase/creator_token.go`, `prediction.go`) | `creator_tokens`, `user_tokens`, `predictions`, `prediction_bets`, `wallets` | buy, bet, resolve | the token or prediction is read without a lock | money and tokens balance; pools are the sums of the bets; one settlement |
| Paid calls (`usecase/paid_interaction_usecase.go`, `delivery/call_ws_handler.go`) | `call_sessions`, `wallets`, ticker goroutines | request, accept, bill a minute, end | whole rows written back from stale copies, several tickers, failures passed over | the shown charge is the charge; the host earns his share; a settled call is free |
| Gifts, experience (`usecase/gift.go`, `revenue.go`, `leveling.go`) | `gift_transactions`, `wallets`, two hashes of experience, `users` | send a gift with a split among host, agency and platform; flush the experience | a transaction tried three times on any error, rows outside it; a hash read and deleted in two commands | a gift is charged whole, once per commit; experience arrives once |
| Paid rooms, toys, shows, AI chat (`monetization_usecase.go`) | `show_requests`, `ai_chat_sessions`, messages, `wallets` | enter, tip, submit, accept, reject, chat | status read outside the transaction | what was had was paid; one payment per request |
| Bookings, offers (`booking_usecase.go`, `offer_usecase.go`) | `bookings`, `host_offers`, `user_offers`, `wallets` | book, book an offer, offer, answer, end | check, debit and insert are separate | a booking is paid; no slot twice |
| Lucky bags, wheel (`lucky_bag.go`, `wheel.go`) | `lucky_bags`, claims, spins, inventory, `wallets` | create, claim, spin | credit before the unique constraint, limits counted before the insert | shares add up; one claim a viewer |
| VIP, families, clip plans (`vip.go`, `royal_family.go`, `clip_subscription.go`) | their rows, `wallets` | subscribe, renew (job), enter, leave, contribute | stale totals, a job that runs again | a membership was paid for; seats and totals |
| Users, verification, bans (`user.go`, `kyc.go`, `dashboard.go`) | `users`, `kyc_verifications`, `banned_users`, the profile in Redis | register, change, verify, ban, report | whole-row updates, a ban in several statements | a ban outlasts what was under way; the cache follows the row |
| Sessions, rate limit (`auth.go`, `jwt.go`, `pkg/ratelimit`) | refresh tokens, blacklist, token bucket | login, rotate, log out, a request | rotation in two statements, clocks of several servers | a refresh token is exchanged once; an access token that was logged out with is out; the rate holds |
| Moderation (`moderation.go`, `moderation_report.go`) | moderation states, keys in Redis, image queue | judge a message, escalate, override, appeal, lift, scan, decide | one row with many writers | a ruling stands until it is lifted |
| Payout methods, crypto (`payout_usecase.go`, `crypto.go`, `crypto_monitor.go`) | methods, addresses, indices, transfers, attempts | create, change, delete, choose; derive, withdraw, count confirmations | limits and indices read before the insert | one primary method; limits; an address is one user's |
| Agencies (`agency.go`) | applications, agencies, hosts | apply, decide, found, invite, accept, remove | reads that fail on NULL columns, check before insert | a host works for one agency; who was removed stays out |
| Private chat (`private_chat_usecase.go`) | conversations, messages, reactions, unread counters in two places, blocks, mutes | start, send, read, react, view, expire, block, mute | messages written back whole by viewers and a job | one conversation; exact counters; what should disappear does |
| Rooms (`message.go`, `voice_room.go`) | chat rooms, participants, voice rooms, roles | open, join, speak, leave; stage | a count before a write, errors ignored | a room per stream; places on the stage |
| Media (`vod.go`, `drm.go`, `short_video.go`, `comment.go`, `like.go`) | videos, files, keys, tokens, shorts, comments, likes, counts | upload, transcode, publish, watch, delete, clean; like, comment | a job that outlives changes of its row, counters beside rows | visibility stands; the deleted stays deleted; counts count |
| Streams, signaling (`stream.go`, `webrtc_handlers.go`, `signaling.go`) | `streams`, sessions, counters, host key, peers | create, start, end, change mode; sockets of hosts and viewers; the timer of an absent host | two ids for a stream, whole-row writes, timers that outlive their reason | an ended stream stays ended; the counter counts; a host who is back goes on |
| PK battles (`pk.go`) | `pk_battles`, active keys and scores in Redis | invite, accept, reject, ask (which moves it on) | stale rows, keys that outlive battles | an active battle scores |
| Schedules (`schedule.go`), waiting rooms (`waitroom.go`) | schedules, occurrences, subscribers, reminders, rooms, counts | create, change, cancel, refill, remind, link; wait, talk | regeneration against cancellation, a goroutine for each count | cancelled stays cancelled; counts reach the row |
| Websocket hub, broker (`hub.go`, `client.go`, `pkg/broker`) | clients, rooms, settings, channels, subscriptions, mutes and kicks | register, chat, moderate, broadcast, stop | maps changed under a read lock, channels closed twice, a broker that changes mode, statements whose errors count as "no" | no panic; heard once and in order; the silenced are silent |

What is left is queries, calls of external services, code that nothing constructs,
and records written by one statement; `PROJECT.json` lists each with its reason.

### How they interact

* Every use case that moves money calls the wallet repository, directly or through
  `WalletUseCase`; the wallet row is what concurrent requests contend for.
  `WalletStore` is that row in all modules.
* The payment gateway and the clients' websockets call in, as often and in any
  order they like; the gateway's word is the environment of `Payment`.
* HTTP handlers for financial POSTs pass the idempotency middleware first, then the
  rate limit, the token, the ban checker.
* A ban is written by verification, reports, administrators and strikes, and looked
  at by the middleware and by `StartStream`.
* Jobs (experience, transcoding) go through the worker pool; `main.go` starts it
  before the handlers are registered and stops it after the database is closed.
  Tickers of `main.go` (renewals, reminders, refills, expiry, confirmations, viewer
  counts) are calls like any other, that may overlap with themselves in another
  instance.
* A gift in a live stream scores in the battle of the stream and earns experience. A
  stream that starts is linked to an occurrence of a schedule near it; reminders open
  the waiting room of an occurrence.
* A paid call is driven by HTTP requests, by websocket messages and by the tickers
  these start, all on the same `call_sessions` row.

## 2. The modules and the code

There are ten worlds, each a state space of its own; a world has one `MC` module
and one configuration for its passing run.

| World | Modules | Stands for |
| --- | --- | --- |
| `WalletLedger` | `WalletStore`, `WalletLedger`, `AtomicLedger`, `ServiceProofs` | the `wallets` rows and statements of `repository/wallet.go` under READ COMMITTED with row locks; `usecase/wallet.go`; what a caller may rely on |
| `Payment` | `Payment` over `WalletStore`, `PaymentProofs` | `usecase/payment.go` with the handler of the callback |
| `Withdrawal` | `Withdrawal` over `WalletStore`, `WithdrawalProofs` | `usecase/withdrawal_usecase.go`, `repository/withdrawal_repository.go` |
| `TokenMarket` | `TokenMarket` over two instances of `WalletStore`, `TokenMarketProofs` | `usecase/creator_token.go`, `usecase/prediction.go` and their repositories |
| `PaidCall` | `PaidCall` over `WalletStore`, `ServiceProofs` | `usecase/paid_interaction_usecase.go`, `delivery/call_ws_handler.go` |
| `WorkerPool` | `WorkerPool`, `JobQueue`, `ServiceProofs` | `pkg/worker/pool.go`, and what it promises for one job |
| `Idempotency` | `Idempotency`, `ServiceProofs` | `pkg/wallet/idempotency.go` |
| `Marketplace` | `Requests` over `WalletStore`; `Gifts` (also lucky bags and the wheel), `PaidRooms`, `Memberships`; composed in `Marketplace` | what is bought with a wallet |
| `Accounts` | `Calls`; `Users`, `Moderation`, `Payouts`, `Agencies`, `Chats`, `Rooms`, `Media`; composed in `Accounts`; `AccountProofs` | who users are, what they may do, what they write and publish |
| `Live` | `Calls`; `Streams`, `Schedules`, `Hub`; composed in `Live`; `StreamProofs`, `LiveProofs` | what happens around a live stream |

`SumLemmas` has the facts about sums and counts that the proofs about money share.
`ServiceProofs` is about four worlds that share no name but those of `WalletStore`:
this is why the definitions of `WorkerPool` begin with `Pool`. `AccountProofs` is about the
sessions, the rate limit and the rooms of `Accounts`. The proofs about `Live` are in two modules, `StreamProofs` (what each call does, the chat of the room,
the streams) and, on top of it, `LiveProofs` (schedules, waiting rooms, battles).

### WalletStore

`row[u]` is the committed wallet, `ver[u]` its newest version, `lock[u]` the
transaction that holds the row. `Seen(p, u)` is what a statement of `p` reads:
its own version if it holds the lock, the committed one otherwise. That is READ
COMMITTED as far as single rows go; the code never asks for another level.
`SelectForUpdate`, `Write`, `Commit` and `Rollback` are the statements; with
`inTx` false the lock ends with the statement and the write is committed at once,
which is how `DebitBalance` and its siblings run when the context carries no
transaction. The check the Go code makes (`Covered`) and the CHECK constraints of
the table (`CheckOK`, from `migrations/005_monetization.sql`) are apart: the first
runs on what `SELECT` returned, the second on what `UPDATE` finds.

### WalletLedger and AtomicLedger

A request runs a *plan*: a sequence of wallet calls, in one `RunInTx` transaction
or each on its own. The plans of the run are the ones the use cases have: a gift
(debit sender, credit receiver, credit agency), a bet or a withdrawal (one debit
in a transaction), a minute of a call (debit and credit, no transaction), a
deposit, a freeze, showing a balance. Each call is the sequence of steps of
`usecase/wallet.go`: look into the cache, look into the table, create the wallet
(or lose the race to create it), fill the cache, `SELECT ... FOR UPDATE` and check,
`UPDATE`, insert the row in `transactions` (an error of which is logged, and
aborts the surrounding transaction), delete the cache entry. A transaction may
fail at `COMMIT`, its answer may be lost, a connection may be lost at any step,
and PostgreSQL picks a victim in a deadlock.

`AtomicLedger` knows nothing of rows, locks, caches or statements: a transaction
either moves all its money in one step, with no wallet overdrawn, or nothing. The
mapping sends `row` to its `wallets` and, for each request, the calls that took
effect *and are committed* (`Progress`) to its `progress`.

### Payment

Every statement of `RequestDeposit`, `HandleCallback`, `RequestWithdrawal`,
`ApproveWithdrawal` and `RejectWithdrawal` is an action; `Stops` lets a request
end between any two of them, and where an error may hide a success (an INSERT
whose answer is lost) both outcomes are there. The gateway settles an order once,
and calls back about any order as often as it likes, with a code that may lag
behind what it knows (`"01"` pending after the payment). `code[p]` holds what the
code compares: the result code, or the verdict of an administrator. `overlap`
records the orders and payouts two requests found pending at the same time; the
properties that hold only without overlap name it, so that they say exactly which
interleaving the code does not survive.

### Withdrawal

A request checks two counters in Redis, opens a transaction (a connection of the
pool), checks and debits the wallet in it, inserts the withdrawal and its fee
audits *on the pool* (`ConnectionFree`, committed at once), commits, and raises
the counters. A settlement reads the status on the pool, credits in the
transaction, writes the status on the pool, commits. `Abort` rolls back the
wallet and leaves what the pool wrote. Small payouts go on to be approved in the
same call. `torn`, `overlap` and `uncounted` are history: statuses whose money
was rolled back, settlements that overlapped, users with a request the limits did
not see in time. Percentages of fees are data: a payout has its gross amount and
the agency's fee.

### TokenMarket

A purchase, a bet and a resolution are one transaction each. The token, the
prediction, the holdings and the bets are rows as the wallets are, so they live in
a second instance of `WalletStore` and share its locks, rollback and visibility;
a transaction that deadlocks or fails lets go of both. What a request read without
a lock (`supply`, `bets`) is a variable of its own, which is how the model keeps
what the code trusts until it commits. Both currencies of a bet are there, and the
pools add them up, as the code does. Payouts use the integer division of the code.

### PaidCall

One `call_sessions` row, and per request or connection the copy of it that it read
and has not written back. The actions are the statements of `RequestCall`,
`AcceptCall`, `EndCall` and `ProcessBillingTick`. "answer" is the websocket message
`call:accept`, which starts a ticker whatever `AcceptCall` returned; "accept" is
the HTTP route, which starts none. A tick reads the session, debits, credits the
host, adds to the totals *of its copy* and writes the copy back. The error of the
debit ends the call; the errors after it are passed over, as in the code. A minute
is abstracted: a ticker that waits may tick at any time. The row per tick in
`call_billing_ticks` is left out: nothing reads it. The agency's 20% is credited
to the wallet of the agency's id, which belongs to no user, so nothing is
received: for the model it leaves the caller and reaches nobody.

### WorkerPool and JobQueue

The channel, the closed flag under its mutex, each worker's place in its loop,
each retry goroutine, and `Shutdown` as mark, close, wait with a time limit and
cancel. A submit looks at `isClosed` and sends in two steps, with the read lock in
between. `JobQueue` is the life of a job: new, waiting, running, done, discarded,
refused, or lost on its way back into the pool. `JobState` maps the pool to it.

### Idempotency

Two or more instances, one Redis that answers or does not, and per instance the
map it falls back to. `SETNX` may take effect although its answer is an error.
Keys expire (24 hours), instances restart and forget, Redis may lose its data.

### Requests, and the marketplace

`Requests` is the engine of the use cases that check, pay and record. A request
reads what it needs and checks it in one step (its reads are adjacent statements;
what matters is that they are *before* the rest), and then runs a *plan*: the
sequence of statements its use case has, each in the transaction of the request, if
it opened one with `RunInTx`, or by itself. Debits and credits are the ones of
`repository/wallet.go` over `WalletStore`, with row locks, deadlocks, CHECK and
COMMIT; a label that begins with "try" is a call whose error the code ignores. A
statement may fail for no reason of its own, before or after its effect, at most
`Faults` times; the answer to a COMMIT may be lost. A read whose error the code ignores
may fail too, and the request goes on as if there were nothing to find (`BeginBlindly`,
`Ignore`): so do the counts of gifts and spins, the active VIP row, the family of a user
and its seats, the plan a promotion is for. `met`, through `Alone(p, q)`,
tells the requests that overlapped; `moved` is what a request has changed in the
wallets. The four modules say which plans there are:

* `Gifts`: the split of `revenue.go` (integer division, the agency only for its
  hosts), the transaction tried three times (`GiftTx`, `Error`), the row on the pool
  beside it (`GiftRow`). The host's relation, the agency's rate and its owner are read
  on the pool in the middle of the transaction with their errors ignored: the split is
  then the one without an agency, or at the default rate, or the agency's part is paid
  to nobody (`Split`, `AgencyOwner`). The rate limit counts the gifts of a sender in a
  room, in a key that goes after a minute (`CountGift`, `MinutePasses`); outside a room
  there is none. A gift in a live stream queues experience; a flush is
  `HGETALL`, `DEL`, and one goroutine per field that adds it to the user
  (`leveling.go`).
* `PaidRooms`: one transfer per entry, tip, accepted show or chat message, with the
  status of a show read outside the transaction. Bookings, in the same module:
  overlap check, debit, INSERT, without a transaction; when the agency of the host cannot
  be read, its fee is left out of the price. `GetBookingByID` and
  `GetUserOfferByID` scan columns that the INSERT leaves NULL into strings, so each
  of them returns an error and every answer is refused: that is an action here
  (`Answer`), not an assumption.
* Lucky bags and the wheel, in `Gifts`: a bag is decremented atomically (`DecrementRemaining`), the viewer
  credited, the claim inserted; a spin is counted, paid, recorded and credited.
* `Memberships`: VIP rows and the hourly job that lists those about to end and
  renews them, passing over a row it cannot renew and reporting a renewal whose INSERT
  failed (`tryVip`); families with seats, contributions and a total written back from what
  was read; clip plans that expire when they are looked at.

### Calls

`Calls` is the engine of the two other worlds: calls without money. A call begins
with its reads and checks (`Begin`, `Refuse`, `Return`), then runs its statements one
at a time, holding what it read (`seen`), which is what the code's local variables
and whole rows are. A statement may fail, and the call ends there or goes on if the
code ignores the error (the `Ignored...` sets list the statements whose errors are
dropped or only logged); there are at most `Faults` failures. `past[p]` is the calls
that had ended when `p` began, from which `Before` and `Overlap` are defined: the
properties that hold only for calls one at a time say so with it. `Tick` moves the
clock that keys, tokens, timers and dates are compared with; it stops when no call
that reads it is left.

### Accounts

* `Users`. `account[u]` is the row; `UpdateUser` writes the row that was read, and so do
  verification, permanent bans and submissions (`SaveUser`), none of which drops the
  copy in Redis (`Writing`).
  Verification and bans act on the same rows in as many statements as the code has:
  insert the ban, set the role, end the stream, refuse the next one in the
  middleware and not in `StartStream`.
* Sessions, at the end of `Users`. A token is its claims: user and second, so two
  pairs of one second are equal. `RefreshToken` finds the row not revoked, revokes
  it by id, mints a pair, stores it. A request bears either token of a pair, as the
  middleware takes any token that is valid (`Bearer`, `Life`); a logout is such a
  request (`Route`), denies the token it came with and revokes the refresh token. The
  denial is looked up by the token (`denied`). The bucket is the script of `limiter.go` with
  the clock of the server that asks (`ahead`).
* `Moderation`. `state[u]` is one row, written by judged messages (with strikes that
  escalate along `ModRule`), overrides and the ticker that lifts what has ended.
  Mutes and bans also are keys in Redis (`SetKey`). Images are taken from a queue by
  a scan and decided by administrators.
* `Payouts`. The partial unique index on the primary method (migration 019) is part
  of `WriteMethod`. Deposit addresses take the last index of their chain plus one, and
  every chain but Bitcoin and Solana derives like Ethereum (`Family`, `Address`); the
  monitor adds one confirmation per run to what it can look up.
* `Agencies`. An application has no `rejection_reason` until a review writes it, and is
  read into a string, so that no application can be read: nobody is refused a second
  one, and each review fails (`ReviewHost`). The relation of hosts has the primary key
  and the partial unique index of the table.
* `Chats`. `unread` is the column and `unreadKey` the key, changed in two statements.
  A view of a view-once message wipes it in the row it read; the job wipes expired
  ones.
* `Rooms`. Chat rooms with their participants; the stage of a voice room, whose
  speakers are counted before the role is written.
* `Media`. `vod[v]` is the row, `files[v]` what the storage has. The transcode is a
  job of the pool: it reads the row, runs ffmpeg, uploads, writes the row back, and
  is retried by the pool after a failure (`RetryTranscode`), when its temporary file
  is gone. Playback tokens, watermarked files named by user, shorts, comments and
  likes with their counts.

### Live

* `Streams`. A path holds the id of a stream or of its room, and signaling rooms and
  counters are named by the one it held (`Way`). A host's socket sets a key, becomes
  a peer, serves, and on its end clears the key and starts the timer of 30 seconds
  that ends the stream of a host who is not back (`RejoinTimer`, `EndGone`). A
  viewer's socket is a peer, then a session, then a count, and the reverse.
  `SyncCounts` copies counters to rows.
* Battles, at the end of `Streams`. `GetPKStatus` is what moves a battle on, as late
  as it is asked; keys and scores are statements of their own after the row.
* `Schedules`. Dates are generated from a rule, inserted with ON CONFLICT DO NOTHING,
  cancelled, reminded of by tiers, marked missed, linked to a stream, of which those who
  subscribe are told (`LinkSchedule`).
* The waiting rooms, at the end of `Schedules`. One goroutine knows who waits; each
  change starts a goroutine that writes the count it was given (`counting`). Its
  statements may fail and it goes on: no row is taken to be there (`LookForRoom`), or the
  count is lost (`LoseCount`).
* `Hub`. One goroutine `Run` with the queues `register` and `unregister` and the
  channel of messages; `handlers` are the subscriptions' goroutines, which send and
  close under the read lock. `crashed` is a panic: a channel closed twice or sent to
  when closed, or maps written by two. The key of the room in `rooms` is a variable of
  its own (`open`): the last socket to leave takes it away, a kick or a handler that
  drops the last socket does not, and only the entry of the key subscribes
  (`HubRegister`). A message is chat, of another type (no level gate, no slow mode), or
  a command of the host: mute, kick, pin, settings. The time of a mute is that of the
  command, 0 is without end, and a later one replaces an earlier one (`SetKey`). Each
  message may meet one statement that fails (`Statement`), after which `Run` goes on
  as if the key were not there or had been set.

## 3. The runs

All runs are exhaustive. A passing run explores the whole state space of its
instance; a run marked *violated* checks one sentence of the code or its
documentation, which TLC refutes (section 6). Where a property is a conjunction its
parts are named in brackets; each part is commented where it is defined.

| Run | Instance | States | What it shows |
| --- | --- | --- | --- |
| `wallet_ledger` | 2 requests, every pair of 11 plans; wallets (3,1), (1,0) and a user without one | 88 thousand | `ImplementsAtomicLedger`: every interleaving, failure and lost answer is a behaviour of the atomic ledger. `CheckStillHolds`: inside a transaction the CHECK constraint is never what stops an overdraft. `LedgerRowsMatchMovements`. `RequestsSettle`: requests end, deadlocks included, and the cache becomes fresh |
| `payment` | 4 requests: a deposit and its callbacks, two withdrawals and their settlements, or two of each | 95 thousand | `BooksHold` [a double credit needs an overlap; what is credited was paid; money is conserved], `PendingIsBacked`: frozen money backs what is pending |
| `payment_duplicate_callback` | the same | *violated* | `CreditedAtMostOnce` |
| `withdrawal` | 3 requests; one payout settled twice, or three payouts against limits of two | 249 thousand | `BooksHold` [balances are what committed movements make; no debit without a row; status and money agree outside `overlap` and `torn`], `DailyLimits` for requests one after the other, `RequestsEnd`: nobody waits for ever for a connection |
| `withdrawal_undone` | 2 requests, one payout | *violated* | `RowImpliesDebited` |
| `worker_pool` | 2 workers, 3 jobs, queue of 2, retries 2 and 1, a type without a handler at first | 75 thousand | The pool implements `JobQueue`; no send on the closed channel; a job is in one place; a graceful shutdown drained the queue; `PoolSettles` [accepted jobs are settled; workers end] |
| `idempotency` | 2 instances, 3 requests, one of them without a key | 24 thousand | Each store lets a key through once until it forgets it; a handled request was let through |
| `token_market` | 2 users, 4 requests, 6 mixes of them, supply 4 | 176 thousand | `BooksHold` [wallets and holdings balance; pools are the sums of the bets; the supply falls behind the sales only by overlap], `ResolutionExact` outside overlap, `RequestsEnd` |
| `paid_call` | 4 processes in 4 mixes, caller with two minutes and a half | 315 thousand | Totals are what was paid unless writers overlapped; the host earns his share of each paid minute; a settled call is free; every ticker stops and a billed call ends |
| `marketplace` | 3 users, up to 4 requests in 20 groups, one failure | 703 thousand | `GiftsAddUp` [a gift is charged whole, once per COMMIT; experience arrives once], `PurchasesArePaid` [rooms, bookings, bags and spins, memberships; the shares of a bag], `DuplicatesOverlapped`: what exists twice, or beyond a limit, was made by requests that overlapped, or after a read that failed and whose error is ignored |
| `accounts` | 3 users, up to 4 calls in 70 groups, one failure, a clock | 536 thousand | `SessionsHold` [tokens, rate], `RulingsStand` [bans, moderation, images], `ChecksHoldAlone` [payout limits, primary method, one agency for a host, cache, crypto], `MessagesHold` [conversations, counters, blocks, disappearing], `RoomsHold`, `MediaHold` [videos, likes] |
| `live` | 4 hosts and viewers, up to 4 calls in 39 groups, one failure, a clock | 1.1 million | `StreamsAddUp` [ended stays ended; the counter is the sessions; waiting counts reach the row], `AnswersStand` [an accepted battle scores; cancelled stays cancelled; the unsubscribed are left alone], `HubSound` [no panic without two readers; heard once and in order; the gone are forgotten], `TimerSparesHost`, `SilenceKept` |

### Properties with exceptions

Much of this code promises what it keeps only while nobody else is at it. A property
then has the form *P, unless X*, where X is the overlap of two named calls, a
failure between two named statements, or a history variable that records one. That
is a statement about the code and not a way to pass: X names the interleaving the
code does not survive, TLC shows that nothing else breaks P, and each X is
reachable, and does break P: with the exception taken out, TLC reports a violation
of the property in the same instance. Six exceptions need more than the instance has.
Four need a fifth call, with which TLC finds the violation: an invitation to a battle
accepted twice at once, a battle rejected and then reopened by a slow acceptance beside
another one of the host, and the end of an earlier battle that takes the keys of the
next (all of `ActiveBattleScores`), and two listeners who ask for the last place on a
stage (`StageHasPlaces`). A refund that fails after the INSERT it answers
(`MembershipsArePaid`) takes two failures, and a second request on a slow clock
(`GrantsWithinRate`) more requests than one user is given. Three of the shapes have
runs that show the violation itself; the others are described in section 6.

### Why these bounds

* **Requests and calls.** The hazards are a check and an act with something in
  between, so two requests reach them; three or four are used where a third party
  matters (a late callback after two that overlapped, a settlement next to two
  requests, two tickers and an end, a block while two start a conversation).
* **Groups.** Calls on tables that have nothing to do with each other commute, and a
  product of all of them would say no more. The worlds therefore run groups of calls
  that meet on a row, a key or a wallet; `Jobs` is a constant, and the specification
  does not know of the groups.
* **Amounts** are chosen so that both outcomes of each check occur: with (3,1) one
  plan of 2 is covered and two are not; 25 pays two minutes of 10; a supply of 4
  admits some of the purchases; limits of 2 payouts and 6 refuse the third; a bag of
  two shares meets three claims; a family of two seats a third member.
* **Failures.** One (`Faults = 1`) in each behaviour, at any statement that a
  call has still to run, and in `Marketplace` also at the reads before it whose errors are
  ignored; in `Hub` at those of `Statement`, in the waiting rooms at those of a message
  and of a count. That a first read fails whose error ends the call changes nothing, and
  is not told from a refusal. The exceptions name one failure. `MembershipsArePaid` speaks of two, the second being
  that of the refund.
* **Time.** `MaxTime` of a few ticks; each lifetime is one or two, so that before,
  at and after all occur.
* **Users.** Two users who pay each other reach the deadlock; the third has no
  wallet, for the race to create it, or is the one who registers.
* **Queue.** A queue of two and three jobs fills up and makes a retry find no room.
* Counters are bounded by the requests of the instance; no state constraint is
  used. `MCInit` of `MCPayment` and `MCWithdrawal` restricts what requests are
  about, never what they do. Symmetry is used only where no temporal property is
  liveness (`payment`).
* Deadlock is checked everywhere. A stutter step (`Finished`, `Stopped`,
  `Quiescent`, `Quiet`) is enabled only when every request has ended; in `Live` also
  when the hub has panicked or the clock has no call left to serve.

Each property has mutants in `PROJECT.json`, one for each of its parts: a definition
of the code changed as a bug would change it (a plain `SELECT`, a write on the pool
instead of the transaction, a dropped status check, a missing half of an update, a
hash read but not deleted, a blacklist not asked, a lift that lifts everything). TLC
finds the property violated under the same configuration.

## 4. Fairness

Liveness is checked under weak fairness of what the runtime schedules anyway, and
of nothing that depends on a client.

| Specification | Assumed to happen | Because |
| --- | --- | --- |
| `WalletLedger!LiveSpec` | the next step of a request that started; a deadlock is broken; a cache entry expires | goroutines are scheduled; PostgreSQL's deadlock detector; the time to live of 5 minutes in `usecase/wallet.go:65` |
| `MCWithdrawal!MCSpec` | the next statement of a request that started | the same; that a connection is free is *not* assumed, it is what `RequestsEnd` is about |
| `TokenMarket!LiveSpec` | the next statement of each request, deadlocks broken | the same |
| `PaidCall!CallLiveSpec` | statements of a request or ticker that runs, ticks included | `time.Ticker` ticks |
| `WorkerPool!PoolLiveSpec` | workers and retry goroutines go on, handlers return, a `Shutdown` that was called goes on, its timer fires | goroutines and `time.After`; that a handler returns is an assumption about the handlers: the context `process` gives them is cancelled only by a shutdown |

Weak fairness is enough although locks and the channel are contended: each request
is finite, so a row is let go for good by each of its holders, one after the other,
and the requests of an instance are finitely many. New requests, failures, lost
connections, restarts and the shutdown itself are never assumed.

`Marketplace`, `Accounts` and `Live` state no fairness and no liveness: their calls are
finite plans, TLC's deadlock check shows that a call that has begun can always go on,
and what should *eventually* happen there (a count reaches the row, a cache follows,
an expired message is wiped) is stated of the states in which nothing is under way.

## 5. What is proved

TLAPS proves the following for every value of the constants: any users, requests,
plans and amounts; any orders, payouts, fees and limits; any token, bonding curve and
bets; any workers, jobs, retries and queue length; any instances and keys; any price,
share and number of clients of a call; any hosts, viewers, streams, battles, schedules
and sockets, and any calls they make. Where a run checks the property too, its name
is in brackets.

| Theorem | Says |
| --- | --- |
| `ServiceProofs!TypeCorrect` | every variable of the wallet ledger keeps its type; since a wallet is a pair of naturals, no balance, committed or not, is ever below zero |
| `ServiceProofs!ChecksStillHold` [`CheckStillHolds`] | in a transaction, the balance check is still true when the `UPDATE` runs |
| `ServiceProofs!InvariantHolds` | the inductive invariant behind both |
| `ServiceProofs!RowsMatchMovements` [`LedgerRowsMatchMovements`] | no row of `transactions` without its movement; a transaction that committed has one for each credit and debit |
| `ServiceProofs!ImplementsAtomicity` [`ImplementsAtomicLedger`] | the statements, locks and rollbacks implement `AtomicLedger` |
| `PaymentProofs!PaymentBooksHold` [`BooksHold`] | money is conserved; what is credited was paid; a second credit of an order needs callbacks that overlap |
| `PaymentProofs!PendingStaysBacked` [`PendingIsBacked`] | frozen money covers what is pending |
| `WithdrawalProofs!WithdrawalBooksHold` [`BooksHold`] | balances are what the committed movements make; no debit without a row; status and money agree outside `overlap` and `torn` |
| `WithdrawalProofs!LimitsBoundTheDay` [`DailyLimits`] | number and amount of the day's payouts, for requests one after the other |
| `TokenMarketProofs!MarketBooksHold` [`BooksHold`] | wallets, holdings, pools and supply are what the committed purchases, bets and payouts make |
| `TokenMarketProofs!MarketResolutionExact` [`ResolutionExact`] | one settlement, of all the bets, outside overlap |
| `ServiceProofs!PoolTypeCorrect` | every variable of the pool keeps its type; the queue never holds more than its capacity |
| `ServiceProofs!PoolNeverPanics` [`NoSendOnClosedChannel`] | no submit and no retry sends on the closed channel |
| `ServiceProofs!PoolKeepsJobs` [`JobsHaveOnePlace`] | between submission and settlement a job is in one place, and in no two |
| `ServiceProofs!PoolDrainsGracefully` [`GracefulMeansDrained`] | a shutdown that returned in time left the queue empty and no job with a worker |
| `ServiceProofs!PoolImplementsJobQueue` [`ImplementsJobQueue`] | each step of the pool is, for each job, a step or a stutter of `JobQueue` |
| `ServiceProofs!StoresGrantOnce` [`OneGrantPerKey`] | a store lets one request per key through for as long as it keeps the key |
| `ServiceProofs!HandlersNeedAGrant` [`HandledWasGranted`] | a request with a key is handled only in a step that reserved its key |
| `ServiceProofs!CallTypeCorrect` | every variable of the call keeps its type; no wallet goes below zero |
| `ServiceProofs!SettledCallsAreFree` [`SettledCallIsFree`] | a settled call charges nobody and stays ended |
| `ServiceProofs!ShownIsPaid` [`TotalsMatchMoney`] | the charge shown is covered by what was paid, and is all of it when no writers overlapped and nothing failed |
| `ServiceProofs!HostIsPaid` [`HostEarnsShare`] | the host earns his share of each paid minute, once |
| `AccountProofs!SessionsDoHold` [`SessionsHold`] | a refresh token is exchanged once, and not after a logout; an access token that was logged out with is refused; the bucket gives what its rate and the clocks allow |
| `AccountProofs!RoomsDoHold` [`RoomsHold`] | one room to a stream; only members speak; the stage has its places; nobody joins what has ended; who joins listens |
| `StreamProofs!HubIsSound` [`HubSound`] | the hub panics only if two goroutines read its maps at once; messages are heard in order and once, unless the room was dropped and entered again; who is gone is forgotten |
| `StreamProofs!SilenceIsKept` [`SilenceKept`] | who is muted or kicked publishes nothing until the last mute and the last kick are over, but a pin of a muted host, while Redis answers and no statement has failed |
| `StreamProofs!HostIsSpared` [`TimerSparesHost`] | the timer of a host that left ends no stream of one that is back |
| `StreamProofs!EndedStays` (in `StreamsAddUp`) | an ended stream stays ended, unless a writer of its row overlapped the end |
| `StreamProofs!CountIsRight` (in `StreamsAddUp`) | the counter of a live stream is the number of its open sessions |
| `LiveProofs!CountsDoReach` (in `StreamsAddUp`) | while no statement has failed, the row of a waiting room has the number of those that wait, and the most there were |
| `LiveProofs!StreamsDoAddUp` [`StreamsAddUp`] | the three together |
| `LiveProofs!UnsubscribedAreLeft` (in `AnswersStand`) | who has unsubscribed is not told of a date or of its stream by a later call |
| `LiveProofs!BattlesScore` (in `AnswersStand`) | gifts score in an active battle on both sides until its keys expire |
| `LiveProofs!CancelledDatesStay` (in `AnswersStand`) | a cancelled date does not come back and nobody is reminded that it comes, unless a writer of dates overlapped |
| `LiveProofs!AnswersDoStand` [`AnswersStand`] | the three together |
| `LiveProofs!LiveIsTyped` [`TypeOK`] | every variable of `Live` keeps its type |

The assumptions are the named ASSUMEs of the modules (`StoreAssumption`,
`LedgerAssumption`, `PaymentAssumption`, `WithdrawalAssumption`, `MarketAssumption`,
`PoolAssumption`, `IdempotencyAssumption`, `CallAssumption`; in `Accounts`
`SessionAssumption`, `RoomAssumption` and, as in `Live`, `JobAssumption` and
`FreshAssumption`; in `Live` also `HubAssumption`, `StreamAssumption`,
`ScheduleAssumption`). They say that constants
are of the expected type, that no marker value is a proper one, that names of one kind
are not names of another, that what is summed over is finite, and that no plan is
empty; in `Payment`, `TokenMarket` and `PaidCall` every user has a wallet at the start
(that it may have to be opened first is in `WalletLedger`). Three say more, and the code
is why: what a call creates has an identifier of its own, generated by it
(`FreshAssumption`: in `Accounts`, no two calls create one voice room); a plan in a transaction has no call that
reads a balance (no use case asks for one inside `RunInTx`), and the amount of a
purchase or a bet is positive (both refuse `amount <= 0` first). TLC evaluates them in
each run.

**Sums.** The books are sums over users, requests, orders or bets, and the community
module defines a sum by recursion on subsets. `SumLemmas` derives what the proofs need:
that the recursion has a value on every finite set, from the well-foundedness of the
naturals (a set without a sum would have a minimal one); then how a sum changes when one
element is added or one summand changed, and the same for cardinalities. No module with
a theorem declares a RECURSIVE operator.

**The row lock.** `CheckStillHolds` is not inductive: it says nothing of who may
change the row between the check and the update. The invariant `IInv` adds that a
lock belongs to a request inside a transaction (`LocksBelongToTransactions`), that a
request about to update holds the lock of the row it checked and that row still
covers the call (`CheckedRowIsLocked`), that a row nobody locks has no uncommitted
version (`UnlockedRowsAreCommitted`), and that only movements reach the repository.
A write to a row needs its lock free or held by the writer (`RowWritten`), so nobody
else changes a checked row; the other lemmas say the same of rows not written
(`RowsUntouched`), of a request that fails, of a commit, and that a check passed in Go
implies the CHECK constraint (`CoveredPassesCheck`). The proof has a step for each
action of `Next`.

**The atomic ledger.** A transaction of `AtomicLedger` runs all its calls on the rows
of one instant, that of the COMMIT, while its statements have run over time on rows
others were changing. What connects the two is `Follows`: the calls made so far would
be allowed on *any* wallets that agree with the committed rows where the transaction
holds the lock, and would leave its new versions there and the rest alone. Quantified so,
it survives what others do to rows the transaction has not locked yet, and locking one
more row only narrows the wallets it speaks of. `Between` says where a
request is in its plan, and which calls since its last movement only read. At the
COMMIT, `Follows` with the rows themselves is the step of `AtomicLedger`; outside a
transaction the `UPDATE` is, and everything else is a stutter. The recursion that runs
the calls is a function over `0..Len(calls)`, and each proof unfolds one step of it.
`RowsMatchMovements` needs only where a request is between a movement and its row.

**Deposits and payouts.** In `Payment` no statement is in a transaction, so every wallet
is committed (`TableIsQuiet`). `CreditedWasPaid` follows from where a callback with
the code "00" may be (`CreditsArePaid`); that a credit is single needs, for an order
outside `overlap`, that one callback at most holds the pending payment, that one at
most has marked it and not yet credited it, and none when it is credited
(`CreditsAreSingle`). `PayoutsAreSingle` says the same of settlements, and the backing of
pending payouts and the conservation of money are then sums that one request at a
time changes. In `Withdrawal` a locked row differs from its version by the one
movement of the transaction (`LocksAreMoves`, `MovesAreLocked`); `SettledOnce` is the
life of a payout outside `overlap` and `torn`; the limits need what the counters have
seen of the requests of a user.

**Two stores in one transaction.** `TokenMarket` has up to two rows locked per request
and, in a resolution, as many as there are winners. `OwnBooks` says of each running
transaction that what it has locked differs from the rows by what it has changed
(`Change`: the cost, the stake, the shares paid so far) and that it has changed nothing
else; `OwnRows` says which of the token, the prediction and its bet it has written, and
what. A step of one request leaves both true of every other (`Apart`), a COMMIT moves
`Change` from the locks into the sums, a rollback drops it. What was read without a
lock enters in `PurchasesFit` (the supply a purchase read is no more than was sold, and
the recorded one while no purchase overlaps another) and `ResolutionsFit`.

**The channel.** `NoSendOnClosedChannel` needs the order in which `Shutdown` works:
closed implies marked, marked is what `Shutdown` did first, and once marked nobody is
between the look at `isClosed` and the send (`CloseOrder`), because marking takes the
write lock. `GracefulMeansDrained` needs the order on the workers' side: a worker leaves
its loop only when the channel is closed and empty or the context is cancelled, and
`Shutdown` cancels only after its time is up.

**The places of a job.** `JobsHaveOnePlace` counts places, and a step that moves a job
needs to know that it was nowhere else. The invariant `PInv` says it from the side of
the owners: entries of the queue are of different jobs and those jobs are queued
(`QueueOwns`), a worker that holds a job is the one that holds it (`WorkerOwns`), a
goroutine that sends a job owns it (`SenderOwns`), and every job that was accepted and
not settled has an owner (`Accounted`). The cardinality of the property follows, since
each of the sets it adds up has one element at most. With the places known, each
action of the pool leaves `JobState(j)` as it is or makes one step of `JobQueue` for
the one job it moves; the refinement has a step per action.

**The grant.** `OneGrantPerKey` needs that a store remembers what it granted
(`GrantedAreReserved`): a key under which a request was let through is reserved in
that store until the key expires or the store forgets, and then the grants of the
store are forgotten with it.

**The books of a call.** `SInv` says where copies of the session may be (`CopiesInUse`)
and that every wallet is committed, since nothing here runs in a transaction. For the
money, `BInv` adds `Shown` (no copy of the session shows more than was paid, counting
the minute its owner is about to add), `Minutes` (what was paid is a number of minutes,
what the host earned is a number of shares, and the ticks between the two make up the
difference) and `Booked` (without overlap or failure, the totals and the ticks under
way are what moved). `TicksMove` counts: a step of one session changes the number of
sessions at a set of labels by at most one. Steps that move no money are one lemma
(`NoMoneyKeepsBooks`); the debit, the credit and the writing of totals have one each.

**Calls.** The proofs about `Live` share one induction. `CallInv` says that jobs stay
what they are and that a call is only ever in the past of another when it has ended; so
`Overlap` is for ever (`OverlapStays`), and `Before` does not change once both have
begun. A step is that of one call, whose kind says which module it belongs to, and of
nobody else (`RestOf`); the lemmas about a module's steps (`StepsOfStreams`,
`StepsOfSchedules`, `StepsOfBattles`) turn `Next` into "one such call moves, or
nothing of this module does". For each kind of call an invariant says which statements
it may have left to run and what it holds for each: `StreamInv`, `ScheduleInv` and
`BattleInv`, where a plan is one of a few tails of the sequence the call began with,
and `TalkInv` for the sockets of the chat. Type correctness (`LiveIsTyped`) is their
conjunction, and needs all of it: that a row is written in its type depends on what was
read into `seen` statements before.

**Sessions.** In `Accounts` as in `Live` a step is that of one call (`CallSteps`); what it
does to the variables of a module and to its own plan is one of a few moves
(`SessionStepIsMove`, `SessionFaultIsMove`, `SessionsOrRest`), and each part of the
invariant `SessionsInv` is kept by each move. Without failures an exchanged token is
revoked, unless a call under way with it has stored an equal one, made in the same
second (`ExchangeInv`, `Remade`): an exchange that begins later finds it revoked. A logout
revokes as an exchange does, so the same invariant is about both. The key
of an access token that was logged out with lasts until the token does (`LogoutInv`,
`Spent`). Of a refresh token used as a bearer that is not so, since its key lasts as long
as an access token does, and the property does not say it. For the bucket, `BucketInv` is the balance of its
script: what it holds and has let through is no more than its capacity and what the
clocks it was asked with have let flow in, and each request sees a clock at most `Skew`
ahead (`SkewBounds`). Refilling is capped, so the balance is an inequality; it starts
when the bucket is first asked (`Filled`).

**The rooms.** `RowInv` orders the life of a voice room: it is created by one call, no
other creates it (`FreshAssumption`), nobody has asked for its stage before, and an end
that is done has left no active row. `MemberInv` and `SpeakInv` name the call by which a
member joined, with no leave after it. `OneRoomInv` names, for each room of a stream, the
call that created it, after which no call that began later has found none and is about
to create one; two rooms of a stream are then of calls that overlapped. `StageInv`
holds of voice rooms whose requests for the stage overlap neither each other nor the
creation: who has counted the speakers is alone between the count and the write,
so that the count is still right (`StageGrows` bounds what one write adds).

**The hub.** `HubSound` has three parts. That a panic needs two readers of the maps is
`ReaderInv`: with one handler at a time, the socket it found full is in the maps and is
the only one there whose channel may be closed (`OneReader`), which needs that a socket
comes by the queue once and has never been in the maps before (`QueueInv`) and that a
handler only sends to sockets it found there (`HandlerInv`). That all is heard in order
is `OrderInv`: while Redis answers and the room is not reopened there is one
subscription once the room is entered, its queue rises, and nobody has heard a number beyond what the queue and
the handler hold. That the gone are forgotten is `GoneInv`: the leave of a socket is
still in its queue. `SilenceKept` needs `SilenceInv`: while no statement has failed the
keys of mute and kick end when the last command said they would, be that later or
sooner than the one before.

**The streams.** `HostInv` says that outside `wasTwo` a stream has one host's socket on
its way at most, and that the key is set from then on until this socket clears it. The
end of a stream lasts (`EndInv`) because of every writer of the row that did not
overlap it we know what it holds: a copy that says "ended" already, or no copy of this
stream at all (`Spares`). `CountInv` counts sockets instead of sessions: a socket is
counted from the INCR after its session to the DECR after its close, and what a socket
closes is its own session (`SessionInv`), which is only so if the viewer has one
socket at a time (`OneEach`). The proof found that this exception was missing from the
property: both sockets of a viewer close one session and both count down.

**The waiting rooms.** While no statement has failed `RoomInv` follows the one count
under way: what its goroutine will write is the number of those in the room, and what it has not yet read is what the
last one left (`RoomRight`). A count that finds another of its room under way puts the
room into `untold`.

**The battles.** `ScoreInv` is about calls that meet. Of two acceptances of a battle
that do not overlap the second is refused (`AcceptedOnce`), a battle that is active has
nobody left who takes its keys (`DropsEnded`), two open battles of one host put the host
into `twice` (`OneBattle`), and an earlier battle of the same hosts has no call left
that writes their keys (`LaterApart`); so the keys set by the acceptance still name the
battle until they expire (`KeysNamed`). Two things came out of the proof and are in the
property now. A slow acceptance reopens a battle that was rejected meanwhile, beside
another one of the host: such a host is in two battles from then on. And the last
statements of a battle's end delete the active keys of both streams without a look at
what they name, so an end that overlaps the acceptance of the *next* battle takes its
keys. Both are behaviours of `usecase/pk.go`.

**The subscribers.** `UnsubInv` says that after an unsubscription that no subscription
followed, the viewer is not in the table and no run of reminders that began later has
logged one, nor has a start of a stream: the list of subscribers is read in the
statement that writes the log.

**The cancelled dates.** Every step of `Schedules` is summed up once in what it does to
the row, to the dates and to what its call holds (`ScheduleEffect`,
`StepsHaveEffect`). `KnownInv` says that no schedule has a row, a date or a call that
holds it before the call that makes it has begun, so nothing can write the dates of a
schedule that another has yet to insert. `CancelInv` follows a cancellation that no
writer of dates overlaps, while nothing fails: the row is "cancelled" or "live"
(`RowGone`), the date of a cancelled occurrence is in the table, so that a later
generation finds it and inserts nothing (`DateThere`), it is not to come (`DateGone`),
the reminders that it comes are of calls that had ended before (`RemindedBefore`), and later calls
neither insert nor remind of it (`LaterLeave`). A date of a cancelled *schedule* that
had begun is left as it is by the code, and by the property.

**Only model-checked.** Liveness under fairness and whatever speaks of ENABLED is
beyond the prover: `RequestsSettle`, `RequestsEnd` (both), `PoolSettles`,
`BilledCallEnds`. Every invariant and action property of `Live` is proved, and of
`Accounts` `SessionsHold` and `RoomsHold`. `RulingsStand`, `ChecksHoldAlone`,
`MessagesHold`, `MediaHold` and the type invariant of `Accounts` and the properties of
`Marketplace` are checked, not
proved: each is about plans and about which calls had ended when another began, and
needs of its module what the proofs about `Live` say of its modules first
(section 8).

## 6. Where the code and its words disagree

Two are runs that TLC refutes, with the sentence they contradict (`findings`).

1. **Two callbacks, two credits** (`payment_duplicate_callback`). `EXISTS` and `SET`
   of the callback key are two commands, the payment is read without a lock and
   updated whatever its status (`usecase/payment.go:117`).
2. **A withdrawal nobody paid for** (`withdrawal_undone`). The row is written on the
   pool inside the transaction of the debit and survives its rollback; an
   administrator may approve or refund it (`usecase/withdrawal_usecase.go:214`).

The others are exceptions that properties name, or actions of the modules that do
what the code does:

*Money.*

* A duplicate request meets the other store: each request decides for itself between
  Redis and the memory of its instance (`pkg/wallet/idempotency.go:54`; the README of
  the repository, line 378, promises otherwise). `OneGrantPerKey` is about one store.
* A first movement of tokens is inserted as it is, a negative one too
  (`repository/creator_token.go:172`), although line 180 says the balance does not
  suffice. Overlapping purchases of a token can together pass `MaxSupply`.
* A tick writes back the status it read before the end of the call
  (`usecase/paid_interaction_usecase.go:306`), which is active again although line 261
  says "session is not active". A call accepted over HTTP is billed by nobody; tickers
  do not survive a restart; the agency's part of a call is credited to a user who does
  not exist.
* `DebitBalance` without a transaction checks a balance nobody locks any more
  (`domain/wallet.go:60` promises row locking); with the CHECK constraint the call
  fails and nothing is lost.
* `ApproveWithdrawal` of `payment.go:212` returns the frozen money to the balance
  as `RejectWithdrawal` does; no route reaches either. A refund of a prediction
  passes an empty string as JSONB metadata. Bets in money and in tokens share the pools.
* The answer to a COMMIT that is lost makes the gift transaction run again
  (`usecase/gift.go:86`). `transactions.reference_id` is not unique, so the key it is
  given does not stop it.
* The errors of a gift's lookups are ignored (`usecase/gift.go:106`, 110, 125): a gift to
  a host of an agency then commits split as if there were no agency, or at a rate of 25,
  or without the agency's part, which nobody gets. Its rate limit ignores the error of
  `INCR` (line 62).
* Other errors of reads are taken for "nothing there", so that a second purchase passes
  the check although nothing overlaps: the spins of today (`wheel.go:52`), the active VIP
  row (`vip.go:50`), the family of a user and its members (`royal_family.go:72`, 83). A
  renewal whose INSERT fails is charged and reported as done (`vip.go:190`).
* Experience: two flushes that overlap count a hash twice; a gift queued between
  `HGETALL` and `DEL` is lost; errors of `DEL` and of the goroutines are ignored.
* Every answer to a booking or a user's offer is refused as "not found", since the
  reads scan NULL columns into strings; `EndSession` is said to release funds and
  does not.
* A clip plan is said not to stack, and does for two purchases at once; the host of a
  lucky bag pays the pool it names although shares are drawn anew for each claim.
* `ProcessExpiredVIP` renews a row again in each run of the hour, and rows long
  expired as well.
* Crypto: two users who ask at once share a derivation index; all chains but Bitcoin and
  Solana derive with the same path from indices counted per chain (`crypto.go:108`), so the
  first user of one and the first of another have one address; an attempt counts
  before it succeeds, and a failed `EXPIRE` leaves its counter for ever; the Bitcoin
  derivation dereferences nil parameters that `crypto.go:101` calls a default;
  withdrawals are never debited, broadcast only in a log line, and yet a Solana
  transfer completes by one confirmation per run of the monitor, although the comment
  before it says to wait for the chain. EVM rows stay pending; Bitcoin is passed over.

*Accounts and content.*

* A refresh token is exchanged twice by calls that overlap, or when the revocation
  fails (`usecase/auth.go:251`). `jwt:blacklist:<user>` is written and never read.
* The middleware takes a refresh token for a bearer (`middleware/auth.go:58`), and a logout
  denies only the token it came with, although the comment before it says "Logout
  invalidates tokens" (`usecase/auth.go:279`): with the other one of the pair the user is
  served until it expires. `LoggedOutIsOut` is about access tokens.
* A profile update that read the user before a ban writes the old status back. A
  report with a severe reason and no stream leaves the stream live. An approval
  never looks at `banned_users`. An administrator's ban leaves `is_verified` alone
  (`dashboard.go:88`), and a flagged submission that comes after it ends at the row of the
  ban, which is there already: who was verified before stays verified and banned.
  `BanOutlasts` is about bans for ever that ran to their end.
* Verification, permanent bans and submissions rewrite the user and leave the copy of the
  profile in Redis as it was.
* No host application can be read: `rejection_reason` is NULL (migration 005:15) and
  scanned into a string (`repository/agency.go:132`, 143). `ApplyHost` takes the error for
  "none" and refuses nobody (`agency.go:36`, although the line before says "Check if
  already applied"); `ApproveHost` and `RejectHost` always fail.
* The ticker lifts a permanent ban whose row kept the end of an earlier temporary one.
* `AcceptInvitation` inserts a host without an invitation; an invited or removed host
  always conflicts with the primary key.
* A server whose clock is ahead grants the time it is ahead, again and again.
* Two conversations of a pair exist when each starts one, as the constraint knows the
  direction only. The text of a view-once message is never wiped by its view. Wiping
  resets edit and view marks. A conversation whose messages have all expired cannot be
  marked as read.
* Rejoining a voice room demotes to listener; `RequestStage` makes a host a speaker
  and passes over a failed count.
* A transcode is ready although uploads failed; its retries find no file; its last
  UPDATE reverts a change of visibility, and it drops no cache entry. A watermarked
  file is shared by a user's videos. A failure of ffmpeg serves the segment without
  a mark.
* Counts of likes and comments never go down where the row does; an edit writes a
  deleted comment back.

*Live.*

* An ended stream is live again after any whole-row write that read it before.
  `StartStream` of a live stream resets its counter; `LeaveStream` finds a stream by
  its room only, so that who came by the other id is never counted down.
* The late close of a host's older socket clears the key of the younger one.
* `RejectPK` looks at no status, and an acceptance that read the invitation before
  reopens what was rejected; `Invite` looks at one of the hosts; the end of a battle
  deletes the active key whichever battle it names.
* Two sockets of a viewer in one stream share the session: each closes it and each
  counts down.
* The schedule tables have no migration. The overlap check fails for an empty id, so
  a one-time schedule is always refused. A changed rule cancels dates that then
  conflict with themselves and stay cancelled. A cancelled schedule that is updated has
  dates again. A reminder writes a stale row back; opening a waiting room sets its
  count to 0.
* The counts of a waiting room are written by goroutines in any order, the errors of
  EXISTS, UPDATE and INSERT ignored (`waitroom.go:243-266`); its clients are iterated after
  the lock was released.
* A host who is muted may pin a text, since commands are looked at before the mute
  (`hub.go:133`, 562); messages of another type than chat pass neither level gate nor slow
  mode (`hub.go:133-179`); a second mute may end before the first would have (`hub.go:518`).
* A kick that empties a room leaves its key in `rooms` (`hub.go:556`), and so does a handler
  that drops its last client (line 291). When the row of its stream cannot be read, a room
  has default settings and no host. `IsStreamRoom` (`hub.go:629`) compares one parameter
  with a uuid and with text, which PostgreSQL refuses, so that it says no to every room.
* The hub closes channels and changes maps under a read lock; a subscription outlives
  its room; registration and its end are two queues without an order; settings go with
  the last socket; the message that finds Redis down goes where nobody may listen.

*Start and stop.* `media_delete` jobs have no handler; database and Redis are closed
before the worker pool drains its queue (`main.go:208`).

## 7. What is not modelled

*Left out of modelled components:* `IssueToken` and `CreatePrediction` (the token and
the prediction exist from the start), what a host offers (`SetSchedule`,
`SetBookingType`, `CreateOB`), pledges in a waiting room, changes of rates and
settings, the peer of a host that `SignalWS` takes any user for with `role=host`
(`webrtc_handlers.go:81`), commands of the hub with a payload of another form, news of
the hub whose PUBLISH fails, the chat moderation the hub is never given, `RejectCall` and
other operations without a caller, the rows nobody reads
back, percentages of fees, wording of errors, notifications and logs. Which rule a
message breaks, what a scan finds, which prize is drawn and whether ffmpeg or the
storage succeeds are free choices. PostgreSQL is reduced to what the statements of
this code can observe: single rows, READ COMMITTED, row locks, constraints, deadlock
detection. Two connections of one request are told apart in `Withdrawal`, where
they are the point. Go's memory model enters where the code relies on it: `Hub` has
the read lock and the maps; an iteration of the waiting room's map without a lock is
taken as one read.

*Not modelled because it cannot happen in this version:* `UnlockChat` (its INSERT of
an empty recipient fails after the charge), missions (`TrackProgress` has no caller),
views of stories (an empty viewer id is refused), the social syncer, the expiry
worker of stories, the second broker, the paid chat middleware and the replicated
storage (none is constructed), deposits in crypto (neither polled nor credited).

*Not modelled because there is nothing to relate:* trending, recommendations, tags,
dashboards, onboarding, roles, push, locations, cutting clips: queries, external
calls, and records written by one statement. HTTP decoding, configuration, logging,
metrics and DDL are left out.

## 8. Plan

Done: money under contention (`WalletLedger`), money and the outside (`Payment`,
`Withdrawal`, `Idempotency`, `WorkerPool`), money and a second table (`TokenMarket`,
`PaidCall`, `Marketplace`), `Accounts`, `Live`.

Left to prove, in this order:

* Of the other modules of `Accounts`: what their calls hold (as `SessionsInv` and
  `RoomsInv` do), then `DecisionsStand` of `Moderation` and `UnreadIsExact` of `Chats`.
* Of `Requests`: that `past` and `met` only name requests that were there; then, of
  `Gifts`, that the parts of a split sum to the price for every price and rate
  (`PlatformFee`, `AgencyCommission`, `HostEarning`), and with it `ChargedWhole`.

Left to model: the order of `main.go`'s stops with the pool and the database as
components; `IssueToken` and `CreatePrediction` beside purchases and bets; the reads whose
errors are ignored in the other worlds (`pk.go:204-256`,
`paid_interaction_usecase.go:292`, `moderation.go:360-481`); the host's peer of
`SignalWS`.
