# Formal model of SaltanatbotV2

SaltanatbotV2 is a self-hosted trading workbench: a TypeScript backend that runs
paper and live robots, a PostgreSQL database with identities and work queues, a
SQLite store with the trading books, and a browser client. This directory holds
TLA+ modules translated from the backend's source, TLC configurations that
check them on small instances, and TLAPS proofs for arbitrary ones. Paths below
are relative to the repository, and `backend/` stands for `backend/src/`.

The subject so far is the **authoritative path of a paper-trading command**: a
client's request becomes a row in PostgreSQL, one fenced executor claims it and
applies it to SQLite, the robots it concerns trade, stop and restart around it,
and the server shuts down underneath all of it. It is the part where two
databases, a process that may die and several asynchronous actors must agree on
what happened exactly once, and where a unit test reaches least. Beside it
stand the other places where the system must do a thing exactly once although
processes die and answers are lost: the **research jobs** and the workers that
lease them, the **Telegram** messages that become commands, the **price alerts**
that look at each closed bar, and the **permits** under which a signed request
may go to an exchange.

## 1. Inventory

### Components, their state, and what makes them correct

| component | state it keeps | operations | hard behaviour | correct when |
|---|---|---|---|---|
| **Executor command queue** (`backend/database/executorCommands.ts`, `executorCommandRetention.ts`, the migration) | table `executor_commands`: status, attempt = lease generation, lease expiry, token, authorization, result | enqueue, claim, renew, acknowledge applied or rejected, recover exhausted, prune, read | concurrent claims on one snapshot, superseded fences, replies classified after the fact, retention inside another request's enqueue | one command of an owner applies at a time, only the latest claim decides, a decision is final, replies are true |
| **Fenced executor bridge** (`backend/database/executorBridge*.ts`) | the pump's current claim, loop, lifecycle, abort signal | start, pump, probe, authorize, apply, acknowledge, quiesce, close, submitAndWait | crash between the two databases' commits, lost answers, lost lease under a running callback, revocation between submit and apply | a mutation has its effect at most once, "applied" and "rejected" are true, every command is decided, nothing touches a closed store |
| **Paper portfolio store and handler** (`backend/trading/paperPortfolioStore.ts`, `paperPortfolioCommandHandler.ts`) | SQLite `paper_portfolios`, `paper_portfolio_epochs`, `paper_bot_allocations`, `paper_portfolio_mutations` | create, rename, set default, archive, create robot, start, stop, pause, resume, reset | a reset stops robots one by one and then settles ledgers that were moving | capital is conserved, settled capital stays settled, one default, no unseen change |
| **Trading engine: start, stop, resume** (`engine.ts`, `engineStopCoordinator.ts`, `engineResume.ts`) | map of running robots, stop coordinator, queues of market events, persisted status | start, stopSafely, stopNow, owner-wide stop, resume after restart | bindings checked before an await, immediate against safe stops, events handled after removal | a robot runs only on its own active capital, stored status is true |
| **Paper ledger** (`paperLedger.ts`, `paperLedgerController.ts`) | append-only hash-chained events, replayed to balance, positions, orders | append, replay, verify flat | conversion between floats and micros, two writers over one log | replay is what was traded |
| **Startup and graceful shutdown** (`server.ts`, `http/gracefulShutdown.ts`, `trading/routes.ts`, `identity/runtime.ts`) | stage of the shutdown, exit code, timers | boot order, signal, close hooks, force deadline | callbacks that never settle, a claim in flight when the abort is asked | the store closes last, the process ends, the exit code is honest |
| **Compute jobs and research worker** (`backend/jobs/`, `backend/workers/researchWorker.ts`) | table `compute_jobs`, artifacts, active executions by lease generation | enqueue, claim, heartbeat, cancel, complete, fail, retry, requeue, recover, retain, drain | result, cancel, expiry and recovery in any order; a claim from an old snapshot; shutdown against a poll under way | cancellations hold, only the live lease's holder ends a job, nothing is stranded or left leased, every job ends |
| **Price and screener alerts** (`backend/alerts/`) | `alert_rules` with their leases, revisions, durable states with the bar cursor, receipts, events | create, update, rearm, archive, claim, complete, defer, fail, recover | a claim from an old snapshot, a rule edited while its market is read, a lease taken over, an answer lost | each revision sees each bar once and in order, its owner is told of the first crossing only, no closed bar waits for ever |
| **Telegram** (`backend/notifications/`) | the consumer's lease and cursor, the journal of updates, bindings, confirmations, reply rows, delivery leases | poll, record, bind, ask, confirm, answer, revoke, deliver | two workers on one stream, commits whose answer is lost, a revocation between a settlement and its send | an update acts once and in order, a token acts once where it was asked for, an answer goes out once |
| **Execution permits and step ledger** (`trading/execution*.ts`, `database/executionStepLedger.ts`) | one-use permits, tombstones, durable steps | issue, hand off, consume, expire, revoke, reserve, prune | authorization read around three awaits, tombstones and reservations forgotten, a crash between consumption and request | a signed step is sent at most once, and never after a change the authority could have seen |
| **Emergency stop** (`trading/emergencyStop*.ts`) | gate, stored intent, reconciliation | arm, cancel orders, reconcile, release | live orders in flight race the gate | no order passes an armed gate |
| **Start gating and order exclusion** (`engineTenantRuntime.ts`, `keyedExclusiveLock.ts`, `engineOrderCoordinator.ts`, `liveRiskReservations.ts`) | owner epochs, suspended owners, keyed locks, reservations | suspend, start, reserve, release | three nested locks across awaits | no start of a suspended owner, no deadlock |
| **Live order lifecycle** (`orderLifecycle.ts`, `orderEventIngest.ts`, `reconciliation.ts`) | order state, journal | place, fill, cancel, reconcile | duplicated and reordered exchange events | filled quantity never shrinks |
| **Multi-leg intents** (`trading/multiLeg/`) | intent and legs | submit, compensate, recover | partial legs | a saga ends hedged or reported |
| **Order book synchronisation** (`orderbook/`) | snapshot, buffered deltas, sequence | subscribe, apply, resync | gaps, early deltas | a published book is gap-free |
| **Workspaces and their browser sync** (`workspaces/`, `frontend/src/workspace/remoteSync.ts`) | documents with revisions, tombstones, a tab's queue | save, pull, conflict, delete | edits during a flush, two tabs | no edit is lost silently |
| **HTTP admission** (`http/globalAdmission.ts`, `singleFlightGate.ts`) | lanes, bounded queue | admit, queue, time out, release | timeout, cancel and promotion in one turn | permits are never leaked |
| **Resource governor and feeds** (`arbitrage/upstream/`) | governor leases, connections | acquire, release, backoff | expiry against late release | the budget is never exceeded |
| **Identity and sessions** (`identity/`) | users, sessions, authorization revisions and epochs | log in, revoke, transition | revocation between check and use | see `RevokedNeverApplies` for its effect on commands |

The rest of the repository (exchange adapters, matching and strategy
arithmetic, arbitrage economics, market data parsing, gallery, onboarding,
genetic search, order-book research, shared packages, the user interface and
operational reporting) is listed with reasons in `PROJECT.json`.

### How the modelled parts interact

```
 API, Telegram        PostgreSQL                     one executor process
 +-----------+ enqueue +------------------+  claim   +----------------------+
 | clients   |-------->| executor_commands|<---------| FencedExecutorBridge |
 |           |<--------| (lease, fence)   |  ack     |  loop, pump, abort   |
 +-----------+  poll   +------------------+          +----------+-----------+
                         ^ authorization revision               | apply callback
                         | identity transitions                 v
                                                     +----------------------+
   server.ts: boot, signal, bounded drains, close -->| command handler      |
                                                     |  SQLite books        |
                                                     |  receipts            |
                                                     +----------+-----------+
                                                                | start / stop (awaits)
                                                     +----------v-----------+
                                                     | engine: robots trade,|
                                                     | stop, drain, resume  |
                                                     +----------------------+
```

* Clients and the executor share only the table: a client inserts a row and
  polls it; the executor claims, renews and acknowledges under a fence.
* The executor and SQLite share the receipt `paper_portfolio_mutations`, which
  is written in the same transaction as the mutation and is what a reclaim
  looks at before it does anything.
* The handler and the engine share the allocations in SQLite and the running
  map in memory; stops and starts are awaited callbacks during which the engine
  moves by itself.
* `server.ts` resumes persisted robots, then starts the bridge, then listens
  (`server.ts:78-79`); on a signal it quiesces the bridge first and closes
  SQLite only when the bridge has drained.

* API servers and research workers share only `compute_jobs`: a request is a
  row, a cancellation a mark on it, and a worker knows of the mark by its
  heartbeat or by the outcome of its last update. An administrator who disables
  an owner writes the same marks from the identity transaction.

* Notification workers share one consumer lease, the journal of updates and the
  reply rows. An update is recorded, acts and moves the cursor in one
  transaction; what it queues is an `executor_commands` row like any other, and
  a replies lane answers when the executor has settled it.
* Evaluation workers share `alert_rules`; owners edit the same rows from the API
  while a worker reads the market, and only the fence of the lease and the
  revision tell the worker that its rule is another one by now.
* The execution authority lives in the process of the engine, its step ledger in
  PostgreSQL: every await between them is a place where an administrator, the
  owner or retention may come first.

The hazards of all components, modelled or not, are listed line by line in
`PROJECT.json`.

## 2. Modules and the code they stand for

| module | code | role |
|---|---|---|
| `ExecutorRows` | `executorCommands.ts`, `executorCommandRetention.ts` | the table and each statement on it, as operators shared by the next two |
| `ExecutorQueue` | the same, seen by concurrent workers | splits claims and acknowledgements where PostgreSQL does |
| `ExecutorBridge` | `executorBridge.ts`, receipts of the store and handler | table, pump, SQLite receipts, authorization, crashes |
| `CommandPromise` | `docs/adr/0001`, `docs/PAPER_PORTFOLIOS.md` | what a client is promised: the abstract specification |
| `ExecutorLifecycle` | bridge lifecycle, `gracefulShutdown.ts`, `server.ts`, `TradingApi.close` | start, signal, drains, closing, exit |
| `PaperPortfolio` | store, handler, engine start/stop/resume | books, ledgers, robots, resets, restarts |
| `ComputeJobs` | `jobs/repository.ts`, `artifactRetention.ts`, `researchWorker.ts`, `researchWorkerShutdown.ts`, `postgresAdminOperations.ts` | the job table and the worker processes that lease its rows |
| `UpdateFeed` | what `ingressLane.ts` promises `commandBridge.ts` | updates act in order and once each: the abstract specification |
| `TelegramUpdates` | the update identifiers of `ingressLane.ts` | what the ingress and the commands share |
| `TelegramIngress` | `notifications/consumerLease.ts`, `ingressLane.ts` | the leased polling loops that implement it |
| `TelegramCommands` | `bindingService.ts`, `commandBridge.ts`, `confirmations.ts`, `repliesLane.ts` | bindings, the two-step control with its tokens, the answers |
| `CrossingAlerts` | `docs/ALERTS.md`, "Closed-candle semantics" | what an alert promises its owner: the abstract specification |
| `PriceAlerts` | `alerts/repository.ts`, `repositoryCompletion.ts`, `priceEvaluator.ts`, `evaluatorScheduler.ts` | rules, leases, evaluation and completion of price alerts |
| `ExecutionDispatch` | `trading/executionAuthority.ts`, `executionPermits.ts`, `executionStepDispatchLedger.ts`, `database/executionStepLedger.ts` | the way of a signed request to the network |
| `MC*` | | instances and symmetry sets for TLC |
| `*_proofs` | | theorems; `ExecutorQueue_proofs` begins with the lemmas the queue and the bridge share, `ExecutorBridge_proofs` also proves the refinement of `CommandPromise`, `Telegram_proofs` is about both Telegram modules |

### ExecutorRows

`row[c]` is the row of command `c`; status `none` is a row not yet inserted, and
`pruned` one that retention deleted, of which only what properties need is
remembered. A lease is a Boolean, true while `lease_expires_at` lies in the
future of the *database* clock, which is the only clock the statements compare
with; `ExpireLease` is that instant. The CHECK constraint
`lease_generation = attempt` and the fresh token of each claim make the fence
the pair `<<command, attempt>>`. `created_at` and `terminal_at` are ranks.

`Enqueue` is the whole transaction: prune, then replay or insert under the
owner's capacity. A replayed key with another hash and a full owner roll back,
pruning included, so they are no step. `Claimable`, `Before` and
`FirstClaimable` are the candidate query and its ordering. `FenceHolds` is the
WHERE clause of both acknowledgements. `RecoverExpiredLeases` rejects expired
rows with no attempt left, a batch at a time.

### ExecutorQueue

Each worker is a connection. A **claim** is one statement but two steps:
`ClaimSnapshot` reads under READ COMMITTED and locks its candidate (other claims
skip it), `ClaimUpdate` writes and meets the unique index
`executor_commands_one_applying_per_owner`, `ClaimNothing` is the index or the
try-lock refusing. The steps are split because two claims of one owner's
different commands can both pass the snapshot. An **acknowledgement** is two
statements, `AcknowledgeClaim` and, when it matched nothing, `Classify`; anything may
happen between. A worker keeps its fence for as long as it likes, repeats its
call, or forgets it.

### ExecutorBridge

`bridge` is the pump: `idle` → `claiming` → (`probe` →) `authorize` → `apply` →
`committed` → `decided` → `idle`. `Boot`, `PumpRecover` and `PumpClaim` are
`startInternal` and `pumpOnce`; `Probe` is `probeAppliedReceipt`, run only on a
reclaim; `Authorize` compares the revision and, except for commands from
Telegram, the in-process epoch; `ApplyMutation`, `ApplyWithoutEffect` and
`ApplyRefused` are `runMutation` with its receipt; `Acknowledge` is the fenced
update. `LoseLease` is a failed renewal and the abort it raises, `GiveUp` every
path that leaves a claim to expire. `Crash` keeps both databases and resets
epochs. `ClaimAnswerLost` and `GiveUp` from `decided` are answers PostgreSQL
committed or never received. `effects[c]` counts commits and is history only.

A *mutation* here is a command whose effect and receipt share one SQLite
transaction. Robot start and stop have their effect in the engine before the
receipt; they are `PaperPortfolio`'s subject.

### CommandPromise

Four variables: the slot a command was accepted for, whether it mutates, its
answer, and whether it took effect. `Answer(c, "applied")` requires the effect,
`"rejected"` forbids it, and no slot has two effects. `ExecutorBridge!Promise`
maps the answer to the row's status and code, and `done` to `effects`.

### ExecutorLifecycle

The bridge's `lifecycle`, `acceptingSubmissions`, `loopPromise`, `pumpPromise`
and abort signal, and the host's stage: booting, serving, stopping, two drains,
store, pool, exited. `awaited` is the set of promises a drain captured when it
began; the point of `StoreClosesLast` is that this snapshot suffices. A pump's
callback may never settle. `Signal`, `HttpCloses`/`ForceDeadline`,
`DrainSettles`/`DrainTimesOut`, `CloseStore` and `ClosePool` are the stages of
`createGracefulShutdown` and `TradingApi.close`, each of which may fail.

### PaperPortfolio

Tables `portfolio`, `book` (epochs) and `robot` (the bot with its allocation);
`ledger[b]` is what replaying the log of `b` returns, reduced to a balance and
whether risk is open. `runtime[b]` is the engine: `starting` covers the awaits of
a start, `stopping` those of a safe stop with the robot still in the map,
`draining` the same after an immediate stop took it out of the map. `late` holds
the robots whose queued market events outlive `stopNow`. `phase` orders boot,
`resumePersistedBots`, and the executor.

A mutation that is one transaction is one action (`Create`, `Rename`,
`SetDefault`, `Archive`, `CreateRobot`). Commands that await are several:
`StartBegins`/`StartEnds`/`StartFails`, `StopCommand`/`StopEnds`/`StopFails`, and
the reset: `ResetBegins` lists the allocations, `ResetLooksAt` stops one that
runs, `ResetCommits` or `ResetRejected` reads every ledger and settles in one
transaction. Between them robots trade (`Trade`, to any balance), are stopped by
an owner-wide stop, an emergency stop or a loss limit (`OwnerStops`, `StopNow`),
and the process ends (`ProcessEnds`). `LateTrade` is limited to robots with a
resting order, because the adapter prices orders from the running map and a
detached robot has none (`OnlyResting`).

What the module leaves out: receipts (they are `ExecutorBridge`'s); commands
quoting a stale revision, which are rejected without a change; pause and resume,
multi-leg robots and the legacy paths.

### ComputeJobs

`job[j]` is the row of request `j`; the columns that are compared with the clock
are folded into the status (`waiting` is queued with `run_after` ahead, `expired`
is running with its lease past), and `pruned` is a terminal row without
artifacts. The random lease token is the ordinal of the claim, which is all that
its freshness is used for. `earlier` is the order of the due jobs by `run_after`
and `created_at` (no statement writes `priority`). `phase`, `poll` and `lane` are
one worker process: the stage of its life, the poll with the claim it waits for,
and the executions.

`Again`, `Ended` and `Recovered` are what `retryOrFail`, the four endings and
`recoverExpiredLeases` make of one row; `Fenced` is the WHERE clause the endings
share. `PollBegins` recovers and then asks; a **claim** is two steps, because
`claim` chooses from the snapshot of its statement (`ClaimBegins`, which takes an
`OwnerHead`: of the jobs that meet the conditions of `owner_heads` the owner's
first) and locks the row later (`ClaimEnds`, which also sends the owner's other
jobs to the end of the line, `rotated`). By then
another transaction may have changed it, and PostgreSQL re-evaluates only
`id` on the new version: what the claim takes may be cancelled, running for
another worker or finished, and only the table's CHECK constraints (`Admits`)
stop it. `claimJobForExecution` looks at `stopping` again: `Launch` or
`GiveBack`. `Finish` is the first call of `finish`, whoever makes it (result,
error, time limit, heartbeat), `Write` or `WriteFails` the update it ends in.
`Signal`, `StopActive` and `Drained` are the shutdown, `Dies` a crash or the
forced exit. `ClaimIsLost` and `WriteFails` lose what PostgreSQL answered or
never got; `unsaved` remembers to whom that happened and is history only.

Abstractions: a heartbeat that renews changes nothing here, and one that is not
in time is `LeaseExpires`, which may strike a live execution; which rows
retention takes is free within its WHERE clauses. `Disable` cancels the owner's
queued and then the running jobs in two statements: a job that leaves `running`
between the two is missed by both. The model lets any leased job be missed and
run on, which is more than the code allows. A poll that has begun may send its
claim after the signal: in the code it has sent it just before. A job takes its
place in `earlier` when its statement commits, not when the statement read the
clock a moment before (`Reorder`); of several owners' heads a claim takes any.
The theorems use nothing of the order but its type.

### UpdateFeed and TelegramIngress

`consumer` is the lease row of `telegram_ingress_consumers`: holder, generation,
whether it is unexpired by the database clock, and the durable cursor. `poller[w]`
is a loop: `EnsureLease` renews or acquires, `Fetch` is `getUpdates` with the
loop's own cursor, which may be older than the durable one and which makes
Telegram forget what lies before it, `SettleBatch` the transaction that records
the batch, lets its new updates act and advances the cursor under the fence.
`SettleBatch` may leave the loop with its old cursor (the commit's answer was
lost), `FenceLost` and `RollBack` are the two ways it fails, `Release` is a
shutdown and `Crash` a death: the lease stays with `Gone`, a random holder nobody
has any more. What an update does is `TelegramCommands`' subject, and `times`,
which is history, counts how often it did it.

### TelegramCommands

It takes its messages from `UpdateFeed`: in order and each once. `Bind`, `Ask`,
`Confirm` and `Ignore` are one update inside the batch's transaction. A command
is named after its update, which is its idempotency key, a token after the
command whose answer carried it, a binding after the update that made it. The
replies lane is three steps, because others come between them: `PickRow` reads
the row, `SettleRow` marks it answered and may issue a token in one transaction,
and `SendRow` sends what was settled. `Suppress`, `DropRow` and the lanes' loss of
a row are its failures. The executor that settles the commands is `ExecutorBridge`;
here `Execute` stands for it.

### CrossingAlerts and PriceAlerts

A bar is the number of its opening, and bar `b` is closed once the clock is past
it. `book[r]` holds the revisions of a rule with the receipts and trigger events
each of them left, `state[r]` the durable state of each market scope, `line` the
rules that are due, in the order of `next_evaluation_at`. `Revise` is what `create`,
`update` and `rearm` share: a new revision, armed now, and a row whose lease is
gone. A **claim** is again one statement in two steps. `ClaimBegins` reads the
head of an owner with its revision, authorization and state; `ClaimEnds` locks
the row later and compares only its identifier again. By then the row may be
leased by another lane, whose lease it takes over, or have a newer revision,
which the statement's snapshot does not hold: then it returns no row although it
has written a lease, which nobody knows of (`Nobody`) until it runs out and
`RecoverExpiredLeases` takes it away. A row no longer active violates a CHECK, a
second leased rule of the owner a unique index (`IndexAdmits`).

`Complete` is `completePriceEvaluation`: the fence (`FenceHolds`: status, lease,
revision, authorization, all under the row's lock), the durable state as it was
claimed, one more bar and no receipt of it yet; then state, receipt, event and
the end of the lease in one transaction. `PutOff` is `deferPriceEvaluation` and
`failPriceEvaluation`. The branch of a completion that finds its bar recorded
already (`outcome: "duplicate"`) is left out, because no lane reaches it: the
state's revision must be the one claimed (`lockDurableState`, first), and the bar
a lane reads is then the one after the last that was recorded.

The lease's generation and random token are the identity of the lane that holds
it. A lane has one claim at a time, and one that drops its claim renames its
lease to `Nobody`, so that the lane's next lease is another.

`CrossingAlerts` says what all this is for: the revisions of a rule, each with the
bars it has looked at, one after the other from the bar it was armed in; an event
at the first bar that meets the threshold after one that did not, and nothing
more; and no look by a revision once replaced, or for an owner who may not act.

### ExecutionDispatch

One owner's calls to the authority. A call (`caller[c]`) goes through `Load` (the
first await: durable authorization), `Issue` (account, arming, capacity, the permit),
`Reserve` (the ledger's transaction, which prunes first), `Recheck` (the third
await), then `Handoff`, `Begin` (authorization again), `Settle` (the ledger
consumes), `Confirm` (and again), and `Dispatch`, which consumes the permit and
calls the network in one synchronous step. Private reads use no ledger. `live` is
what the process reads of arming and account: `Allowed` lets an order of a bot pass
only while live trading is armed, unless the order cancels or only reduces
(`Reducing`), which asks for an enabled account alone; reconciliations and emergency
stops ask for neither. `local` is the revision that each such change raises. The
claims of a permit stand for its digest: two steps are the same when they agree in
the intent and every revision. `active` and `tombs` are the broker's memory, gone
with the process; `ledger[i]` is the durable key and the reservation of an
intent: `late` is a reservation past its time, `gone` one that retention has
deleted, leaving the key. `StatementFails`, and the second branch of `Reserve` and
`Settle`, are answers of the ledger that are lost.

## 3. Model-checking runs

| run | instance | what it shows |
|---|---|---|
| `queue` | 3 commands of 1 owner, 2 keys, 2 receipts, 2 workers, 2 attempts, 2 active, 1 kept, recovery batch 1 | `OneApplyingPerOwner`, `RepliesTruthful`, `OnlyLatestClaimDecides`, `TerminalIsFinal` |
| `bridge` | 3 commands of 1 owner, 2 keys, 2 attempts, 1 crash, 1 revocation, 1 new epoch | `EffectAtMostOnce`, `RevokedNeverApplies` |
| `bridge_answered` | 2 commands, a Telegram mutation and a read, 2 crashes, room for 1 receipt, nothing revoked, no symmetry (liveness) | `KeepsPromise`: refinement of `CommandPromise`; `Answered` |
| `bridge_lost_ack` | 2 commands | counterexample to a sentence of ADR 0001 (section 6) |
| `lifecycle` | 2 requests, unbounded otherwise | `StoreClosesLast`, `NothingNewAfterSignal`, `ShutdownEnds` |
| `paper_robots` | 2 portfolios, 2 robots, amount 1, money up to 2, 2 epochs, 4 revisions of one portfolio and 2 of the other, 2 restarts | `RunningIsFunded`, `SettledMatchesLedger`, `CashConserved`, `StatusHonest`, `OneDefault` |
| `jobs_leases` | 1 job with a request id and 3 attempts, 2 workers of 1 lane, 1 stop or death, no symmetry (liveness) | `CancellationWins`, `NoneStranded`, `OnlyHolderDecides`, `DrainedLeavesNothing`, `JobsSettle` |
| `jobs_one_running` | 2 jobs of 1 owner in their order, 2 workers | counterexample to a documented limit (section 6) |
| `telegram_ingress` | 2 loops, 3 updates, 2 faults | `CursorIsTheJournal`; `IsFeed`: refinement of `UpdateFeed`; `UpdatesSettle` |
| `telegram_commands` | 3 messages in 2 chats of 2 owners, 1 binding code, 1 change of the first owner's role or status, 1 open token, 2 replies lanes | `OneActionPerConfirmation`, `ConfirmedWhereAsked`, `AnsweredOnceWhereAsked` |
| `price_alerts` | 2 rules of 1 owner, 2 lanes, 3 bars, 2 changes in all (revisions and authorizations), an enabled and a disabled definition, no symmetry (liveness) | `KeepsWatch`: refinement of `CrossingAlerts`; `BarsEvaluated` |
| `execution_dispatch` | 2 calls, 2 orders of which one only reduces, 1 change of authorization, 2 of local state, 2 permits, no tombstones | `DispatchedOnce`, `NoStaleDispatch` |

Each passing run also checks its module's type invariant, which carries the
capacities of the tables where they are one statement's to keep (attempts,
tokens, leases of an owner, headroom of the ledger).

Why the bounds are enough for the interesting cases:

* *Queue and bridge.* All rules are per owner and no statement relates two
  owners' rows except the claim order, so one owner is where contention is.
  Three commands on two keys give two competing commands and a resubmission of a
  key whose first command was pruned (one terminal row is kept, so the second
  decision evicts the first). Two attempts give a claim, a reclaim with the old
  fence still held, and exhaustion. Two workers are the holder and the usurper.
  One crash and one revocation may fall between any two steps. A second request
  hash only adds the conflict reply, which changes nothing. `bridge_answered`
  sets the receipt limit below the number of keys, so that it bites.
* *Lifecycle.* Its state is finite as it stands; two requests let one be
  accepted and one refused around the signal.
* *Paper.* Two robots let a reset stop one while the other trades, and two
  portfolios let one be promoted when the other is archived; two epochs are one
  settlement and what follows it; money to 2 with amounts of 1 leaves cash for a
  second allocation or a gain of the first.
* *Jobs.* Two workers are the holder of a lease and the one that claims it after
  an expiry, or from an old snapshot; three attempts are a retry, a retry of a
  retry and an exhausted job. No statement but the claim relates two jobs, in the
  order it takes and in the limit of one running job that `jobs_one_running` is
  about; two jobs are enough for a head and the one that follows it. One lane is
  enough for a claim that returns after the executions were collected, the race a
  shutdown must survive; the theorems hold for any number.
* *Telegram.* Two loops are a holder and its successor; three updates let a batch
  overlap the one before it; two faults are a loss of the lease and one more while
  its successor works. Three messages are a control, its confirmation and one more,
  which may be a second confirmation or a rebinding; one open token is the quota.
  Only the owner bound at the start changes role or status (`Changing`): the other
  is there to take over her chat.
* *Alerts.* Two lanes are a holder and the one that claims from an old snapshot or
  after an expiry; two rules of an owner wait for each other; two closed bars are a
  crossing. Two changes are the pairs that matter: a rule revised once, by an edit
  or a rearm; a rule and a change of its owner; two rules.
* *Permits.* Two calls on one order are the duplicate; two orders fill
  the broker and the ledger's base room, so that its headroom counts. Two changes of
  local state disarm and arm live trading again, under a permit or between two.
  With no tombstones the broker remembers nothing, the worst case for
  `DispatchedOnce`. Private reads, reconciliations and emergency stops are in the
  theorems and not in the run.

`CHECK_DEADLOCK FALSE` appears where the system stops (the process exits in
`lifecycle`) or where the bounds are used up (the paper runs: revisions, epochs
and restarts end; in the job runs all jobs are done, or the worker has gone; in
the Telegram, alert and permit runs the messages, bars or changes end). The
other runs check for deadlock: whatever happened, a loop
polls or a lease can expire.

Each property is backed by a mutant of the model listed in `PROJECT.json`: a
definition next to the original, marked *Mutant* in the modules, with a plausible
bug (a dropped comparison, a missing index, a probe skipped) that the property
detects.

### Fairness

`ExecutorBridge`: the supervisor restarts the process (`Boot`), the loop polls
for ever (`PumpRecover`, `PumpNothing`), a callback settles one way or another
(`Callback`, which includes giving up), and a lease nobody renews runs out.
`PumpClaim` is *strongly* fair: a poll may find the owner's advisory lock taken
by an enqueue and go away with nothing, but those transactions are short, so a
command that stays claimable is claimed in the end. Renewal of a lease by a
working pump is not interrupted by fairness: only abandoned leases must expire.

`ExecutorLifecycle`: only timers and the shutdown's own code are fair. Either
HTTP closes or the force deadline passes; either the drain settles or its
deadline passes; the store and the pool are closed (their queries have a 30 s
timeout, `backend/database/config.ts:124`). Nothing is asked of callbacks,
clients or PostgreSQL, so `ShutdownEnds` holds with a callback that hangs.

`ComputeJobs`: a worker that is up polls every 750 ms, every execution has a
wall-time limit and every statement returns or fails, so the worker's own steps
are weakly fair. `ClaimBegins` and `ClaimEnds` are strongly fair: a claim may find
the row or the owner's advisory lock taken, or its statement fail, but not each
time it comes round. A lease runs out only if no execution renews it
(`LeaseExpires(j) /\ Neglected(j)`). Nothing is asked of signals, deaths, owners
or administrators, and `JobsSettle` is stated for owners who stay active.

`TelegramIngress`: a loop never stops sweeping, a dead holder's lease runs out,
and neither Telegram nor the database fails for ever: `Fetch` and the settlement
of a batch are strongly fair, since a sweep may come away with nothing, but not
each time. Nothing is asked of chats or faults, and `UpdatesSettle` speaks of
every update the chats have sent.

`PriceAlerts`: every worker sweeps every few seconds, so recovery, a rule coming
due after its back-off and the end of a lease are weakly fair, and so is a lane's
return from a claim or a failed evaluation. Strongly fair are the claim's two
steps and the completion: a lane may find the row or the index taken, and a
provider may have no answer, but not each time; and a lane puts its claim off
while it still holds the fence again and again, because a lease of 60 s outlasts a
read. All these are stated for some lane, not for each. Owners, administrators and the
clock are free. The clock stops at its bound, and `BarsEvaluated` says that the
evaluators then have looked at all there is; while bars keep closing it depends
on rates, which the model does not have.

## 4. Proofs

Every theorem holds for any commands, owners, keys, workers, portfolios, robots
and bounds that satisfy the modules' assumptions (`RowsAssumption`,
`BridgeAssumption`, `PaperAssumption`, `JobsAssumption`, `IngressAssumption`,
`CommandsAssumption`, `AlertsAssumption`, `DispatchAssumption`: bounds are naturals,
finite sets where cardinalities are compared, `None` distinct from the values it
stands beside, each rule has an owner).
TLC evaluates the assumptions in every run.

**Command queue** (`ExecutorQueue_proofs`). The safety properties are not
inductive alone. `IInv` adds: a live lease belongs to an applying row
(`LeasedApplies`); a candidate locked by a claim statement is still as the
snapshot saw it and no two statements share one (`ClaimsStand`, `ClaimsApart`); a
fence is never ahead of the table (`FencesBehind`), which makes the next claim's
generation new; a worker that has answered does not hold the live fence
(`SpentFences`); an applied row names its receipt (`AppliedNamed`), so that a
rejection is never mistaken for it. `OneApplyingPerOwner` rests on the unique
index alone. Two more invariants concern admission: an owner has one stored row per
idempotency key (`OneRowPerKey`) and at most `maxActivePerOwner` active ones
(`OwnersWithinCapacity`). Every step but an insertion leaves each row where it was
(`Stays`: no identity changes, nothing comes back, nothing decided is active
again), and an insertion adds one row under what retention has left.
`OnlyLatestClaimDecides` and `TerminalIsFinal` are action
properties derived from it. Statements that grant no claim and accept no
acknowledgement are handled once, as *calm* steps, by the
lemmas at the head of the module, which the bridge uses too.

**Executor** (`ExecutorBridge_proofs`). The chain is: an effect and its applied
receipt are one transaction, so a command has had its effect exactly when SQLite
holds its exact receipt (`EffectsRecorded`), and it was claimed and is a mutation
(`EffectsClaimed`); receipts point to commands accepted for their slot
(`ReceiptsSane`, `RowsSane`); a reclaim probes first, so what is being authorized
or applied has had no effect (`FreshApply`); hence a decision is backed by the
receipt or by its absence (`DecisionBacked`), and it is acknowledged only while
the row still shows the claim (`ClaimUndisturbed`). `RevokedNeverApplies`
follows: every step leaves a stale, undecided command stale.

**Refinement** (`ExecutorBridge_proofs`, its last part). With `IInv`, each step of the bridge is
a step of `CommandPromise` or changes nothing a client sees; `PromiseKept` states
`Spec => KeepsPromise`.

**Lifecycle** (`ExecutorLifecycle_proofs`). `StageInv` says what each stage knows;
its heart is that during a drain whatever is in flight was captured by it
(`InFlight \subseteq awaited`), because a quiescing loop starts nothing.

**Paper portfolios** (`PaperPortfolio_proofs`). `RunningIsFunded` needs `Bound`
(an active allocation lies in the active epoch of an active portfolio), `Runs`
(a robot the engine holds has an active allocation) and `Serial` (only one
command awaits, and a reset about to commit has seen all its robots stop).
From these no trade reaches a settled ledger; `Stored` follows the persisted
status through starts, stops, failures and resumes. `NoChangeUnseen` is an
action property. `AlwaysOneDefault` adds that ranks of creation are distinct, and
takes the oldest active portfolio by well-founded induction on a finite set.
`OneEpochOpen` (`EpochsInOrder`: an active portfolio has one epoch open, the
current one) and `SettledOnce` (`ClosedForGood`: a closed epoch and a closed
allocation never change again) say what resets and archives leave behind.

`MoneyIsConserved` is about sums over a set of robots. `SumFunctionOnSet` is
defined by recursion, and the prover cannot use an induction theorem whose
hypothesis is an operator; but it can use a *set* of natural numbers that holds 0
and every successor, or a set of subsets that holds the empty one and is closed under adding an
element (`NatInductionSet`, `SetInduction`, both from a least counterexample). From
these follow that the recursion has one solution (`AdderExists`, `AdderUnique`), that
a sum splits off any element (`SumElement`), grows by what is added (`SumAdded`) and
depends only on the values summed (`SumAgrees`). The invariant is then
`CashConserved` with `Placed`: an allocation not yet settled has returned nothing,
and no robot is bound to an epoch that has yet to begin.

**Compute jobs** (`ComputeJobs_proofs`). The rows carry half of the invariant by
themselves: every update keeps `RowOK`, which gives `CancellationWins` and
`NoneStranded` whatever race led to the update. The other half ties rows to
workers: a live lease is *tracked* by its holder, in the poll just answered or in
a lane, unless the holder died or lost an answer (`TracksLeases`); who tracks
the row's token is its holder (`TrackerHolds`); no token lies ahead of its row
(`TokensPast`), so that the next claim makes all others stale; nothing runs after
`stopActive` (`NoLateRun`). Steps that raise no token and start no run are
handled once, as *quiet* steps; `ClaimEnds` is the only other one.
`ShutdownLeavesNothing` and the action property `HolderDecides` follow.

**Telegram ingress** (`Telegram_proofs`, its first part). Two facts make the invariant:
no loop's cursor, and nothing Telegram has forgotten, lies beyond the durable
cursor (`Behind`), and the journal and the effects are exactly the updates up to it
(`Prefix`). A batch starts, therefore, at or before the cursor, and the fence lets
it move forward only. `ImplementsFeed` maps each settled batch to a step of
`UpdateFeed` and everything else to a stutter.

**Telegram commands** (`Telegram_proofs`, its second part). `CommandsInv` follows
names: a command stands in the chat of its update, through a binding that was made
(`Asked`); a token is named after the control whose answer issued it and has its
binding (`Issued`); an action has used its token and agrees with it in binding and
authorization (`Confirmed`). Two actions of one token are then impossible, because
only an open token can be confirmed and a used one is never open again. For the
answers: a row a lane sends is marked and unsent (`Unsent`), no two lanes send the
same (`Apart`), and what was sent went once, to the chat that asked (`Sent`); the
mark `replied` is set in the transaction that hands the row to its lane.
`WithinQuota` counts the open tokens of an owner.

**Price alerts** (`PriceAlerts_proofs`). The invariant joins the row of the state in
force to the journal of the revision in force (`Follows`): its cursor is the last
bar seen, its eligibility what that bar met, and it has triggered just when the
owner was told. States are never ahead of revisions (`NotAhead`), so a new
revision starts afresh; a lease is on an active rule and an owner has one
(`Leases`); the line holds active rules, each once (`Queued`). A completion that
passes the fence therefore looks at the next bar of the revision in force
(`CompleteLooks`), whichever lane took over whose lease. From that one lemma
follow the refinement (`ImplementsPromise`: `Spec => KeepsWatch`, every other step
being a revision, a change of the rules in force, the clock or a stutter), the
journal itself as an invariant (`FirstCrossingTold`: bars in order without a gap,
at most one crossing, the last bar seen, and told of just that) and the action
property `ReplacedSeesNoMore`.

**Execution permits** (`ExecutionDispatch_proofs`). Past its reservation, an
intent has one carrier, whose key is durable and which has sent nothing
(`OneCarrier`): `Known` refuses every other call, whatever the broker and retention
have forgotten. A call past the ledger whose authorization is in force now had it
in force before (`InForceBefore`), because revisions only grow; so
`NoStaleDispatch` follows although the last check and the request are two steps.
`Headroom` counts keys and reservations of each kind against its room.

Every invariant and every action property the runs check, and the three
refinements, are proved (the abstract specifications state safety alone, so the
refinements need no fairness). Only model-checked are:

* `JobsSettle`, `Answered`, `ShutdownEnds`, `UpdatesSettle` and `BarsEvaluated`:
  liveness under fairness. Their proofs need `ENABLED` of the fair actions, which
  none of the installed provers expands, and well-founded arguments over temporal
  formulas.
* The counterexamples to `LostAcknowledgementReconciled` and `OneRunningPerOwner`.

Proved but not part of a run: `AppliedHasReceipt`, `RejectedByExecutorNeverApplied`
and `ClaimUndisturbed` of the bridge, `FencesDistinct` of the queue, `CleanExit` of
the lifecycle and `RevisionMoves` of the portfolios, which a stronger property of a
run or the proof itself covers; and `OneRowPerKey`, `OwnersWithinCapacity` of the
queue, `EpochsInOrder`, `ClosedForGood` of the portfolios, `ToldOfFirstCrossing`,
`OnlyInForceSees` of the alerts, which TLC found to hold on the instances of the
runs before they were proved.

## 5. What is proved and checked, in the code's words

* Two workers, a superseded worker and recovery can never decide one command
  twice or answer one another's acknowledgement as their own.
* Whatever dies between the SQLite commit and the PostgreSQL acknowledgement, a
  mutation is applied at most once per idempotency key, also after retention has
  deleted the row of the key's first command.
* An executor's "rejected" is final and true; "applied" has an exact receipt.
* A revocation reaches every command not already past its check, including
  those reclaimed after a restart that reset the in-process epochs.
* A retried submission never becomes a second command while the first is stored, and
  an owner's queue never exceeds its capacity.
* A shutdown ends and closes SQLite last, even with a callback that never
  returns, in which case it says so by its exit code and leaves SQLite open.
* A research job whose cancellation was requested never completes, fails or is
  queued again (a claim from an old snapshot may set it running, until its
  heartbeat or recovery cancels it), and a job put back into the queue can always
  be claimed, whatever races with what.
* While a job's lease lives, nobody but its holder ends it; a worker stopped in
  order leaves no lease behind, and every job of an active owner ends.
* A reset hands back exactly what the ledger says, and no queued event of a
  removed robot changes that ledger afterwards; no money appears or vanishes in an
  epoch, and an account once closed stays as it was closed.
* A Telegram update acts once and in order, whichever worker polls and whatever
  answers are lost; a confirmation token queues one action at most, in the chat,
  binding and authorization it was issued in; no answer is sent twice or elsewhere.
* Each revision of a price alert sees every bar once and in order and notifies at
  the first crossing only, also when a stale claim takes another lane's lease or
  leases a revision it cannot return; and such a lease holds the owner's rules
  back only until it runs out.
* A signed order reaches the network at most once, and never after a change of
  authorization that came before the ledger's consumption.

## 6. Disagreements with the documentation

**A lost acknowledgement.** `docs/adr/0001-execution-authority-and-system-of-record.md:61-62` says that when
the SQLite acknowledgement is present and the PostgreSQL one is lost,
"reconciliation acknowledges the existing result". `recoverExpiredLeases`
(`executorCommands.ts:388`) does not look at the receipt: when the lost
acknowledgement was the one of the last attempt, the command is rejected as
`executor_attempts_exhausted` although its receipt says applied. Run
`bridge_lost_ack` produces the trace: claim, crash or lost answer, reclaim,
commit, lost acknowledgement, expiry, recovery. This is why `CommandPromise` has
a third answer, `exhausted`, which promises nothing about the effect, and why
`RejectedByExecutorNeverApplied` speaks only of rejections by the executor.

**One running job per owner.** `docs/API.md:132`,
`docs/CAPACITY_100_USERS.md:194-195` and the test "never claims two running jobs
for one owner under concurrent workers"
(`backend/tests/computeJobsPostgres.integration.test.ts:44`) promise it. The
statement `claim` (`jobs/repository.ts:184-234`) looks for running jobs of the
owner in `owner_heads` and again in `eligible`, after a try-lock on the owner. But
all its parts read the one snapshot the statement began with: a claim of the
owner's that commits after that snapshot and before the try-lock has freed the
lock again and is seen by neither look. `owner_heads` takes the owner's first job
alone, so two claims that see the same rows want the same row, and one job runs
whether `SKIP LOCKED` leaves the later claim with nothing or it takes the row over.
The limit breaks only when the head changes between the two snapshots. Run `jobs_one_running` shows it: two jobs of one owner
wait; worker 1's statement begins, its head is the first; the first is cancelled;
worker 2's statement begins, its head is the second; both updates go through. Worker
1's row has a new version by then, but of its conditions only `id` is evaluated on
it, so that the cancelled job is claimed and runs until its heartbeat finds the
cancellation; the second runs beside it. No cancellation is needed where the head
was claimed, lost its lease and was put back between the snapshots: the old claim
takes it a second time. The twin of this statement in `executorCommands.ts` is
backed by a unique partial index (`executor_commands_one_applying_per_owner`), this
one by none. The test starts its two claims at once on rows that do not change, a
case in which the limit holds. No other property depends on it.

## 7. What is not modelled

* Input validation, canonical hashing and wording of errors: a request is its
  hash, and an invalid one never reaches the table.
* Two things that are in the models and that no property states: a callback may
  begin unaborted when the drain's deadline passed during its claim, before there
  was a signal to abort (`ExecutorLifecycle`; what is checked is that the store
  outlasts it); and a confirmed command may find that its portfolio has moved on,
  which the handler refuses by the revision (`NoChangeUnseen` is the premise).
* The hash chain and the arithmetic of the paper ledger, strategy decisions and
  the matching of orders: `Trade` may reach any balance. The conversion to micros
  is kept as the outcome `Unrepresentable`.
* Clock drift between database and process: the lease timer of the bridge is a
  nondeterministic `LoseLease`, which covers any drift.
* The legacy mode without PostgreSQL, whose gateway calls the handler directly.
* The authorization read is one step. In the code the snapshot and the session
  are two queries run together; the pair is compared field by field with what
  the command carries.
* Of Telegram: the delivery lane for alert notices, groups and rate limits as such
  (they are `Ignore` and `DropRow`), the wording of answers.
* Of alerts: screener alerts, the limits on reads within a sweep (a rule not
  admitted is `PutOff`), capacities other than the owner's enabled rules,
  retention of receipts and states, failure counts and the length of back-offs.
* Of permits: the classification of a request, runtime policies and the limits
  over all owners. No live adapter uses the authority yet: in production
  `exchange/signedRequestGate.ts:29-34` denies every signed request.
* Everything marked `not_modelled` in `PROJECT.json`, with its reason there.

## 8. Plan

Done: the executor path, in the order queue, bridge, promise, lifecycle, paper
portfolios; the compute jobs; Telegram ingress and confirmations; price alerts;
execution permits with the step ledger. Next, in order of what could go wrong:

| step | module | abstract specification | properties | theorems |
|---|---|---|---|---|
| 1 | `EmergencyStop`, `StartGating` | no order passes an armed gate | lock order, suspended owners, reconciliation ends | gate safety |
| 2 | `OrderLifecycle` | filled quantity and terminal states are monotone | under duplicated, reordered events | monotonicity |
| 3 | `TelegramDelivery` | a notice is sent at least once or dead-lettered | revoked bindings receive nothing new | fencing |
| 4 | `HttpAdmission`, `ResourceGovernor` | permits in use are within the limit | no leak under timeout, cancel, promotion | limit |
| 5 | `WorkspaceSync` | no acknowledged edit is lost | two tabs, flush against pull | revision discipline |
| 6 | `OrderBookSync`, `PaperLedger` (events), legacy gateway, pause and resume, multi-leg | | | |

Later proof work: extend `PaperPortfolio` to pause and resume under the same
invariant, and prove each new module's fencing argument with the calm steps of
`ExecutorQueue_proofs` and the quiet steps of `ComputeJobs_proofs` as patterns; sums
and counts can use the lemmas of `PaperPortfolio_proofs`.

## 9. Checking it

`tlc -config <cfg> <module>` for the pairs in `PROJECT.json`, and
`tlapm <module>_proofs.tla` for the proofs. With two workers `queue`, `bridge`,
`paper_robots` (1.4 million states), `execution_dispatch` (2.0 million),
`jobs_leases` (0.1 million, with liveness) and `price_alerts` (0.2 million, with
liveness) take two to three minutes each,
as does `telegram_commands` (3.6 million), the others a minute or less.
