# A verification of DCapX

DCapX is a small exchange: users and their agents place limit orders in spot
markets, a matcher trades them, and a double-entry ledger holds the money. This
directory models the parts of its server that keep state across steps: the order core,
and around it the authorisation of agents, rate limits, events, sessions and secrets,
the reconciliation worker and the streams. It checks the models with
TLC and proves theorems about them with TLAPS. Paths below are relative to
`src/apps/api/src/` unless they start with `src/`.

## The system

One Node process (Express) serves HTTP in front of PostgreSQL, reached through
Prisma. The web interface under `src/apps/web` is a client, `src/apps/api/dist` a
compiled copy, and the scripts under `src/scripts` patch and deploy.

| component | state | operations | interacts with |
|---|---|---|---|
| order rules (`lib/ledger/order-state.ts`, `time-in-force.ts`, `hold-release.ts`, `matching-priority.ts`) | none | statuses, transitions, remaining quantity, time in force, priority | called by everything below |
| submission (`lib/matching/submit-limit-order.ts`) | Order rows | admission, create, reserve, match, emit events, in one transaction | ledger, matcher, events |
| database matcher (`lib/ledger/execution.ts`, `lib/matching/db-matching-engine.ts`) | Order, Trade rows | walk the book, settle each fill, synchronise statuses, cancel remainders | ledger |
| holds and settlement (`lib/ledger/order-lifecycle.ts`) | LedgerTransaction, LedgerPosting | reserve, release, settle | posting |
| posting and accounts (`lib/ledger/posting.ts`, `service.ts`, `accounts.ts`) | LedgerAccount, LedgerPosting | balanced postings, account upserts | - |
| cancel (`routes/orders.ts`, `routes/trade.ts`) | Order rows | cancel an order | holds |
| demo fill (`routes/trade.ts`) | Order, Trade rows | fill two named orders | settlement |
| in-memory matcher (`lib/matching/in-memory-*.ts`) | a book per symbol and mode in the process | match, then settle in the database | ledger, serialized dispatch |
| serialized dispatch (`lib/matching/serialized-dispatch.ts`) | a promise per key | run tasks of a key one after the other | in-memory matcher |
| admission (`lib/matching/admission-controls.ts`), rate limit (`middleware/simple-rate-limit.ts`) | sliding windows and buckets in the process | admit or refuse | submission |
| mandates (`middleware/ibac.ts`, `routes/mandates.ts`), agents and keys (`routes/agents.ts`) | Agent, AgentKey, Mandate, MandateUsage, RequestNonce rows | create, rotate, revoke, issue; check a command, count its order | submission |
| matching events (`lib/matching/matching-events.ts`, `routes/matching-events.ts`) | log and next id in the process, MatchingEvent rows | emit, persist, stream, replay | submission, runtime status |
| idempotency (`lib/idempotency.ts`) | IdempotencyKey rows | claim, complete, clear | order routes |
| sessions, MFA, verification (`modules/auth`, `modules/verification`, `middleware/require-auth.ts`) | password, Session, MfaFactor, MfaRecoveryCode, challenges | log in and out, enroll, challenge, regenerate, verify, reset | all routes |
| reconciliation worker (`workers/reconciliation.ts`), runtime status (`lib/runtime`), process (`server.ts`) | runs in progress, last result, timers | periodic checks of the ledger, alerts, boot, shutdown | all tables |
| control plane (`infra/`, `routes/admin.ts`) | flags, modes and limits per symbol, in the process | set, merge, clear, tell | streams |
| market streams and candles (`routes/stream.ts`) | open streams | snapshot, push, end | control plane, orders, trades |
| invitations, referrals, onboarding, KYC, advisor, uploads, consents, notifications | profile tables | reads and single writes | - |
| market data (`routes/market.ts`), bot farm, legacy `engine.ts` | none of their own | read the tables | - |

What is hard here is concurrency over the database. Requests run interleaved at
READ COMMITTED, the matcher has no lock of its own, most checks are a read followed
by a write, the cancel routes read before their transaction begins, and any
statement may fail or time out and roll everything back. Around the core the same pattern
returns: a nonce, a mandate's usage, a password, a recovery code, a count of attempts
are read in one statement and written in a later one, and state in the process (windows,
event ids, flags) is lost at a restart or changes between two awaits. `PROJECT.json` lists
the hazards at their lines, with the property that covers each one or the reason none
does. Where the code does go wrong, no property covers it: *What the models show of the code*
has the counterexample instead.

What makes the core correct:

- money is only moved: nothing creates or destroys it, and no account is overdrawn;
- a hold is what the live order still needs, and ends with the order;
- an order never executes more than its quantity, its status follows from its
  trades, statuses follow the transition table, final ones stay;
- price-time priority, an uncrossed book, and time in force are obeyed;
- every request ends, and transactions do not deadlock.

And what is around it:

- a signed command acts once, limits bind, and a revocation is final;
- stored events are those of committed submissions, and neither streams nor readers
  have gaps;
- a reset ends the sessions of the old password, a secret works once, and a step-up
  belongs to a factor that is in force;
- a check of the ledger reports what is wrong in the span it looks at, and nothing else, and
  a process that is told to stop begins no new one;
- a stream obeys the flags, shows the mode in force, and its snapshot misses no open order
  within the depth and limits asked for; its candles are those of the trades.

## Modules

**OrderState** holds the pure rules. Quantities and prices are naturals of a unit
small enough that no rounding occurs (`HoldAmount`, `QuoteFee`, ...; the assumption
on `FeeBps` in Exchange says the fee is exact). Operators named `X_Y` are plausible
slips of `X`; they serve to show that a property notices them.

**Exchange** is the core: one symbol in one mode, all tables that submissions, cancels
and demo fills touch.

| model | code |
|---|---|
| `order`, `status` | columns of Order; a row exists for others once `status` is not `NONE` |
| `executed`, `bal` | sums over committed Trade and LedgerPosting rows, as `getOrderExecutedQty` and `getLedgerBalance` compute them |
| `refs` | committed LedgerTransaction references that are looked up before posting |
| `nextId` | the id sequence, which a rollback does not give back |
| `dExec`, `dBal`, `dRefs`, `wStatus` | what an open transaction has inserted and updated; `wStatus` also stands for its row locks |
| `pc`, `req` | where the handler is, and its local variables |

Actions: `Place`, `PlaceRefused`, `Match`, `CheckFok`, `FillMaker`, `SettleFill`,
`SyncRead`, `SyncWrite`, `LeaveLoop`, `CancelRest`, `Commit` are
`submitLimitOrder` over `executeLimitOrderAgainstBook`; `ReadCancel`,
`ReleaseHold`, `CancelWrite` the cancel routes; `DemoFill`, `ReleaseResidual`,
`Reconcile` the demo route, which shares settlement and synchronisation.
`Fail` is a statement that throws (its condition is `Throws`, per step), `Abort` a
stop, a lost connection or a timeout at any point; both roll back.

The grain: a step is a write with the reads right before it, or a group of reads whose
results only one decision uses. Merged are the status and the trades of one order
read together (`SyncRead`, `FillMaker`), the placement with its balance check and
posting, the postings of one settlement, and `reconcileOrderExecution` at the end of a
submission, which only reads and is a guard of `Commit`. So the model has fewer
interleavings than the code, and a violation it shows is one the code has. Left out:
creation of ledger accounts (they exist from the start), symbols and modes, metadata,
admission controls and events.

**ExchangeProperties** states what Exchange is checked for, **MCExchange** its symmetry
sets for TLC. **OrderLifecycle** is the abstract specification: orders as size, state
and filled quantity, advancing, appearing or resting; `ImplementsLifecycle` is the
refinement, by the committed part of Exchange. **ExchangeProofs** holds the proofs.

**InMemoryMatcher** composes Exchange (`Core`) with the optional matcher of
`in-memory-matching-engine.ts`. Its own variables are `book` and `known`, the book
of the process; `lane`, the clients that `runSerializedByKey` has queued for the symbol;
and `fills`, what `matchIncoming` returned and the loop after it has yet to settle.
`HandIn`, `MatchIncoming`, `FillMaker`, `LeaveLoop` and `LeaveLane` replace the walk over
the tables; placement, settlement, synchronisation, the cancel of a remainder and the cancel
routes are the actions of Core, which leave the book alone. `LeaveLane` comes before
`Commit` because the transaction is opened around the whole submission, and
`Rollback` undoes the tables and not the book. `Restart` empties the
book of a process that starts again. Left out: changing between the two matchers while
orders are open, and demo fills beside this matcher (`MatcherAssumption` leaves the
demo route to Exchange). **InMemoryMatcherProofs** holds the proofs.

**SerializedDispatch** models the promise chains of `serialized-dispatch.ts`: a task names
the promises its call makes, `lanes` is the map, `HandIn` the synchronous part, `Begin` the
call of the factory, `End` its settling, `Cleanup` the `finally` callback. **LaneQueue** is
what it promises, a queue per key; `ImplementsQueues` maps the tasks that have not ended,
ordered by arrival, to it. `ticket` and `arrivals` exist for that mapping and for
`InOrder` only. InMemoryMatcher uses the lane as such a queue.

**Idempotency** models `withIdempotency`: one step for each statement on the
IdempotencyKey table (`Find`, `Create`, `FindAgain`, `Complete`, `Clear`), one for the
handler (`Run`), and `CompleteFails`, `Crash` for failures. A retry or a duplicate is
another call with the same key. The handler is one step because its own transaction
is Exchange's business; whether it commits before a crash is left open (`Crash`).

**RateLimits** holds the two limits of the process: the bucket of `simpleRateLimit`, whose
window opens with its first request and counts refusals (`Hit`), and the sliding windows of
`consumeSlidingWindowLimit` for the user and the symbol (`TakesFromWindows`), in the order in
which the code consumes them. It also has the clock. `admitted` and `let` record what has
passed, for the properties.

**AgentTrading** extends it with one agent: its keys (`CreateAgent`, `RotateRevoke`,
`RotateCreate`, `RevokeAgent`), its mandates (`IssueMandate`, `RevokeMandate`), and commands
that it signs once and anyone delivers any number of times (`Sign`, `Deliver`). A delivered
command goes through `enforceMandate` and the route: `TakeNonce` inserts the nonce and deletes
old ones (the check of the timestamp before it reads nothing, and is part of the step), `Load`
reads agent, keys and mandates, `CheckUsage` the day's count, `Admit` is
`enforceAdmissionControls`, `Place` the commit of the submission, `Count` the increment after
it. `HumanOrder` is a user's own order, which meets the bucket and shares the windows. A
signature is the key it was made with and the market it names. The route that revokes an agent
does not look at its status; the model lets it only while the agent is active, since a second
revocation writes what is there.

**MatchingEvents** models a submission's events: `Match` builds and publishes them
(`Kinds`, `Publish`) before anything is stored, `Store` upserts one row after the other
inside the transaction, `Commit` makes the rows visible, `RollBack` does not take back
what was heard. `log` is the array of the process, `rows` the table, `Restart` begins a new
run with ids from 1. `OpenStream` sends the snapshot and subscribes in one step, as the
handler does; `ReadPage` is `GET /replay` after the last id of the page before.

**Sessions** models one account: password, sessions, factors, recovery codes and e-mailed
challenges. A handler is split where the code awaits between a read and a write that depends
on it: `Login` and `OpenSession`, `ReadToken` and `Reset`, `Confirm` and `Miss` or `Verify`,
`Activate`, `Change` and `FinishActivation`, `ChallengeTotp` and `Stamp`, `ChallengeCode` and
`UseCode`. `Logout` takes a live session; the code revokes whatever session the cookie names
(`auth.service.ts:251`), which changes nothing else for one that has ended. `held` are the
rows a transaction has locked. `missed` collects, for each request in progress, what others
have written since it read; with it the properties can say which overlap is the only
exception, and `late`, `stale` and `contended` record it.

**Operations** is the process: `Boot`, `Signal`, `Closed`, `Exit`, `ForceExit` of `server.ts`,
and reconciliation runs that the interval, the boot or an administrator begins. A run issues
its statements in any order that the four parallel checks allow (`Sum`, `ReadTrades`,
`ReadSettlements`, `ReadOrders`, `ReadFills`), any of which may fail, and ends in `Conclude`,
`Note` and `AlertEnds`. A run looks at the trades of its last thirty minutes only (`cutoff`,
fixed when it begins), at the newest `TakeTrades` of them, and at the newest `TakeOrders`
active orders: `Age` lets trades grow older than that, and a run that finds none passes the
check. Orders are placed and filled meanwhile; `Spoil` and a `Fill` that leaves something out
are the defects it is there to find. Its `OpInit`, `OpNext` and `OpSpec` are named apart so
that **ProcessProofs** can extend it and SerializedDispatch.

**ControlPlane** holds modes and flags per symbol, **Candles** the pure functions of
`stream.ts` (its loops are folds: `AddTrade` and `NextCandle` are their bodies), and
**MarketStreams** composes them with orders, trades and `GET /stream`: `Connect` runs to its
first await, `Read` answers the snapshot's reads in their order (`NextRead`), and `HearMode`,
`AnswerMode` and `HearFlags` are the listeners, which exist from the start of the stream.
`Book` takes `depth` orders of each side at level 3, and at level 2 the `depth` best prices of
the first `TakeRaw` orders; the two sides, which the code queries together, are read at once,
because no order is on both. `NewestTrades` takes the newest `limit` trades since `sinceMs`,
where the database may choose among trades of one time. `unseen` follows the orders that were
open when the stream began, and `beyond` records, read by read, those that were outside depth,
`limit` or `sinceMs` then; it is history, which no action looks at. Placing, cancelling and
trading an order are reduced to what is committed of them (Exchange has their steps).

Each of these has a module of properties, a module `MC...` and, where it has
theorems, a module of proofs (ProcessProofs for the two of the process).

## Runs

| run | instance | shows |
|---|---|---|
| `exchange_serial` | 1 client, 3 orders, 2 users, every time in force | `HoldsBackLiveOrders`, `NonNegativeBalances`, `BookUncrossed`, `FokAllOrNothing`, `PriceTimePriority`, `ImplementsLifecycle`, `TypeOK` |
| `exchange_locks` | 2 clients, 4 orders at one price | `NoLockCycle`: makers are taken in priority order, so no two transactions wait for each other |
| `exchange_overlap` | 2 clients, 3 orders, 2 prices, fees | `MoneyConserved`; `SubmissionsMoveTheirHolds`: a submission moves holds by exactly its fills and what it leaves resting |
| `exchange_liveness` | 2 clients, 2 orders, demo fills, every time in force | `RequestsEnd`, `TimeInForceObeyed` |
| `in_memory` | 2 clients, 3 orders, restarts | `NothingOfferedTwice`, `BookUncrossed`, `NoStandstill` |
| `dispatch` | 3 tasks, 2 keys | `InOrder`, `ImplementsQueues`, `TasksEnd` |
| `idempotency` | 3 calls, 2 keys, 2 payloads | `RunsAtMostOnce`, `AnswersItsPayload`, `CallsEnd` |
| `agent_trading` | 2 requests, 3 commands, 2 rotations, 3 other turns (signing, a rotation, a revocation, a restart, a user's order) | `ActsOnce`, `DailyLimit`, `RevocationsHold`, `NewestKeyWorks`, `WindowsBounded`, `BucketReopens` |
| `matching_events` | 2 submissions, 3 runs, a stream, a reader with pages of one | `StreamsFollowLog`, `RowsAreCommitted`, `ReplayComplete` |
| `sessions` | 6 requests, 2 at a time, new and established account | `ResetEndsSessions`, `StepUpIsCurrent`, `SecretsWorkOnce`, `AttemptsBounded` |
| `operations` | runs one after the other, 2 orders that age, 2 defects or failures | `VerdictsAreRight`, `NoRunAfterStop` |
| `market_streams` | 1 client of every kind beside 3 changes, or beside 3 orders at 2 prices and 2 trades, for depths 1 and 2, limit 1, with and without `sinceMs`; and all tapes of up to 4 trades over 3 periods, for a cap of 2 | `StreamsObeyFlags`, `LastControlIsCurrent`, `SnapshotMissesNothing`, `CandlesDescribeTrades` |

What holds only when requests do not overlap is checked with one client, what holds
regardless with two. Where a property has an exception (a contended secret, a late login, a
stream that was overtaken, a call whose answer could not be stored) the exception is recorded
at the step that causes it, so that the property says that nothing else goes wrong; without
the exception TLC finds the failure.

### What the models show of the code

Each of these is a counterexample TLC gives when the named property is checked in the
named way, or a fact about the source met while modelling.

In the order core, with two clients in `ExchangeSerial.cfg` (orders all GTC show the first two
more quickly):

- `ImplementsLifecycle`: a cancel that read an open order (`routes/orders.ts:161-173`)
  cancels it after it was filled; `lib/ledger/order-state.ts:28` says "FILLED and
  CANCELLED are terminal states."
- `ImplementsLifecycle`: two submissions read one maker before either commits
  (`lib/ledger/execution.ts:276`), and both fill it;
  `src/apps/api/test/matching.property-invariants.test.ts:296` says "never overfills seeded
  maker orders across randomized taker streams".
- `NonNegativeBalances`: two placements spend one balance
  (`lib/ledger/order-lifecycle.ts:100`); `workers/reconciliation.ts:101` expects "All account
  balances are non-negative."
- `FokAllOrNothing`: liquidity that the check has counted goes to another request.
- That a hold ends with its order is not true once demo fills are possible: one below the
  limit, followed by a cancel, leaves quote held by a finished order.

In the in-memory matcher a cancelled order stays in the book, and unlike the database matcher
it does not ask `canReceiveFills` before it trades a maker
(`lib/matching/in-memory-matching-engine.ts:68`): a CANCELLED order is traded, and settled as
long as its owner has another hold.

In `idempotency` the row of a call whose answer could not be stored is cleared although the
handler has run, so that a retry runs it again; and a call that looks for the row once more is
told of a mismatch that is none.

Around the core:

- `DailyLimit` allows one order more than `maxOrdersPerDay` for each further request in
  progress: the check and the count are three awaits apart. An order whose count failed or was
  cut off by a stop (`routes/trade.ts:86`) is not counted at all, and the count is booked on
  the day of the count, not of the check.
- A rotation that fails between its statements (`routes/agents.ts:89`) leaves the agent
  without a key. Neither a rotation nor an issue of a mandate looks at the agent's status;
  `RevocationsHold` shows that this brings no revoked agent back.
- Event ids begin at 1 with every process (`matching-events.ts:36`), so the rows of the run
  before are overwritten as new ones are stored. Ids are given before the commit, so a
  reader that follows `afterEventId` misses an event with a lower id that commits later;
  `ReplayComplete` therefore speaks of the rows that were there when it began.
- A login that has compared the old password opens its session after a reset
  (`auth.service.ts:154`). Challenges that overlap an activation or a regeneration stamp a
  session with a factor or a code that is gone. A secret read twice before either use works
  twice, and overlapping attempts are counted as one.
- A wrong code that is counted late writes PENDING over a challenge that was locked,
  cancelled or verified meanwhile (`verification.service.ts:113-119`). The branch that locks a
  challenge whose attempts are found used up (lines 103-109) is never taken, because whoever
  counted the last attempt has locked it.
- The reconciliation worker reports an order as inconsistent that was filled between its two
  reads (`workers/reconciliation.ts:218`). It reads the newest 200 trades of the last 30 minutes
  (lines 134-137) and the newest active orders: an unsettled trade fails the check while it is among
  them, and half an hour later the check answers ok. `VerdictsAreRight` therefore speaks of
  defects in sight (`InSight`), each kind with its own span.
- A signal that comes while `main` waits for its secrets stops a worker that is started
  afterwards (`server.ts:82`).
- `routes/stream.ts:318` clears a timer that is declared at line 433: flags that forbid the
  stream while its snapshot is read make the listener throw instead of ending it. A message
  about the mode that waited for its book arrives after a newer one. The book queries ask
  for status "OPEN" only, so a partly filled order is not shown. A snapshot is no deeper than what was asked
  for: an order behind `depth` orders or prices, or behind the 200 to 2000 orders that are read
  for level 2, is not in its book, and one that traded outside `limit` and `sinceMs` is not among
  its trades. `SnapshotMissesNothing` leaves out these orders (`OutOfDepth`, `OutOfLimits`),
  and fails if any of the five bounds is dropped from them. Nothing emits the `trade` and
  `orderbook` events the handler listens to.
- Candles are made of the oldest 20000 trades of their window (`stream.ts:211`). Beyond that the
  newest periods count as empty and repeat an old close; `CandlesDescribeTrades` speaks of
  the trades up to the cap (`Known`).
- `infra/symbolControl.ts:60` says "Trading HALTED: no new orders (cancels allowed).", but no
  route asks `isNewOrderAllowed` or the risk limits before it places an order.
- `app.ts:128` answers every unknown path with 404 before `/api/market/events`,
  `/api/admin/runtime-status` and `/api/admin/health` are mounted at its end. The models take
  those routes as their files define them.

### Bounds

Three orders are the fewest in which a taker meets two makers (priority, partial
fills, a fill-or-kill counted over two orders); four with overlap let two takers
share two makers, the only way to a lock cycle. Two prices make improvement and crossing
differ; quantities one and two make partial fills. The in-memory run has one price,
where every two opposite orders cross, because its hazards are of quantity and order
of steps. Two clients suffice for every race of a pair; races of three are not explored. Funds
cover the intended orders and no more, so that refusals happen; in `exchange_locks` they
cover one large buy, and two that overlap are both placed, each having read the
whole balance. `MaxOrders` bounds `nextId`,
and the model stops when the ids are used up, hence `CHECK_DEADLOCK FALSE`: with no
ids left and no live order every client may be idle for good.

In `agent_trading` the day has three ticks and the clock runs over its end; the nonces live
two ticks with a skew of one, the proportion `AgentAssumption` demands and the code's
constants exceed (600 s to 30 s). Two commands meet the limit of one order a day, a third is
the duplicate. The symbol's window admits fewer than the user's, so that a request is refused
after the first was consumed. In `matching_events` a second restart lets a reader meet rows of
three runs, and pages of one make it stop between any two rows. In `sessions` six requests are
a login, a request and a reset beside a second login, or an enrollment, activation, challenge
and regeneration; the clock's two values expire what can expire. One set of one code stands
for eight to twelve, since a code is used alone. In `operations` one run at a time is enough,
because runs share nothing but what they read; the caps are one, so that two orders and trades
exceed them, and a trade may grow too old before, during and after a run. In `market_streams`
all together would be too many states, so `MCSpec` takes the steps of `Spec` part by part:
changes of modes and flags while the market rests, the market beside a snapshot while
administrators rest, and tapes without streams. What a property relates lies within one part,
and the theorems are about `Spec`. Three changes are enough to forbid a stream, allow it again
and change the mode, or to let a message overtake two. Three orders are one more than depth
two shows; `TakeRaw` is two, so that level 2 with depth two reads fewer orders than it may
need (in the code 200 orders for at most four prices, 2000 for 40 and more); of two trades
limit one drops one, and the clock's first two values put one before `sinceMs`. A tape of four
trades has more in a window than the cap of two, or some before it, and periods without any.
In each of them turns, ids or the clock run out, hence `CHECK_DEADLOCK FALSE`.

Three tasks give a lane a first, a middle and a last task, which the clean-up tells
apart; the second key shows that lanes are separate. Three calls let one complete
while another finds its row and a third clears its own. Both systems stop when all tasks
or calls are over, hence `CHECK_DEADLOCK FALSE` there too.

### Fairness

`Exchange!FairSpec`, for `RequestsEnd`: a handler that can take a step takes one,
because neither the event loop nor the database idles while work is ready; and strong
fairness of the two row updates, because PostgreSQL queues waiters of a row. Nothing forces
a request to come, and `Abort` is never forced.

`SerializedDispatch!FairSpec`, for `TasksEnd`: callbacks of settled promises run, and a
task ends, because each is a database transaction with a timeout.

`Idempotency!FairSpec`, for `CallsEnd`: a call that has arrived is worked on until it is
over. No crash and no arrival is forced.

InMemoryMatcher has no fairness: its state space is too large for a liveness run. In its
place `NoStandstill` says in every state that requests never wait for each other in a
circle and that the lane holds no task that is over, from which the progress
of Exchange and of SerializedDispatch carries over. The other modules state safety only: their
handlers are straight lines of awaits without loops or waiting, except for row locks, and
whether they come to an end is the same question as for the core.

## Proofs

The theorems hold for all constants their module's assumption admits: any number of clients,
users, orders, keys or tasks. `ExchangeAssumption` asks for finitely many users,
`AgentAssumption` for finitely many requests and `MatcherAssumption` for finitely many
clients, because what is conserved or bounded there is a sum or a count over them. Each
invariant below was checked with TLC on a small instance before it was proved, and each proof
has one lemma per action and lemmas that carry one client's part through another client's
step.

### The order core

`ExchangeProofs` proves eleven properties with five invariants, each resting on those before.

| theorem | property | invariant | requests |
|---|---|---|---|
| `TypeCorrect`, `TimeInForceHolds` | `TypeOK`, `TimeInForceObeyed` | `IInv` | any |
| `NeverDeadlocked` | `NoLockCycle` | `LockInv` | any |
| `MoneyIsConserved` | `MoneyConserved` | `MoneyInv` | any |
| `HoldsAreMoved` | `SubmissionsMoveTheirHolds` | `HeldInv` | any |
| `HoldsAreBacked`, `NothingIsOverdrawn`, `BookStaysUncrossed`, `FokIsAllOrNothing`, `PriorityIsKept` | `HoldsBackLiveOrders`, `NonNegativeBalances`, `BookUncrossed`, `FokAllOrNothing`, `PriceTimePriority` | `SerialInv` | one at a time |
| `LifecycleIsImplemented` | `ImplementsLifecycle` | `SerialInv` | one at a time |

`IInv` says what a request in progress may rely on although others commit and roll back beside
it: which requests can be at which step (`PhaseInv`), which rows a transaction may have
written (`WritesInv`), that the taker's row is its own and unseen by anyone (`OwnRowInv`),
that candidates and fills name other orders that exist (`TargetsInv`), that quantity remaining
and executed add up to the order's (`MatchingInv`), and that a transaction at its commit has
the outcome its time in force demands (`OutcomeInv`).

`LockInv` is the order in which rows are locked. `NoLockCycle` speaks of two transactions at a
moment; that it holds needs what each has locked on the way: makers the loop has passed come
before the one it is filling and before those still to come, of one side each, and the pieces of
a fill are synchronised buy order first.

`MoneyInv` adds to the committed sums that what a transaction has posted and not yet committed
sums up to nothing, for each asset. Both are folds over sets of accounts. The fold is reached
through a well-founded recursion over the subsets of a finite set, so that its laws (taking
an element out, one summand changing, two sums added) are lemmas here and not assumptions.

`HeldInv` says what an open submission has posted to each held account at each of its steps:
the hold of its own order so far, less each fill at the limit of the order that was filled,
with what a price improvement or a cancelled remainder has still to give back. `HoldsAreMoved`
is what it says at the commit.

`SerialInv` is for requests that do not overlap: `Clients` has at most one element, and the
demo route is not called (`DemoPrices = {}`). Its properties fail when requests do overlap, as
*What the models show of the code* says, so the assumption is not there for the proof but for
the truth. It says that the committed book is what its fills imply (`BookInv`), that
candidates are live until the loop has come to them (`WaitingMakers`), that while the taker
wants more each candidate passed is filled (`PassedAreFilled`, from which follow priority and
an uncrossed book), that what a fill-or-kill order still wants is there among the candidates
(`Fillable`: a sum again), and that a held account is the sum of its owner's live holds, which
with `HeldInv` bounds it below by zero. `LifecycleIsImplemented` maps each commit to the
abstract order's steps, and everything else to a stutter.

### The in-memory matcher

`InMemoryMatcherProofs` proves the three properties of the `in_memory` run, for any number of
requests that overlap, abort, are cancelled or lose their book to a restart. They rest on
`IInv`: the steps each kind of request goes through (`PhaseInv`); a submission's own row is
unseen, and not in the book before its task has run (`OwnRowInv`); only a task that has
matched has fills, of orders the book knows (`TradesInv`); which rows a transaction may have
written (`WritesInv`); and the lane holds each client once, from its handing in, and at its
head from the moment it has matched (`LaneInv`).

- `RequestsNeverStandStill`. If each of a set of requests is where it may have to wait, the
  one at the head of the lane that is to update a row waits for none of the others, which have
  written no row that it could want; without such a one the same goes for a cancel; and if all
  are queued, the first of them in the lane waits for nobody in the set.
- `BookNeverCrosses`. What matters is what the walk leaves. Its makers are finitely many and
  totally ordered by price and arrival, so induction along that order, one maker at a time, shows
  that it takes no more than there is and no more than the taker wants (`WalkTakes`), and that if
  the taker wants more, each maker it crosses is drained (`WalkDrains`). An order comes to rest
  only in that case.
- `UnitsAreOfferedOnce`. Besides the walk it needs the sum of what all clients claim of an
  order; each step moves units between the book, one client's claim and the trades, or
  drops them, and the laws of that sum are lemmas here.

### Around the core

`ProcessProofs` is about two parts of the process, SerializedDispatch and Operations. Of the
first it proves, for any sets of tasks and keys, `InductiveInvariant`
and from it `RunOneAtATime` (two tasks of a key never run together), `RunInOrder`
and `KeepsNoLane` (a lane whose tasks are all over is gone from the map). The
properties speak of two tasks of a key, the code only of a task and the one before it;
the invariant bridges this: the tasks of a key are chained by `previous`
in the order of their tickets, a task that has begun has only tasks before it that
are over, and the lane is its youngest task unless that one is over.

`QueuesAreImplemented` is the refinement, `Spec => ImplementsQueues`, with every step mapped.
A queue is the tasks of a key that are not over, in the order of their tickets, a definition
by `CHOOSE`; so it is shown that finitely many tasks have arrived, that a finite set of tasks
has exactly one such order, by induction on its size, and that a task that arrives is its new
last element, one that begins is its head, and one that ends leaves its tail.

Of Operations it proves both properties, for any orders and runs and any caps. `VerdictsHold`:
what is wrong stays wrong (`WrongGrows`), and what a run can still see of it only shrinks
(`SightShrinks`: its cutoff is fixed, and the latest orders and trades push older ones out of
its caps). `RunInv` then says of each run that what it has found was there to be found
(`Seen`), and that whatever was wrong when it began and can still be seen is among its
failures, unless a statement is still to come that will find it (`Covers`, `Due`). The span of
time is in the model only as the number of trades that have left it, so the theorem holds for
any look-back. `NoRunBegins` is an action property: after a signal the worker is stopped,
unless it was started later (`StopInv`), so a timer has nothing to begin a run with.

`IdempotencyProofs` proves, for any sets of calls, keys and payloads, `AnswersHold` (nobody
is given the answer to another payload) and `AtMostOnce` (of the calls with a key
at most one runs its handler, those whose answer could not be stored excepted). The
invariant behind the second says that a call from its claim to its end owns
the key's row, which the unique index makes exclusive, and that the row of a call
that has run stays.

`AgentTradingProofs` proves all six properties its run checks, each with an invariant of its
own:

- `CommandsActOnce`. Nonces are deleted, so uniqueness of the row is not enough: the
  invariant says that a command that was taken is *gone*, its nonce still there or its timestamp
  too old to be accepted, and that a nonce is stored only while its command is at most `Skew`
  ahead of the clock; from `NonceLife >= 2 * Skew` it follows that a nonce is deleted only when
  its command has become too old.
- `WindowsHold`. A window keeps only recent requests; the property counts all that were admitted in
  any span. The invariant says that what was admitted and is not kept is older than any span that a
  later admission can fall in, and that no request was admitted twice.
- `BucketIsFair`. The count of the bucket is at most the number of requests let pass since it was
  opened, or that number is already the maximum.
- `NewestKeyIsLive`. Keys are numbered in the order they are made, so the newest is not revoked by
  a rotation that is not in progress.
- `RevocationsAreKept`. A mandate in use is not one that is made later, and an order counted is
  on the mandate its request uses.
- `DailyLimitHolds`. Orders of a day are at most what was counted and those between check and count,
  and the last to be checked had found fewer than the limit; the bound adds a count over requests to a
  count over commands.

`MatchingEventsProofs` proves all three properties of its run:

- `StoredIsCommitted`. An event carries its place in the log and the run (`LogInv`), submissions emit
  once and share no event (`EmittedInv`), and no row is of a later run (`RowInv`), so what an
  upsert overwrites is never a row of this run.
- `StreamsHaveNoGaps`. What a stream has heard is a filter of the log's end. The filter is a fold, and
  the lemmas say what the fold makes of one event more and of two sequences joined; then each
  event that is published appends to both sides, and a snapshot is the end of what is there.
- `ReplayHasNoGaps`. A page is the rows after an id, in the order of their ids, cut to a length;
  that a finite set of rows has one such order is shown by induction on its size. The invariant
  (`BaseInv`, `GotInv`) says that a reader has come to the last id it has read, and that what it
  began with is still there unless a later run has written over it.

`SessionsProofs` proves `TypeCorrect` and the four properties its run checks. For `ResetEnds`
and `WorkOnce` the invariant says of every request in progress that it has the current state
of what it is about to use, or has missed its change (`PasswordInv`, `TokenInv`, `CodeInv`);
one lemma for each action shows that whoever changes a row tells all others.
`GuessesAreBounded` adds that the count in the row is the number of wrong codes, and below the
limit while the challenge is pending (`GuessInv`); `StepUpsAreCurrent` that a stamp names a
factor or a set of codes that counts, and so does what a challenge in progress has read,
unless it is marked as overtaken (`StepUpInv`).

`MarketStreamsProofs` proves `TypeCorrect` and the four properties of its run. For
`FlagsObeyed`, `ControlCurrent` and `NothingMissed`, changes of the mode are numbered, and a
number belongs to one mode (`NumberInv`, `SameNr`); what a client was told, or is about to be,
is no newer than what is in force, and what it has not been told its snapshot will say
(`ControlInv`); and an order that is missing from the book that was read and was in its depth
is filled by a trade that the next read sees (`ReadInv`). For that a read must find all it was
asked for. At level 3 this is the definition of `Take`; at level 2 the `depth` best prices of
the first `TakeRaw` orders must be those of the whole side, up to there. For trades the
database chooses among those of one time: a trade outside its choice has `limit` others as new
as it, because the choice has `limit` members, all of them as new, or holds everything since
`sinceMs`.

`CandlesAreRight` holds for every period, window, cap and tape. The property says what is
gathered by positions in the tape, `Known`, the code by spans of time and a cut, `Gathered`;
since the tape is in order (`TapeInv`), its trades before the window are a first part of it
and those of the window the part after it (`KnownIs`). Candles are built by four folds
(`Within`, `Buckets`, `Volume` and `Filled`), which the library defines by recursion over the
sets of places of a sequence. `FoldsExist`, `FoldsAgree` and `FoldedMore` show, once for all
four, that this recursion has one solution and that one member more does to it what the code's
loop does. Then, by induction on the length: the trades of a span are in order and of that
span (`WithinHolds`); the buckets of any trades have the first and last price, the extremes,
the sum and the count of each period (`BucketsDescribe`); and after `n` periods of the window
there are `n` candles, and the last close is that of the latest trade before period `n + 1`
(`FilledHolds`), because a trade of a period is after all trades of earlier ones, the tape
being in order (`TapeInv`).

### Only model-checked

Liveness, which TLAPS does not reach: `RequestsEnd` in `exchange_liveness`, `TasksEnd` in
`dispatch` and `CallsEnd` in `idempotency`. Every other property that a run checks is a theorem.

## Not modelled

The map covers the server's files that keep state across steps. Most lines of the repository
are elsewhere: the web interface renders what the API answers, the seeds fill an empty
database, the bot farm drives the routes as a client, `src/apps/api/dist` is a compiled copy,
and scripts patch files. None of them has behaviour of its own that these properties
could be about.

Of the server, not modelled:

- invitations and referrals: an invitation is read, checked and then marked accepted, the
  pattern of Sessions with one row (`modules/invitations/invitations.service.ts:53`); the rest
  are single statements;
- onboarding, KYC, advisor, uploads, consents, payments, wallets, profile: reads and single
  writes;
- notifications, vault and start-up secrets: external I/O;
- the routes of `market.ts`, which are single reads; `services/` and `engine.ts`, which
  nothing imports;
- registration, roles, live-mode eligibility and audit records; the open-order limit and the
  price band, which read and refuse; risk limits, which nothing reads.

In modelled components, left out: rounding of postings to ten decimals, a mix of both
matchers, the loss of resting orders when the in-memory book is emptied by a restart (the
code rebuilds nothing and promises nothing), and more than one symbol, account or agent.

What could follow, in this order: *Invitations*; *HoldRounding*, ten-decimal postings of a hold
in pieces.
