# binarius in TLA+

binarius sells automated trades. A user's bot, or a timed session, asks for a trade; the backend
reserves one token for it; a worker sends the order to the broker; the token is spent when the
broker's trade closes and given back when no trade was made. The repository calls one such request
a *trade intent*. These modules model what happens to an intent, its token and its order, and the
parts around them that hold state several actors write: broker sessions, sockets, token pairs,
payments, linking, notices, the mailing, staff logins, the stakes of a session.

`PROJECT.json` maps every definition that translates code to its lines, lists the runs with the
property each mutant must break, the hazards of the code with the properties that watch them, and
the theorems.

- [1. The system](#1-the-system)
- [2. Modules](#2-modules)
- [3. Runs](#3-runs)
- [4. Proofs](#4-proofs)
- [5. Only model-checked, not modelled, next](#5-only-model-checked-not-modelled-next)

## 1. The system

| Component | Code | State | Operations |
|---|---|---|---|
| Intent transactions | `packages/db/src/trade-intent-ops.ts` | `trade_intents`, `token_ledger`, `users.token_*`, `broker_trades`, `outbox_events`, halts | create, take, refuse (four ways), accept, unknown, settle, start/claim/conclude reconciling, halt |
| Outbox publisher | `apps/backend/src/outbox` | outbox rows, BullMQ jobs | publish, record a failed delivery, re-pend rows whose job is gone |
| Worker: intent jobs | `apps/trading-worker/src/intents` | a slot's job and the version it read | read, take, send, record; sweep; dead letter |
| Worker: reconciliation | `reconciliation.ts`, `rest-reconciler.ts`, `trade-pages.ts` | the claim; `absentSince` in memory | claim, read two lists, decide, confirm an absence, persist |
| Worker: fleet and router | `fleet/registry.ts`, `intents/router.ts` | `worker_processes`, the queues of each process | heartbeat, fence, forward, insure, drain |
| Kill switch, breaker | `trading-switch-ops.ts`, `circuit-breaker` | `trading_switch`, sliding windows | stop, open, trip |
| Trading sessions | `trading-session-ops.ts`, `trading-session/orchestrator.ts`, `backend/src/h1`, `session-notices.ts` | `trading_sessions`, ticks and wakes, plans, notices | start, stop, enter, wake, decide a step, tell the owner |
| Session message, signal wait | `bot/src/session-tracker.ts`, `signal-wait.ts` | messages, entries, pauses | poll, draw, edit, record, end |
| Stake sizing | `packages/stake` | the session's ledger | fixed stake, bounded Martingale |
| Broker sessions | `broker/session-manager.ts`, `session-lease-ops.ts` | lease rows, entries, clients, hold-backs | acquire, renew, release, shed, restart |
| Broker and data sockets | `packages/broker-socket`, `backend/src/market-data` | socket states, the command in flight, two feed slots | connect, subscribe, send, deliver; promote, replace |
| Tokens of the broker | `backend/src/auth/token-service.ts`, worker token cache | token pair, cache entry | read, exchange, report, block |
| Linking, bonuses, deposits | `link-bonus-ops.ts`, `referral-reward-ops.ts`, `postback-ops.ts`, `deposit-mode-switch-ops.ts` | accounts, bonus and deposit rows, the user's mode | link, activate, attribute, switch |
| Stars payments | `star-payment-ops.ts`, `backend/src/payments` | payments, ledger | credit, refund, reconcile |
| Broker balance | `balance-check.ts`, balance row writers | snapshots, alarms | compare, write |
| Mailing, staff login | `backend/src/mailing`, `staff-ops.ts` | jobs, codes, links, sessions | plan, claim, send; log in, change, disable |
| Bot, web, admin | `apps/bot`, `apps/web`, `backend/src/admin` | presentation | calls into the above |

How they interact. The API commits an intent, its reserve, its ledger row and an outbox row in one
transaction. The publisher turns the row into a BullMQ job whose id is the intent's. A router hands
the job to the process that holds the account's broker session. There a slot reads the intent, takes
it (`queued -> submitting`, a compare-and-set on status and version), sends the order over the
account's socket, and writes the outcome with a second compare-and-set. What it may fail to write is
picked up by somebody else: the sweeper, a redelivered job, the publisher's sweep, the
reconciliation pass over the broker's own lists, and in the end an operator (`manual_review`, the
account halted). Sessions are woken by the write that ends an intent; the bot and the backend tell
the user.

What is hard. Several processes act on versions they read earlier. Redis delivers twice, late or
not at all. A worker dies, or is taken for dead, between any two awaits. The broker's answer is
missing while its trade exists. A lease is trusted by a clock that started when the request was
sent. A refresh token is single-use while two processes may want it. A Telegram edit lands although
its answer was lost. Transactions lock several rows. Each such place is a hazard in `PROJECT.json`.

## 2. Modules

### The chain of a trade

`IntentPipeline` implements `IntentStore` (`ImplementsStore`), which implements `TokenEscrow`
(`EscrowSpec`); both refinements are checked and proved.

**TokenEscrow** is what the token cache promises: hold, release or consume one token, credit a user.

**IntentStore**: one variable per table, one action per transaction of `packages/db`, callers left
open. An action is the branch that commits; a compare-and-set that matches no row and a transaction
that throws are stuttering steps. A creation reads the switch and the flags without locks
(`BeginCreate`) and commits later (`CreateIntent`): two actions. `planned` and `reserved` exist only
inside it, so a committed creation is `absent -> queued` at version 3. The terms of a trade are mode,
`side` (asset and action together) and amount. Time is the set `elapsed[i]` of deadlines the database
clock has passed. `DEMO_ONLY` is a flag of a process, so backend and worker have one each. Taking a
halt back and concluding `manual_review` are an operator's. `MaxVersion` and `MaxEdits` are bounds.

**IntentPipeline** extends it with the processes, the queue and the broker; each step between two
awaits is an action. A slot remembers the version it read. A publish that timed out may land later
(`LandAdd`); a lapsed lock redelivers a job whether its worker lives or not (`StallJob`); crashes, lost
jobs, late adds and lapsed locks of live workers are at most `MaxFaults`. The broker decides an
order in flight at any time, also when nobody waits any more, and may round the amount. A trade the
user opens by hand is one of `Trades \ Intents`. The two lists of an attempt are two reads: `covered`
says they reached past the window, `proof` that both were first pages. `WindowOver` is an assumption
about the environment: the reconciliation window ends after the broker has decided the order and
the slot has sent it or gone. The code's own conclusion of absence rests on the same.

### Around it

| Module | What one behaviour is, and what was abstracted |
|---|---|
| `IntentRouter` | Processes with heartbeats, their ranks for an account, the shared and own queues, drain and stop. Time in steps; Redis answers within one. `revived` remembers a row put back after its delete |
| `TokenCache` | One account's cached token in a worker; request, handling and answer are three steps. A fingerprint is lost by eviction or by a late report |
| `CircuitBreaker` | Insertion-ordered windows and the asynchronous trip; `last` is a ghost, what the Map should stand for |
| `SessionLease` | One account's row and the statements on it: sent, begun, committed, answered. Times are what is left of them; `Late` processes act late; `MaxAge`, `MaxStatements` bound the flight. Answers that cross sockets (`docs/broker-session.md`, risk 5) are left out |
| `SessionManager` | The sessions of one process: ticks, starts, tokens, hold-backs; graces are flags |
| `BrokerSocket` | One client, run to completion, two listeners that may call it back; mute connections are bounded. `Elsewhere` is a trade event of another client of the account, of any kind and terms, the accepted risk 4 of `docs/broker-session.md`: `said` keeps the terms of what ended a command, `Misled` names a command ended by an answer not its own |
| `DataSocket` | Active client and warm reserve on service accounts, one of which works and one leaves; `Failures` are the ways a client ends |
| `TokenService` | A token pair, its row lock, callers of two processes; one backend process exchanges; the row's clock advances only when unlocked |
| `AccountLink` | A link in three steps (locks and reads; the statement that attaches the deposits; commit) beside postbacks. `unseen` is the window `docs/postbacks.md:172` accepts and no more: the deposits of a postback that found no row and commits after the confirming link of its account ran that statement (`Overtaken`). A block comes from outside |
| `DepositModeSwitch` | Passes of two processes over deposits, against the user's own changes; `ScanLimit` stands for 50; the hold-back is emptied as a whole |
| `StarPayments` | Telegram's transactions, the bot's report, staff refunds, the paging reconciler, which takes a page's charges in any order; the 48 h window and the page ceiling are bounds |
| `TradePages` | Paging over lists that shift; the broker assumptions A1–A3 of `docs/broker-rest.md` are constants: the run has a broker that keeps A1 only. The ghost `smooth` says that A2 and A3 held during an attempt, and twins are excluded then. `MaxGap < Retry - Timeout` is the 30 s argument of that document |
| `BalanceCheck` | A comparison bracketed by two reads of our rows, one account and mode; closing times by the database clock |
| `BalanceRow` | The writers of one mode's amounts, with late answers |
| `SessionOrchestrator` | Ticks, wakes, failed sweeps and scans, batches past their deadline whose statement may still land, restarts. A wake lost with a failed tick is left to the interval, as in the code; sweeps and scans are taken to be quick |
| `H1Driver` | One Martingale session's scans and steps; a tie is a loss; `MaxTrades` is the sizer's stop |
| `StakeSizer` | The fixed stake and the bounded Martingale. Integers of the smallest digit; the ledger is the history, folded; the broker credits at least `ExpectedProfit` |
| `SessionNotices` | One session's notices by sender, bot and stop route, with the edit of a cycle message, the split of a full one (whether a text fits is a free choice) and the caption pass between turns, whose drawings are left out; documented risks 35, 50–52, 81, 82 and 95 are excused where the properties say so |
| `SessionTracker` | One session's message: drawings up, down and end, lost answers whose edit lands, messages Telegram refuses for good, resume. Risks 41 and 56 are left out, 83 is in; the run has no restart and no turn of the direction |
| `SignalWait` | A user's wait: ticks, edits, pauses, freeze and stop; one handler per user at a time; time as flags |
| `MailingEngine` | Plan, wake, claim, send, settle, level, block and stop for one user. A claim is two steps, the snapshot (`ClaimReads`) and the update of the job rows it locks (`Claim`), and an `off` is a transaction that other claims overlap. `begun` remembers whose claim or send was under way when the level was set or the window began: the races `docs/mailing.md:819-826` accepts |
| `StaffLogin` | One staff member under READ COMMITTED: a statement re-reads the row it waited for, not the rows it joined. `now()` is the transaction's start; five failures are one; `epoch` is a ghost that counts changes of the credentials |
| `LockOrder` | The row locks of each multi-row transaction in statement order, rows named by account; an INSERT that may meet a unique entry waits like an update. Batches over several sessions (documented risk 16) are left out |

The `*MC` modules choose constants. Seven of the instances are **sums**: one module extends one
or more components, may take others with `INSTANCE`, and a behaviour is of one part, chosen in `Init`, while
the other parts keep an initial state. The parts of a sum share no variable and no action, so a state
of their product is a pair of states each part reaches alone, and a property of one part sees its own
variables only: interleaving them would multiply the states and reach nothing new for any property.
The composite properties (`LinkSafe`, `FeedSafe`...) are conjunctions of the named properties of a part.

## 3. Runs

| Run | Instance | Properties |
|---|---|---|
| `store` | a session's demo intent and a bot's real one compete for an account, a token and a trade | `TypeOK`, `CacheIsLedgerSum`, `TokenFollowsStatus`, `TradeFollowsStatus`, `WaitingHasDelivery`, `SessionRunsInUserMode`, `RowsMoveOn`, `EscrowSpec` |
| `pipeline` | one intent, two slots, a reconciler, one fault, rounded amounts | `SendsAreSafe`, `ReleasedOrderNeverOpens`, `ImplementsStore` |
| `pipeline_two` | three intents of one account in turn, a session's among them, a DEMO_ONLY worker | `LinkedToOwnTrade`, `DemoOnlySendsNoReal` |
| `pipeline_live` | one intent, a trade opened by hand, one fault, fair processes | `EveryIntentMovesOn` |
| `worker` | router, token cache, breaker | `RoutingHolds`, `CacheForgets`, `BreakerTrips` |
| `worker_revived` | router with a heartbeat in flight at the stop | `NoOrphan`, violated |
| `accounts` | linking, token pair, deposit's switch, Stars | `LinkSafe`, `TokensSafe`, `SwitchSafe`, `StarsSafe` |
| `reconcile` | pages of a broker that keeps A1 only, with a twin, balance check, balance row | `PagesSafe`, `AlarmsAreTrue`, `RowSafe` |
| `broker` | lease, session manager, socket, feed | `TrustedIsHeld`, `OneCommandPath`, `ManagerSafe`, `SocketSafe`, `FeedSafe` |
| `sessions` | sizer, orchestrator, H1 driver, session message | `LossBounded`, `WinRecovers`, `LeastStake`, `WakesAreServed`, `DriverRepeats`, `TrackerSafe` |
| `messages` | notices of two trades, signal wait | `NoticesSafe`, `WaitSafe` |
| `rows` | row locks, staff login, mailing alone and as the two processes of a deploy | `NoWaitCycle`, `StaffSafe`, `MailingSafe` |

Why the bounds are enough for what is asked. Intents meet in the live index of an account, the token
cache of a user and the link index of a broker trade: two of one account show the three, and
`pipeline_two` has a third to reuse what the second left. A slot can be overtaken by one other slot;
two show every stale write. `MaxStalledCount = 1` is BullMQ's default, a redelivery and a drop. A row
is `reconciling` at version 6, so `MaxVersion = 8` has a claim, its lapse and a successor, 7 one
claim; the store run needs none and has 6. Two processes contend for a lease, a row, a deposit; three for
a circle of locks, since the transactions name rows of one owner and one inviter. One fault shows each
recovery, two where a repair can fail again (`StarPayments`, the mailing alone; its two processes have one and no important fact), three in the session
manager; the orchestrator has two, so that a sweep can fail twice, or after a restart. The sizer runs bases 4 and 6 on a grid of 2 with payouts on both sides of the minimum;
`MaxTrades = 4` exceeds `MaxSteps = 3`. The notices have two trades: of one cycle, so that a message is edited or split, or
of two, so that a second message is begun while the first stands. The wait for a signal has one wait and
no caption (`MaxCaptions = 0`): captions beside a stop and a second wait are not exercised there.

`CHECK_DEADLOCK FALSE` where faults, edits, versions or messages are bounded: when they are used up
and everything is finished the model stops, and so may the code. Slots are symmetric in `pipeline`,
which checks no liveness.

`LinkedToOwnTrade` and `ReleasedOrderNeverOpens` are checked with `Trades = Intents`. A trade opened by
hand with the same terms within the window can be taken for the order's; `docs/trade-executor.md`
and `docs/broker-session.md` document that limit.

Fairness is assumed in `pipeline_live` alone (`LivePipelineSpec`), weak and of loops or timers the code
has: `Publish`, `FindMissing` and `Repend` (the publisher's loop and its sweep), `StallJob` (BullMQ's
check), an idle slot taking a waiting job, a busy slot's next step (every await of the processor
has a deadline), the sweeper and the clock it reads, and the broker deciding an order. Nothing is
assumed of users, edits and faults. `Publish` being fair means Redis accepts an add in the end while
the row stays pending. Leaving `reconciling` is not claimed: the broker may refuse every attempt.
`TakenInTime` and `FailoverInTime` are safety properties over clocks of the model.

**The finding.** `worker_revived`: `stop()` deletes the process's row without waiting for a heartbeat in
flight, whose upsert may put the row back for its TTL. Peers then forward into queues nobody
reads, longer than `docs/trade-intent-transport.md` says; the insurance still saves the intent, which
is what `OneFaultLosesNothing` shows in `worker`.

Each property of a passing run has a mutant: an operator `X_Bug` beside `X` that changes it as
a plausible slip would (a resend on redelivery, a compare-and-set on the version alone, the closed
list read first, a ledger row forgotten) and that the same run must refuse.

## 4. Proofs

Checked by TLAPS for every value of the constants under the assumption of the module
(`StoreAssumption`, `PipelineAssumption`, `LeaseAssumption`, `ManagerAssumption`, `SocketAssumption`, `DataSocketAssumption`,
`TokenAssumption`, `LockAssumption`, `SizerAssumption`, `RouterTimes`, `CacheAssumption`, `BreakerAssumption`, `CheckAssumption`, `RowAssumption`, `PagesAssumption`,
`OrchestratorAssumption`, `LinkAssumption`, `SwitchAssumption`, `StarAssumption`, `StaffAssumption`, `MailingAssumption`); TLC
evaluates each of them on its runs.

### The store (`IntentStoreProofs`)

`IInv == TypeOK /\ RowsInv`, with `RowsInv` the three properties of the rows and
`ReconciliationNeverGivenUp`. They need each other: a release is well typed because a live intent
holds one token and has no terminal ledger row; an acceptance links a trade to an intent that has none;
`WaitingHasDelivery` survives `MarkIntentUnknown`, which keeps an existing reconciliation row, only
because that row cannot be a failed one. From it: `StoreTypes`, `TokensFollowStatuses`,
`TradesFollowStatuses`, `WaitingKeepsDelivery`.

`StepInv` adds that versions start at the creation, and `RowsStep` then says what any transaction does
to the rows of intents (`RowStep`): nothing, or it moves one row along the transition graph. That one
lemma gives the action property `RowsMoveAlongTheGraph` (`RowsMoveOn`) and is what the
pipeline's proofs use of the store. `SessionsKeepTheMode` (`SessionRunsInUserMode`) is inductive by
itself.

`StoreImplementsEscrow`: under `IInv` the phase of a token is a function of the intent's status, so a
transaction is classified by the status it writes and the helper that moves the cache.
`CacheStaysLedgerSum` counts tokens held and spent over a finite set of intents.
`ReserveAlwaysCovered` is the same count for the escrow itself, over the store's mapping.

### The pipeline (`IntentPipelineProofs`)

`PInv == StepInv /\ ShapeInv /\ SendInv` is inductive (`PipelineInvariant`).

- `ShapeInv`: the types, and what a memory still says of the world. A slot that holds an `accepted`
  answer has an opened order; an order is sent exactly when it exists; a trade an attempt saw exists.
- `SendInv`, the heart of it: of the slots that ever took an intent at most one is past the take
  (`Past`), an intent not yet taken has none and nothing sent, a slot about to send has sent nothing,
  and the five plain refusals end intents nothing was sent for. The compare-and-set of `TakeIntent`
  moves `queued -> submitting` once, which `RowStep` says cannot be undone.

From it `OrdersAreSentOnce` (`SendsAreSafe`: types, one send, plain refusals sent nothing) and
`DemoWorkersSendNoReal`. `PipelineImplementsStore` classifies every action as one transaction or none;
through it each theorem about the store holds of the pipeline.

`OrderInv` is the broker's side. It is inductive relative to `PInv` when no user trades by hand
(`NoHandTrades == Trades = Intents`, the case the runs have, and without it the two properties are
false). Its parts:

- `WindowIsOver`: once the window or a manual review is reached the order is `Over`, i.e. decided and
  not to be sent. `OverStays` says no step undoes that.
- `RefusedSlots`: a refusal a slot has still to record is of an order that cannot open. It is here and
  not in `PInv` because it is what the token's release relies on.
- `OneLive`: two live intents of one account do not exist, so a candidate the pass finds for a live
  intent cannot be another live intent's (`OneCandidate`).
- `AttemptsKnow`: the memory of an attempt, step by step. After the open list a closing attempt has
  seen the order's trade if it was open; so if neither list shows it there is none, or it is linked
  (`NoCandidate`); a `found` trade is the intent's or the intent is over.
- the two properties themselves.

`SafeSteps` says which facts each transaction needs at the moment it runs (`Concluded`), each
`...Step` lemma carries one part over a step, and `OrdersAreAccountedFor` joins them. From it
`ReleasedOrdersNeverOpen` and `IntentsLinkToOwnTrades`.

### The connection to the broker (`BrokerProofs`)

`TrustedIsHeld` is not inductive: an answer in flight becomes trust, a release in flight takes the
row away. `LeaseInv` says what each statement in flight means for its sender: who awaits it
(`Sound`, `AskedByEntry`), that a release which would still delete the row has a sender without
lease or grant (`GivenBack`), that a process that ended awaits nothing (`EndedIsSilent`), and that a
grant on its way that will be trusted is in the row for longer than the trust will last
(`GrantIsHeld`; this is where the clock started at the sending, `Fence < Ttl`, is used). Actions change
statements by six operators that keep `Sound` and only weaken what they say. `TrustIsHeld` and
`CommandsHaveOnePath` follow.

`ManagerSafe` is not inductive either: the answer of a call starts a client, so the invariant has to
say whose answers are still awaited. `ManagerInv` says it account by account (`AccountOK`): a client is
its entry's, and used once its `user.data` proved it; calls bear the number of the entry that made
them and an entry awaits one, so an answer made for an older entry cannot be taken for it; of an
account that may start again no refused token is kept, and the token a running one uses is newer than
every refused one; what an entry remembers of its losses is what happened to it. `StartsBounded` counts
the entries in their start, over a finite set. From it `ManagerStaysSafe`, for any accounts.

`SocketInv` has three parts. Of the client: its state, its socket and its connection agree, a taint and
a waiting command exclude each other, and the timer runs in the handshake only (`ControlOK`). Of the
wire: the authentication is first, and alone until it is answered, nothing is said twice, and a trade
that went out and was not answered is the one that waits, or the connection is tainted (`TradesOK`),
unless an event of another client answered it (`Misled`); this is why a late answer can be taken for
another command's in that one case only, and then fits its terms. Of the queue: there is a path of states
from what each listener heard last, over the items it has still to hear, to the client's state
(`LeadsTo`), which a call from inside a delivery only makes longer. From it `SocketStaysSafe`.

`FeedSafe` is about what is there when a handler of the market data has ended; in between, the rules of
`reconcile()` pass on a slot with a start and no client, or a client in the wrong slot. `FeedInv` says
that a start is exactly one job that is not late, a running client one of its account's and of one slot
(`WorldOK`), that the timer is set for each deadline to come and no later (`AlarmOK`), and that the mark
is there as long as the feed stands still. Within a handler the client that feeds is the one it began
with or the mark is set (`MarkOK`); each rule keeps that and the world (`Through`), so it does not
matter which of them apply, and after the third a ready reserve waits for an active within its grace
only (`WaitOK`). From it `FeedStaysSafe`, for any list of service accounts and any times in their order.

### Accounts (`AccountsProofs`)

`TokenInv` ties what a caller remembers to the row: only the flight of a process goes to the lock and
only it holds it (`LockOK`); a caller that came or got the lock after the block hands nothing out
(`BlockOK`); from the decision to the commit its holder has the row's pair, and what it is about to
write is that pair, or one the broker did not consume (`CarryOK`, `Written`). A step of one caller
keeps the others' facts (`CallKept`), because a row that is locked stays as it is. `PairIsGuarded`
follows for any callers, processes, policies and keys.

That no consumed refresh token is presented again is more: after a failed commit the row is unlocked
with a spent pair in it until the second transaction. `SpentIsOwned` says that some caller answers for such
a row, and `TokensAreSafe` (`TokensSafe`) proves it under two hypotheses, both true of the run and
each needed:

- `OneExchanger`: the callers that may exchange are of one process, so that the flight keeps a second
  one away (`docs/binodex-oauth.md`: the backend runs as one process);
- `~LegacyRow`: the row has its `refresh_token_hash`. A row linked before the column existed carries
  NULL; if a reader of another process fills it in between the two transactions,
  `revokeAccountIfUnchanged` finds NULL distinct from the hash, answers `changed` and leaves the spent
  pair active. TLC finds that run with `LegacyRow = TRUE`; the next caller then gets `invalid_grant`,
  which revokes the row, so a user loses a login and nothing is traded on it.

`LinkInv`: a postback that found a row holds it, so no link works on that account and what was read
is what the commit meets (`PostOK`); a link works alone on its account, which is free or its user's, and
holds its inviter while the referral is unpaid (`LinkOK`). `LinksStaySafe` needs no bound on users,
accounts or postbacks.

`SwitchStaysSafe`: the invariant of the switch is nearly its types; the work is in the steps. Every
step leaves outcomes that stand (`OutcomesStand`) and moves a mode for one deposit, alone, or by the user
(`ModesMove`).

`StarInv`: the status of a payment says what the ledger holds of it (`PaymentOK`), a desk about to record
and the charges the pass read as outgoing are of Stars that went back (`DeskOK`, `TickOK`). A sum over the
charges of a buyer is counted token by token (`TotalGrows`), for any finite set of charges.

### The worker (`WorkerProofs`)

`RouterInv` is inductive for any processes, intents, times and number of faults (`IntentsAreRouted`).

- `FleetOK`: what a process may still believe of its row. The fence of a process ends before its row
  does (`FlightsOK`); before the first fault a process that left is forgotten by every peer in time
  (`CalmOK`): what is left of its tail and the time since the peer's last heartbeat sum to more than a
  heartbeat and its timeout.
- `QueuesOK`: per intent, which jobs of it exist. An id is used once in a queue (`SharedAt`, `OwnAt`); a
  hop is paid by a publication or a fault (`HopAt`); an intent handed to a running process waits in its
  queue as a job whose wait ends in time (`InsuredAt`); before the first fault an intent without a
  shared job is in two queues that are kept (`PairAt`); and up to the first one a copy is where somebody
  reads it, unless a row was revived (`SingleAt`).

The two parts need each other where a process leaves: it moves its queue back for the last time when
the tail is over, and `CalmOK` says that nobody forwards to it after that.

`CacheInv`: no number in a worker is ahead of the backend's, the stored token is newer than every
refused one, and an answer handled in the present generation is no older than the last refusal. So no
refused token comes back (`TokensStayForgotten`).

`BreakerInv`: a window holds one event a key, in the order of time (`Ordered`), and they are the newest
events of all keys heard of in the window's time (`Remembers`; a key that moves to the end when it is
heard again is what keeps both, and pruning from the head is right only then). So the counts a trip is
decided on are those of the outage (`CountsAre`), and `BreakerTripsOnOutages` is `BreakerTrips` for any
keys, window and thresholds.

### The balance and the pages (`ReconcileProofs`)

`CheckInv` compares three accounts of the same trades while the check reads them one after the other.
`SidesOK` says which combinations of intent, row and broker exist; `KnownOK`, that an intent known at the first
read only settles since; `HeldOK`, that what the broker's answer held is a trade of ours or an excess,
and what it missed had ended. The bracket is the argument: the second read equals the first in number,
and a set that only loses members and keeps its size is the same set (`AgreeingReads`), so no row moved
between the reads and a difference is the broker's. `AlarmsStayTrue` is `AlarmsAreTrue` for any trades.

`RowInv`: no answer and no row is ahead of the broker, and a row the check passed has no answer under way
that would be newer (`AnswerIsNewer`). `RowStaysSafe` is `RowSafe` for any number of changes, links, faults.

`PagesInv` is `PagesSafe` (`PagesStaySafe`) for any trades, caps, page sizes and list order: A1 is not
needed either. The lemmas about one page come first: what a page shows of its list (`PageShows`), that two
trades on an accepted page show the list's order (`PageOrder`), that a page starts where the last one
ended (`PageFollows`). Then:

- `ProofOK`, `AbsentOK`: a proof on the open list says that the order's trade is not open, and after the
  window it cannot open any more. So at the second list it is nowhere, closed and seen, or between the
  lists. One proof cannot tell the first from the last; the second attempt begins when a trade that was
  between them has arrived, because `MaxGap < Retry - Timeout`. The release rests on two proofs, each
  of both lists in this order.
- `SmoothOK`: with A2 and A3 a matching trade of before is behind the reader or ahead of it (`Reached`);
  one that closes while the open list is read is ahead of the reader of the closed one.

### Locks, staff logins and mailings (`RowsProofs`)

`NoDeadlock`: `Rank` orders all rows, the newest user first, then accounts, sessions, intents, trades
and the leaves. Each transaction takes its locks in that order but for the KEY SHARE locks, which
wait for nothing here; so the lock a process waits for ranks above all it holds, and among the locks
waited for there is a greatest, whose holder does not wait.

`StaffInv` gives `StaffStaysSafe` (`StaffSafe`) for any connections, challenges, links, sessions and
changes. Three of its parts carry the argument:

- `WritesOK`: a row a transaction wrote was open, issued or live when it was locked and is so still,
  since nobody else may write it (`LocksOK`).
- `CoversOK`: an invalidation has taken, or is about to take, every row that its next statement's
  snapshot could miss. The hard case is a session inserted by a login that committed after the
  snapshot. The login spends its challenge or link in the same transaction; those rows were all taken
  by the invalidation one and two statements earlier, so no such login can commit any more. Closing
  sessions before links would break exactly this.
- `KeepsOK`: what the lock of the staff row keeps as it was (the lockout, the epoch).

A wait cycle cannot form because whoever holds something while it waits holds the staff row
(`WaitingHolder`), and only one transaction does. `LockoutStands` is proved step by step: the right
password that clears a lockout found none when it took the lock.

`MailingInv`: the job in a sender's hand is marked sent with an unknown outcome, is in no other hand, and
has reached nobody yet (`HandsOK`); what reached the user stays sent, and what `off` dropped stays canceled
(`KeysOK`). A lost answer leaves the row `sent`, and nothing but the hand it is in may make it pending
again. `LevelInv` says what a process still may do under a level: after `off` a job is in hand, or on its
way there, only of a process in `begun`; under `reduced` the
same while the window holds a job, and of the window's jobs a process has one. From it `MailingStaysSafe` (`MailingSafe`): never twice, without exception;
`off` stops and `reduced` sends one a window but for the claims that were under way, as
`docs/mailing.md:819-826` says.

### Stakes, ticks and notices (`SessionsProofs`)

`SizerInv` bounds the session's sum, the streak and the open stake together; `LossIsBounded`,
`WinPaysBack`, `StakeIsLeast` and `StakeIsSendable` follow with lemmas on rounded division.

`WakesStayServed` is `WakesAreServed` for any number of sessions, faults and times. That the sweeps are
not starved is not inductive: whether the next ones come in time depends on what is running.
`SweepClock` says it. Between ticks the interval's rest and the time since the last sweeps stay
within the bound together; a full tick is as old as its sweeps; a woken tick began within `Tick` of the
last ones, and either the interval is still within the bound or a full tick is pending behind it.
`EndHolds` is the step they share, the `finally` of `tick()`. The bound grows with `missed`, the sweeps
that failed in a row: `lastFullAt` stays, and the next tick, woken or not, is a full one.

`NoticesStaySafe` is `NoticesSafe` for any number of trades, cards, waits and faults, by the invariant
`NoticesInv`. None of the five properties is inductive: they hold because of what the sender remembers
of a row it read earlier. Three ideas carry the proof.
- A claim moves the cursor before its call, so `ToldOK` can say that a result told is claimed, and
  `ClaimOK` that the claimed one is not told while its call is to be made. A call of unknown outcome
  leaves the claim; putting it back is the slip the mutant makes.
- A cycle message holds trades of one cycle (`CycleOK`), the older ones are above it and end before it
  begins (`BlocksOK`), and while a new one is on its way every recorded one that stands ends before its
  first trade (`BlockOK`). `CycleStartGives` and `SameStart` are the lemmas on cycles.
- A block's button stands under the recorded message for the trade after the cursor, and only with
  no waiting message recorded (`ButtonOK`, `ButtonJobOK`). What keeps the two apart is the row a turn holds
  (`RowIsOK`): it may be old, but a recorded waiting message is the one it names, as only the sender
  records one, and a row that waits for a signal has no trade open.

A message of unknown fate, given up or full (`known`, `stray`) is outside the properties, as in the
documented risks. There is one lemma per action; `FadedWorld` serves those in which messages only go.

## 5. Only model-checked, not modelled, next

Only model-checked. `EveryIntentMovesOn`: liveness under fairness is out of the prover's reach, as is
ENABLED. What a fold over a whole history computes for every input would need induction over data,
which the provers cannot instantiate; the sizer is proved with its ledger kept trade by trade instead.
The sums' composites `DriverRepeats`, `TrackerSafe` and `WaitSafe` are checked on
their instances.

Not modelled: the screens, texts, pages and routes of bot, web and admin; the GET budget; candle rings,
backfill and tick store; the analysis of candles; OAuth states and login routes; the refresh queue of
balances; the scenarios that choose what the mailing sends; the display read models. They either hold
no state several actors write, or are numeric and better tested, or only delay a step the models let
be late. `PROJECT.json` says so component by component.

Next: the composition of `IntentPipeline`, where a covered attempt has seen both lists (`covered => seen = both`),
with `TradePages`, where that is what paging page by page comes to.
