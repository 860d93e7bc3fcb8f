# new-api in TLA+

TLA+ models of the parts of new-api (an LLM gateway written in Go, with web
front-ends and a desktop shell) that decide about money and about who runs what,
and of the client code in which requests, timers and clicks overlap, the TLC configurations that check them on
small instances, and proofs, checked by TLAPS, that hold for instances of any
size. Paths below are relative to the repository, `src/`.

    tlc -config <run>.cfg <MC module>        model-check a run
    tlapm SystemTaskProofs.tla               check the proofs
    tlapm BillingSessionProofs.tla
    tlapm TaskPollingProofs.tla
    tlapm OrdersProofs.tla
    tlapm ChannelSelectProofs.tla
    tlapm DesktopPaymentProofs.tla
    tlapm PlaygroundProofs.tla
    tlapm DesktopShellProofs.tla

`PROJECT.json` lists components, runs, the source lines each definition models,
hazards, findings and theorems.

## 1. The system

A relay request is authenticated with a token, a channel is chosen for its
model and group, an estimate of its cost is pre-consumed, the request is relayed
(with retries on other channels), and the real cost is settled or everything is
refunded. Several nodes share one database (SQLite, MySQL or PostgreSQL) and
optionally Redis; a node may be a master, which also runs background tasks.
Everything that nodes, requests and goroutines share is in the database, so the
atomic step of every model is one SQL statement, or the read or the write of one
transaction.

| Component | State | Operations | What is hard | What must hold |
|---|---|---|---|---|
| System task runner (`model/system_task.go`, `service/system_task.go`) | rows with a status and `active_key`, one lock row per type with a lease | schedule, enqueue, claim (insert or steal the lock, mark the old run, set running), heartbeat, finish, expire stale locks | several masters, crashes, stalls between statements, leases | a row runs once, one active row per type, a live lease is respected, no row stays running for ever |
| Billing session (`service/billing_session.go`, `funding_source.go`, `quota.go`) | per request: pre-consumed, token-consumed, extra-reserved, consumed; in the database: wallet, token, subscription rows, pre-consume records | pre-consume with fallbacks, reserve, settle, refund, turns of a realtime session | partial failure between two sources, asynchronous and retried refunds, concurrent requests | a request pays what it owes, never gets back more than it paid, and ends |
| Subscriptions (`model/subscription.go`) | plans, orders, user subscriptions, pre-consume records | purchase, order completion, pre-consume, delta, refund, reset, expire, cancel, delete | read-modify-write of whole rows, nested transactions | `amount_used` is what was taken and within the plan; a cancelled one stays so |
| User and token quota, Redis copies (`model/user.go`, `token.go`, `*_cache.go`) | `quota`, `remain_quota`, hashes in Redis | increments in the database, asynchronous increments and reloads in Redis | stale copies, order of asynchronous writes | the copy converges to the row |
| Batch updater (`model/utils.go`) | maps of pending deltas under mutexes | add, swap, flush | crash or error between swap and write | a delta is applied at most once, and is lost only by a crash or a failed write |
| Top-ups, redemption codes, subscription orders (`model/topup.go`, `redemption.go`, `subscription.go`, `controller/topup*.go`) | orders and codes with a status, subscriptions, the balance, a map of mutexes per process | payment notices of six kinds, expiry, failure, the administrator's completion, redemption, purchase from the balance | repeated, overlapping and lost notices, several nodes, a crash between two statements | an order is credited once, in one step, or closed for good; what was paid is credited in the end |
| Asynchronous tasks (`model/task.go`, `service/task_polling.go`, `task_billing.go`, `relay/relay_task.go`) | task rows with status, progress and quota | submit, poll, time-out sweep, settle, refund, live fetch by the user | poll against sweep against an overlapping poll against a fetch; crash between the write of the status and the refund | refunded or settled at most once, the bill matches the outcome, an ended task stays ended, every task ends |
| Midjourney tasks (`model/midjourney.go`, `controller/midjourney.go`) | rows like those of the asynchronous tasks | submit, poll, refund | as above | as above |
| Relay loop and channel selection (`controller/relay.go`, `service/channel_select.go`, `channel_affinity.go`, `model/channel*.go`, `ability.go`) | retry counter, group index, cache of channels, multi-key states | select, retry, disable, refresh the cache | counters reset inside the loop that counts with them, stale cache, failed reads that empty it | attempts are bounded, no group or priority is skipped, the selection follows the rows in the end |
| Rate limiters (`middleware/*rate-limit.go`, `common/limiter`) | queues of times, Redis lists, buckets | request, expire | window edges, two kinds of store | at most N in a window |
| Check-in, two-factor, passkeys, verification codes | small tables and maps | | concurrent calls | once a day, lock-out after N failures |
| Quota computation (`pkg/billingexpr`, `service/text_quota.go`) | none | pure formulas on floats | rounding | inputs of the billing model |
| Desktop Alipay checkout (`web/default/src/features/wallet/hooks/use-alipay-desktop-payment.ts`) | dialog state, flow number, query gate, timers of two effects | start, check, close, retry, poll, expire | every `await` lets clicks, timers, renders and tab switches in between | one query at a time, no outcome of another order, payment noticed |
| Chat playground (`web/default/src/features/playground/`) | messages, one SSE source, two refs, the copy in localStorage | send, regenerate, edit, delete, stop, stream events, reload | chunks go to the last message, refs belong to no stream in particular | an answer holds its own text and stays as it ended, generation ends |
| Desktop shell (`electron/main.js`) | server process, probes, windows, tray, message boxes | start, probe, show, hide, quit, crash dialogs | callbacks of a process, of timers and of the user in any order | the server never outlives the application, quitting ends |
| Relay adaptors, HTTP API, OAuth, i18n, administration pages of the two front-ends | no protocol state | | | |

How they interact: the relay loop calls the billing session before and after
relaying; the billing session writes the user, token and subscription rows; the
system task runner dispatches the handlers that reset subscriptions and poll
asynchronous tasks; polling settles or refunds through the same rows; webhooks
credit the same wallets, and the desktop checkout polls for what they did. The Redis copies and the batch updater sit between the
increments and the rows when they are enabled.

## 2. Modules

| Module | Models |
|---|---|
| `SystemTask` | the lease protocol of one task type |
| `MCSystemTask` | its instances |
| `SystemTaskProofs` | its inductive invariant and theorems |
| `BillingSession` | the requests of one user with one token: session, funding sources, subscription rows |
| `MCBillingSession` | its instances |
| `BillingSessionProofs` | its inductive invariant and theorems |
| `TaskPolling` | asynchronous tasks: rows, overlapping polling passes, refunds and settlements, live fetches |
| `MCTaskPolling` | its instances |
| `TaskPollingProofs` | its inductive invariant and theorems |
| `Orders` | orders, codes and subscription orders: the handlers of all notices on three databases and several nodes |
| `OrderLedger` | what `Orders` promises: credited once and at once, or closed; `Orders` is checked, and proved, to implement it |
| `MCOrders` | the instances of `Orders` |
| `OrdersProofs` | its inductive invariant, theorems, and the simulation of the ledger |
| `ChannelSelect`, `MCChannelSelect`, `ChannelSelectProofs` | the attempts of a relay request over groups, priorities and channels; the channel cache; their instances and proofs |
| `DesktopPayment`, `MCDesktopPayment`, `DesktopPaymentProofs` | the desktop Alipay checkout, its instances and proofs |
| `Playground`, `MCPlayground`, `PlaygroundProofs` | the chat playground, its instances and proofs |
| `DesktopShell`, `MCDesktopShell`, `DesktopShellProofs` | the Electron shell, its instances and proofs |

Definitions whose comment starts with "Mutant" are broken variants of the
definition below them. They are not part of a specification: putting one in
the place of its original makes the property it is meant for fail, which shows
that the property depends on that piece of code.

### SystemTask

`task` is the table `system_tasks` restricted to one type (types share no row),
`lock` the type's row in `system_task_locks`. Every runner has a program counter
over the statements of its three passes (`ExpireStaleSystemTaskLocks`,
`runSystemTaskScheduler`, `ClaimSystemTask`), with its locals in `loc`; `running`,
`beating` and `finished` are handler goroutines, their heartbeats, and handlers
between the two statements of `FinishSystemTask`. The code compares differences
of Unix times only, so times are kept relative: `lock.left` is `locked_until -
now`, `age` how long ago a process read its clock. A claim may take up to
`MaxStall` between its statements, a single statement uses a clock reading at
most `MaxLag` old. Statements fail (`faults`), nodes crash and restart under a
new runner id. The body of a handler is abstract: it finishes, loses its lock,
or fails.

### BillingSession

One program counter per request says which statement is next:

| Steps (`pc`) | Code |
|---|---|
| `new`, `hassub`, `wallet`, `sub`, `overflow` | `NewBillingSession`, `tryWallet`, `trySubscription` and the fallbacks of the preference |
| `pretok`, `pretokdec`, `prefund`, `backinsuf`, `backerr` | `preConsume`: the token (read, then decrement), the funding source, the rollback of the token |
| `open` | the relay is at work |
| `resfund`, `restok`, `restokdec`, `resback` | `Reserve` and `rollbackFundingReserve` |
| `setfund`, `settok` | `Settle` |
| `refund`, `recopen`, `recsave`, `extra`, `rtok` | the goroutine of `Refund`, with `refundWithRetry` and the nested transactions of `RefundSubscriptionPreConsume` |
| `turnfund`, `turntok`, `ended` | a turn of a realtime session, and the session after a turn was refused |
| `settled`, `unsettled`, `refunded`, `rejected` | the ends |

Wallet and token statements are `quota = quota + delta` and atomic. An operation
on a subscription is a transaction that reads the row (`snap`), computes, and
saves every column (`SubCommit`). `Isolated` says whether the transactions
exclude each other on a row. The code asks for `FOR UPDATE` with
`tx.Set("gorm:query_option", ...)`, which gorm v2 ignores: `Isolated = FALSE` is
MySQL or PostgreSQL at their default isolation, `Isolated = TRUE` what the code
means. SQLite is neither: it serialises writers, and refuses the inner transaction of
`RefundSubscriptionPreConsume` as long as the outer one holds its read lock, so that such
a refund fails there after its retries. `ConnFree` is the connection pool. `charged` and `tcharged`
are history variables, the net amount a request took from its funding source and
from the token; `charged` takes the whole delta of a refund also where `amount_used` is
cut off at 0 (after a quota reset, or a refund made twice). `faulty` marks a request one
of whose statements failed.

`Reserve` is part of the session's interface and of the model, although nothing calls
it at this commit. The branch of `PreConsumeUserSubscription` that finds a record of its
request id is left out: an id belongs to one request, which pre-consumes once.

Abstractions: one user, one token, Redis and batch updates off (the models of
those are planned); the cost of a response and the sizes of reserves are inputs
(`Amounts`, `Goals`); the lazy reset of a subscription that is due is
`ResetSubscription` just before the transaction; a failed statement on the wallet
or the token has no effect (only the outer commit of
`RefundSubscriptionPreConsume` may fail either way, `CommitFaults`); a turn of a
realtime session costs at least 1 (fixed-price turns, which charge nothing, are
left out); notifications, logs and statistics are left out.

### TaskPolling

`row` is the table `tasks`: the status, and whether the progress is "100%" (`full`),
which is all that the queries of the passes look at. `paid` and `tok` are the net
amounts taken for a task from its funding source and from the token. `work` is
what a pass is doing with a task: the row as it was selected (`seen`), the row it
is about to write, the quota it is about to move. `holder` is the lease of
`SystemTask` seen from here; `hurt` is a history of the tasks whose billing met a
fault.

| Actions | Code |
|---|---|
| `RelayTask` | `RelayTask`, from the provider's acceptance on: settle, then insert the row with `result.Quota` |
| `Start`, `sweepTimedOutTasks` | `asyncTaskPollHandler`, and the sweep at the start of `RunTaskPollingOnce` |
| `Find`, `Finish` | the selection of the unfinished tasks, and the end of the pass |
| `FetchTask`, `updateVideoSingleTask` | a video task: ask the provider, write under the guard, bill if the write won |
| `FetchTask`, `updateSunoTasks`, `Update` | a Suno channel: ask for all tasks at once, refund, save without a guard |
| `TaskBulkUpdateByID` | the tasks of a channel that cannot be loaded |
| `taskAdjustFunding`, `taskAdjustTokenQuota` | the two statements of `RefundTaskQuota` and `RecalculateTaskQuota` |
| `LoseLease`, `Cancel`, `Crash` | missed heartbeats, the context they cancel in the end, a restart |
| `tryRealtimeFetch`, `FetchWrite` | the user's GET of a Gemini or Vertex task |

A pass that lost its lease runs on until it looks at its context (the sweep never
does), so two passes overlap. Within a pass, the channels of a video platform are
worked on concurrently and the tasks of a channel one after the other; Suno's
channels come one after the other (`MayTurnTo`). The tasks of a deleted channel are
ended without a refund (`TaskBulkUpdateByID`): that is what the code does, and
`BilledByOutcome` excepts them through `hurt`.

Abstractions: QUEUED and SUBMITTED behave as IN_PROGRESS; the progress of an ended
task is not read by anybody; submission order is id order, and that Suno may
rewrite `submit_time` is ignored; upstream ids are distinct and present (the bulk failure
of rows without one, `service/task_polling.go:150`, is left out); a failed
statement has no effect; the order of platforms is free (the code ranges over a
map); how much a finished task costs is an input (`Actuals`, 0 for unknown).
`controller/task_video.go` holds an older copy of the video round that nothing
calls.

### Orders

A call is one HTTP request at one node. `status` is the column of an order (of a
code: pending is "enabled", success is "used"), `credits` a history of how often
the order was credited, `wallet` and `subs` the user's balance and subscriptions in
units of one credit, `topup` the orders with a row of their trade number in
`top_ups`. `entry`, `refs` and `held` are the map of reference-counted mutexes of
each process.

| Actions | Code |
|---|---|
| `Arrive` with `LockOrder`, `Acquire`, `Unlock`, `UnlockOrder` | a notice reaches its handler; the mutex of the order |
| `CreemCheck`, `ReadOrder`, `ReadUser` | the first SELECT, with the early returns for an order that is not pending |
| `CountSubscriptions`, `LookUpTopUp`, `Charge` | the later statements of the transactions that have several |
| `CreditTopUp` | `Recharge`, `RechargeCreem`, `RechargeWaffo`, `RechargeWaffoPancake`, `ManualCompleteTopUp` |
| `CompleteSubscriptionOrder`, `ExpireOrder`, `FailWaffoOrder`, `Redeem`, `PurchaseSubscriptionWithBalance` | the functions of those names, `UpdatePendingTopUpStatus` |
| `EpaySaveOrder`, `EpayIncreaseUserQuota`, `StripePaymentFailed` | the handlers that write without a transaction |
| `Rollback`, `DatabaseFails`, `Crash` | a refused or failing statement, the end of a process |
| `ProviderSettles`, `Redeliver` | the provider (external): it is paid or not, and repeats what was not acknowledged |

The databases differ in what a transaction without row locks may see. On SQLite a
transaction whose reads are outdated cannot write (`dirty`); MySQL reads from the
snapshot of the first SELECT; PostgreSQL reads what is committed (`View`). The
writes and the commit are one step, since a second writer of a row waits for the
first one; the answer to the commit may be lost.

Abstractions: checks of signatures, amounts and providers end a call before it
changes anything and are left out; one unit is credited; creation of orders is in
`Init`; a subscription order of Creem or Pancake behaves as one of Epay.

`OrderLedger` is the abstract specification. `ImplementsLedger` instantiates it with
`credited` = `credits` and `closed` = the orders that failed or expired without a
credit, for the orders that something protects (`Protected`: SQLite; one process and
a handler that takes the mutex; the unique trade number on MySQL's snapshot). A
Waffo failure notice is handled without the mutex, and may cross a payment; the
ledger's `Reopen` step says exactly this and for Waffo orders only.

### ChannelSelect

One model name, one path; a channel has groups and a priority. `row` is the status
column, `cached` the status in `channelsIDM`, `listed` the channels in
`group2model2channels`, `sync` what each running `InitChannelCache` has read,
`waiting` and `writing` the calls of `UpdateChannelStatus` before their cache part and
between it and their database part. `req` holds what the gin context and `RetryParam`
hold of a request: group index, retry counter, `resetNextTry`, whether the rule of its
session forbids retries, the channel at hand and the one `Distribute` set out with. `past` is its history, until it ends.

| Actions | Code |
|---|---|
| `DistributePreferred`, `Distribute` | the middleware, which uses the channel kept for the session, or forgets it (unless `keep_on_channel_disabled`) and starts a selection of its own |
| `CacheGetRandomSatisfiedChannel`, `PassGroup`, `NoChannel` | a selection, of `Distribute` (place `first`) or `getChannel` (place `select`), one step for each group it looks at: a channel is drawn; the group has none; there is no group left |
| `RelaySucceeds`, `RelayFails` | the end of an attempt: a channel is recorded for the session, the last one with `switch_on_success` and the first one without; `processChannelError`, `shouldRetry`, `IncreaseRetry` and the condition of the loop |
| `UpdateChannelStatus`, `SaveChannelStatus`, `EnableChannel` | the cache part and the database part of a status change, and the test that asks for one |
| `AdminSets`, `ReadChannels`, `InitChannelCache` | an edit by the administrator; the two halves of a reload, also of the periodic one |
| `ReadChannelsFails`, `ReadAbilitiesFails`, `Restart` | a reload whose reads fail: their errors are ignored, so without the channels an empty cache is swapped in, and without the abilities the entry of an enabled channel is written to a nil map; the panic is recovered in an administrator's request and ends the process in `SyncChannelCache` |

`GetRandomSatisfiedChannel` takes `channelSyncLock` once for each group, so the list may
change between two groups of one selection. `switch_on_success` and
`keep_on_channel_disabled` are options that can be edited at any time, so each use may
find either value. `AttemptsBounded` counts, for each group, the channels selected in
it; the attempt at a session's channel takes the place of the first selection in the
first group, wherever the channel is, and counts there. (When it belongs to a later
group, that group may therefore see `RetryTimes + 2` attempts; the total is not
affected.) Abstractions: any channel of the
selected priority may be drawn (weights); the look at the preferred channel's status
and at the list is one step; the start of a node reads the tables without a fault; of
the rows of `abilities`, which only the mode without a memory cache reads when it
selects, there is only the failing read; left out are channels with several keys,
tokens bound to one channel, and groups that change while the server runs.

### DesktopPayment

`h` is the hook's state and refs, `ui` what the last render showed. Helpers such as
`CheckOrder`, `Continue` and `Release` map a record to the record that the call
leaves, so that an action is the composition of the calls JavaScript makes in one
task. A query in flight remembers the flow and the order it was sent for, and the
loop that awaits it. Updates made in a user event are rendered at once; others in
`Commit`, which also re-runs the effects whose dependencies changed (`Rerun`). A
timer that the effect forgot (`leaked`) or that belongs to a disposed effect (`stray`)
still fires. Poll delays are left out: an armed timer may fire at any time.

### Playground

A text is the set of its authors: the streams that wrote into it, and 0 for what was
typed or produced by the page. `source` and `complete` are the two refs of
`useStreamRequest`; `isGenerating` is what the last render read of the first. Events
of a connection are actions per stream (`Chunk`, `Done`, `StreamFails`, `BadChunk`,
`ClosedEarly`), buttons are actions of the page, `Reload` loads the saved messages
through `sanitizeMessagesOnLoad`.

`messages` are the messages with every queued update applied, `shown` those of the last
render, `saved` the copy in localStorage, `dirty` says that an update is queued. An
event of a stream queues a functional update (`UpdateLast`), which React renders in a
later task (`Render`); whether `saveMessages`, which is inside the updater, runs at once
or in that render is React's choice, so both happen. A click is rendered before the next
task together with everything that is queued (`Rendered`; React 19 flushes both
priorities at once). Sending, regenerating, deleting and saving an edit make their array
from `shown` and replace `messages` by it; Stop is a functional update; opening and
closing the editor only render.

Three histories serve the properties: `overlapped`, was one of the two buttons pressed
that are not disabled while an answer is streaming; `lost`, was an edit saved while the
end of an answer was queued and not rendered, which the edit then replaces
(`chat-playground.tsx:151`); `cutOff`, the last stream of `sseSourceRef` whose response
ended without `[DONE]`.

### DesktopShell

Every callback of `main.js` is an action. `server` is the child process, `closeEvent`
its close event between emission and handling, `handle` whether `serverProcess` is
set; `probes` counts the scheduled and pending connections of
`checkServerAvailability`; `Mac` adds the Dock's `activate`. A probe that times out is
handled by two handlers (`TimedOut`), because destroying the request makes it emit an
error as well.

## 3. Runs

| Run | Checks | Shows |
|---|---|---|
| `system_task_safety` | `TypeOK`, `OneActiveRow`, `AtMostOneDispatch`, `NoOrphan`, `LeaseRespected`, `StatusMovesForward` | two masters, an API caller, a legacy row, a crash or failed statement, slow claims and old clock readings, as long as a claim takes at most the TTL |
| `system_task_live` | `RunCompletes` | every row ends, through a crash or a failed statement |
| `billing_subscription` | `TypeOK`, `BilledAsOwed`, `NeverOverRefunded`, `WithinPlan` | two requests of different kinds, two subscriptions without row locks and a wallet with the trust bypass, a failing statement, a reset, a cancellation, the fallbacks |
| `billing_locked` | `SubscriptionAccounts`, `CancelStands`, `SessionEnds` | what effective row locks would guarantee, with a realtime session, a failing statement and a quota reset; every session ends |
| `billing_double_refund` | `UsageKept`, violated | a refund whose outer commit fails is repeated, and takes what another request has used off the row |
| `task_polling` | `TypeOK`, `BilledOnce`, `BilledByOutcome`, `TerminalStays`, `TaskEnds` | a task of each kind, two pollers with overlapping passes, two faults, a deleted channel, a live fetch; `TaskEnds` if provider calls return |
| `orders` | `TypeOK`, `MutualExclusion`, `StatusTellsCredit`, `ImplementsLedger`, `PaidIsCredited` | one order of any kind, two calls, each database, two nodes on MySQL, one fault |
| `orders_two_nodes` | `CreditedOnce`, violated | two nodes credit one notice twice |
| `channel_select` | `TypeOK`, `AttemptsBounded`, `NothingSkipped`, `ListFollowsRows` | a request of any mode, two groups, three channels of three priorities, one edit, enabling test, failed write or failed read |
| `desktop_payment` | `TypeOK`, `GateSound`, `OutcomeOfTheOrder`, `PaidIsNoticed` | three flows, two tab switches, one failed request |
| `playground` | `TypeOK`, `OwnAnswer`, `FinishedStays`, `GenerationEnds` | five messages, every button at any time, before and after the render of what is queued; the second and the third until an unguarded button is pressed during generation |
| `desktop_shell` | `TypeOK`, `NoOrphanServer`, `ProbesBounded`, `QuitEnds` | four probes, macOS, production and development mode |

Some facts need no run of their own, because a run refutes them as soon as one of
its constants is changed:

| Change | Then | Because |
|---|---|---|
| `SystemTaskSafety.cfg`, `MaxStall = 4` | `NoOrphan` fails | `ClaimSystemTask` (`model/system_task.go:246`) does not check that it still holds the lock when it sets the row running: a claim that stalls past the TTL leaves a running row without a lock row |
| `SystemTaskSafety.cfg`, `Legacy = 2` | `NoOrphan` fails | two rows from before `active_key` are active together: a claim of one takes over the expired lock of the other, and the statement that should mark the other failed does not succeed (`model/system_task.go:240`) |
| `BillingLocked.cfg`, `Isolated = FALSE` | `SubscriptionAccounts` and `CancelStands` fail | `FOR UPDATE` through `gorm:query_option` takes no lock with gorm v2 (`model/subscription.go:1365`): additions to `amount_used` get lost, a cancellation is undone |
| `BillingLocked.cfg`, `Conns = 2`, no realtime session | `SessionEnds` fails | a refund holds one connection and waits for another (`model/subscription.go:1252`) |
| `BillingLocked.cfg` with `BilledAsOwed` | it fails | a realtime session is charged per turn and settled for the sum again (`relay/channel/openai/relay_realtime.go:240`) |
| `TaskEnds` without its premise | it fails | a provider call that never returns holds the pass and its lease (`service/task_polling.go:455`) |
| `BilledByOutcome` over all `Tasks` | it fails | a GET of a Gemini or Vertex task writes the provider's answer and bills nothing (`relay/relay_task.go:484`): a failed task is not refunded |
| `OrdersTwoNodes.cfg` with a code and one node, or a subscription order on PostgreSQL and `Limit = 2` | `CreditedOnce` fails | no lock on the row (`model/redemption.go:130`, `model/subscription.go:568`) |
| `Orders.cfg` with `subs <= Limit`, or `wallet >= 0` | both fail on MySQL and PostgreSQL, and hold on SQLite | the purchase limit and the balance are checked on values read before the write (`model/subscription.go:484`, 754) |
| `Playground.cfg`, `OwnAnswer` or `FinishedStays` without `~overlapped` | they fail | two streams write into the last message (section 5) |
| `GenerationEnds` without `lost`, `overlapped` or the disjunct about `cutOff` | it fails | a loader stays that no stream will end: an edit saved over a completion not rendered yet (`chat-playground.tsx:151`), two streams, a response without `[DONE]` |

Bounds. Two runners are enough for every race on the lock row (a statement
involves one runner and the row); two rows let a stolen lock belong to another
row than the claimed one; `TTL = 3` with `MaxStall = 2` and `MaxLag = 1` is
the longest delay a claim may have (their sum is the TTL) and puts clock readings
on both sides of an expiry; longer stalls are, for the other properties, in the proofs. Two requests are enough for the
races on a subscription row and on the wallet; the amounts are chosen so
that a reserve adds and a refund returns quota and a settlement does either (the one
below what was pre-consumed is that of a realtime session without turns), the wallet and a plan of 4 or 2 are
exhausted, and a second, unlimited subscription follows the limited one. One
failing statement is enough for every error path; two together are covered by
the proofs. `MaxTries` is the code's own 3. `task_polling` has one task, of any of
the three kinds: tasks meet only in the limits of the queries and in the batch of
a channel, while two passes and a fetch meet on one row; two faults let a lease
be lost and something fail on top. The proofs cover any number of tasks. (With
`Tasks = {1, 2}`, `Pollers = {p1}`, `QueryLimit = 1`, `MaxFaults = 1` and
`Actuals = {3}` the same properties, `TaskEnds` with its two limits included, take
TLC several minutes: 1.5 million states, no error.) Two calls are enough for
every race of `orders`: the mutex, the row and the balance are each shared by pairs;
one order, because orders share the balance and the plan only, which the purchase
from the balance also uses; one fault, because two can only repeat the same loss. Three
flows of the checkout let a query of a first flow end while a third one queues behind
the second; two tab switches hide and show the tab once; five messages are two
exchanges and a regeneration or a submitted edit, so that three streams may be open; four probes let the doubling
happen twice before the limit. Requests meet only in the cache and in the session's
channel, which the other actors of `ChannelSelect` change at any time, so one request
stands for all; with `RetryTimes = 1` one group has fewer priorities than attempts and
the other one more. Runs stop when all rows and requests
are used up, so deadlock is not checked; that nothing is stuck is
`RunCompletes` and `SessionEnds`.

Fairness. `SystemTask`: a runner loop wakes at least every
`systemTaskRunnerIdleInterval` and goes through all its passes, so the pass that
finds work again and again is taken (strong fairness of `FindPending` and
`ExpireScan`); a handler finishes or notices that it lost its lease; time passes.
Nothing is assumed of crashes, errors, callers or heartbeats. `BillingSession`: a
request that is not finished goes on (weak fairness of its next step), and one
that keeps reserving is settled or refunded in the end (strong fairness: `Relay`
always ends with one of the two). `TaskPolling`: while a task is unfinished the
scheduler creates a row every 15 seconds and some node runs it; a pass goes on with its
own steps, `submit_time` gets old, a GET that asked writes its answer. Nothing is assumed
of providers, neither what they answer nor that their calls return: by default
(`RELAY_TIMEOUT = 0`) the HTTP client has no time-out, and a provider that accepts a
connection and never answers keeps the pass, its lease (the heartbeat goes on) and every
later sweep waiting. That calls return is therefore the premise of `TaskEnds`, written
out in the property. `Orders`: a call goes on, also when it
competes for a mutex or a row (strong fairness: both serve their waiters), and a
provider repeats a notice that was not acknowledged. `DesktopPayment`: requests are
answered, timers fire, React renders; users, buyers and the clock owe nothing.
`Playground`: the server ends every response, and React renders what is queued. `ChannelSelect`: `SyncChannelCache` reloads the
cache every `SYNC_FREQUENCY` seconds. `DesktopShell`: the kill timer fires.

## 4. Proofs

`SystemTaskProofs`, for any number of runners, callers and rows, any TTL, lag
and stall: `TypeCorrect`, `ActiveKeyUnique`, `DispatchedOnce`, `ForwardOnly`,
`LeaseIsRespected`, `NothingOrphaned`. "A row is dispatched once" is not inductive: a runner could be
half-way through a second claim of a row it already runs. `IInv` adds what a
dispatched handler implies: its row has left `pending`, so no claim in progress
by the same runner is for that row, and a handler is never both running and
finished.

`NothingOrphaned` (`NoOrphan`) has two hypotheses, `Legacy <= 1` and `MaxStall + MaxLag <=
TTL`, and fails without either (table of section 3). `RowsInv` makes rows active one at a
time: with a legacy row there is no other row until it has ended. So a claim that has
the lock, or has taken over an expired one, does so while nothing runs, and `LeaseInv`
says that its own lock is still there when it sets its row running: any other claim or
stale-lock pass reads clocks that are younger than the lease. A lock on a running row is
for the same reason not expired for anybody who started before it was taken (`Fresh`),
which leaves the stale-lock pass as the only one that deletes it, after it has marked the
row.

`BillingSessionProofs`, for any number of requests and subscriptions, any amounts,
any number of failures and resets:

- `TypeCorrect`: nothing becomes negative that must not;
- `PlanNeverExceeded`: `WithinPlan`, with or without row locks;
- `NoOverRefund`: `NeverOverRefunded`, if `~CommitFaults`;
- `ChargesAreExact`: `BilledAsOwed`, if there are no realtime sessions;
- `CancellationStands`: `CancelStands`, if `Isolated`;
- `AccountsBalance`: `SubscriptionAccounts`, if `Isolated` and `~CommitFaults`, for
  finitely many requests.

Each hypothesis is needed: the trace of `billing_double_refund` refunds a request twice, which
breaks `NeverOverRefunded` and `SubscriptionAccounts` without `~CommitFaults`, the table of section 3 names those without the others. The invariant is a ledger
per request. `Fields` relates the four amounts a session remembers (for instance
`tokenConsumed = preConsumedQuota` while it is open, and a subscription's
`preConsumed + extraReserved` is the same); `AtLeast` says that the history holds
at least what the session may still give back, at each place of the refund
goroutine; `Exactly` gives the history exactly, for a request that met no failure.
`Reading` describes an open transaction: the row it read leaves room for the
amount it is about to add, and under `Isolated` its status is still that of the
row. A step of one request cannot disturb the ledger of another one
(`OthersKeep`), so each action is shown to keep the ledger of its own request;
all operations on a funding source share `FundStepKeeps`, all statements on the
token `TokenStepKeeps`.

`AccountsBalance` is about a sum over all requests. `AccountInv` adds that the open
transaction of a row is alone with it (`Exclusive`) and has read what the row still says
(`Current`), and that a request has taken nothing before its pre-consume (`Unbilled`).
Only `SubCommit` moves the sum and the row; it adds the same amount to both, and
cuts `amount_used` at 0 only after a reset, because the sum without a reset is what the row says and
`AtLeast` keeps every term of it from being negative. That the sum changes by the change
of one term needs induction over finite sets. The library's induction rule has an operator
parameter that the provers cannot instantiate; the lemmas on `SumOf` use instead that
the strict subset relation on the subsets of a finite set is well-founded, so that a
set of counterexamples has a smallest one (`Smallest`).

`TaskPollingProofs`, for any number of tasks, pollers and channels, any quotas,
limits and number of faults:

- `TypeCorrect`;
- `VideoBilledOnce`: `BilledOnce`;
- `TerminalForGood`: `TerminalStays`;
- `OutcomesAreBilled`: `BilledByOutcome`.

`BilledOnce` is not inductive: two passes might both be about to bill. `TaskInv`
adds that at most one pass has a task in the stage `adjust`, only when the row is
already ended, and that an unbilled task still has its first charge, so that the
single adjustment leads into the set the property names. The argument is that of
the guarded UPDATE: `seen` is always an open status, so a pass wins only on an
open row and closes it with the same statement; nobody else can win after it.
This is why these theorems are about the tasks of `Plain`: Suno's `Save` has no guard,
and a live fetch reopens and ends rows without billing.

`BilledByOutcome` needs to know what each job has done so far. `JobFits` relates the stage
of a job to the two charges of its task (both as charged, the funding source adjusted, both
adjusted) and says that the adjusted charge is what the target row calls for (`Due`):
the row as it is for a video task, which was closed before, and the row about to be saved
for a Suno task. `Acts` is the job that a task has only one of. For a video task it is the
winner of the guarded UPDATE; for a Suno task, which has no guard, it is any job at all,
and that there is only one follows from `PassInv`: as long as no lease was lost, only the
holder of the lease has a pass.

`OrdersProofs`, for any number of orders, calls, nodes and faults (finitely many,
`OrdersAssumption`), on each of the three databases:

- `TypeCorrect`: among others, no reference count goes below zero;
- `OneCallPerOrder`: `MutualExclusion`;
- `StatusIsTrue`: `StatusTellsCredit`;
- `ProtectedOnce`: an order that something protects (`Protected`) is credited once at
  most;
- `LedgerImplemented`: `ImplementsLedger`, each step of `Orders` mapped to a step of
  `OrderLedger` or to none.

Mutual exclusion rests on `LockInv`: at every node, the reference count of a mutex is
the number of the calls that hold it or wait for it (the set of calls is compared, one
call entering or leaving at a time), a mutex that is in use is the one in the map, and
a call that holds it is where its program says. That an order is credited once is not
inductive, since a call may be anywhere between its first read and its commit. `CallInv`
says what a call at each place is about, `RowInv` relates the status, the credits and the
row in `top_ups` of an order, and `ReadInv` says of every call that is past its checks
either that what it read is still so, or what will stop it: the mutex it holds (one
process), the outdated read that SQLite refuses (`dirty`), or the unique trade number
(MySQL). Those are the three cases of `Protected`.

`ChannelSelectProofs`, for any number of groups, channels (finitely many), priorities,
requests, retries and edits: `TypeCorrect`, `LoopIsBounded` (`AttemptsBounded`), `NoChannelIsSkipped`
(`NothingSkipped`). The inductive invariant `Fit` describes a request by the place it is
at. While it selects, the attempts made so far are those of the groups passed,
`RetryTimes + 1` for each at most, of the present group exactly as many as the counter
says, and of no later group (`Spent`, `Selecting`); at the relay, it depends on whether the attempt was at the session's
channel, and on whether the group is used up and the index already at the next one
(`UsedUp`) or not (`GoesOn`). The counter also says how many of the group's priorities
were tried, from the highest on (`Tried`), as long as the list of channels did not
change.

`DesktopPaymentProofs`, for any number of flows, tab switches and failures:
`TypeCorrect`, `GateIsSound` (`GateSound`), `OutcomeIsOfTheOrder` (`OutcomeOfTheOrder`). A
task of the page is a composition of calls on the hook's record, so the invariant
`Good` of that record is shown to be kept by every call (`CheckOrder`, `Continue`,
`Release` and the others), once each. It consists of the gate; of what binds the
flow, the order shown and the queries in flight (`Bound`); of what a final answer under
way says about its order (`Answered`); and of the outcome. `Drawn` and `Creating` add
that the page shows no other order than the hook's, and that an order has no outcome
before it is created.

`PlaygroundProofs`, for conversations of any length: `TypeCorrect`, `AnswersAreOwn`
(`OwnAnswer`), `FinishedAnswersStay` (`FinishedStays`). Keys are unique (`Keyed`). Without
an overlap (`Calm`), the only connection is that of `sseSourceRef`; it is the one of the
last message, which is not finished; and the page knows that it generates. So an event
finds its own message at the end, although nothing in the code says whose event it
is. What is queued and what is saved are the messages shown, each of them unchanged or,
if it was not finished, further on (`Follows`): that is what a render, a reload and an
array made from an old render rest on. Every action is shown to keep this and to derive
each message it shows from one that was shown (`Derives`), from which the action property
follows with the uniqueness of the keys.

`DesktopShellProofs`, for any limit of probes: `TypeCorrect`, `ServerNeverOrphaned`
(`NoOrphanServer`), `AlwaysAWayOut` (`WayOut`), `ProbesAreBounded` (`ProbesBounded`). The
child cannot be left behind because `serverProcess` is set as long as a child that was
started may live (`HandleKept`): only the close listener of a quit clears it, and a
close event comes from a dead child (`CloseAfterEnd`). The same fact shows that the
answer to the last message box arms the kill timer (`StartSettled`). The bound on the
probes needs `RetriesPaid`: every probe that has ended has scheduled two at most.

Only model-checked: the liveness properties (`RunCompletes`, `SessionEnds`, `TaskEnds`,
`PaidIsCredited`, `PaidIsNoticed`, `GenerationEnds`, `QuitEnds`, `ListFollowsRows`), which
need fairness. Every invariant and every action property of the passing runs is proved. The proofs of a module take between half a minute and two minutes.

## 5. Findings

Each has a run that TLC refutes; `PROJECT.json` quotes the lines.

1. `RefundSubscriptionPreConsume` is not idempotent if its outer transaction fails
   after the inner one: `amount_used` is reduced twice, the second time at the cost of
   another request's usage (`billing_double_refund`).
2. `FOR UPDATE` through `gorm:query_option` takes no lock with gorm v2, and the mutex of
   an order belongs to one process: two nodes credit one order twice
   (`orders_two_nodes`).

The table of section 3 lists what else the models show. Smaller remarks, without a
property: a Dock click during the start of the desktop shell opens a window before the
server answers, and closing it then hides the second one (`electron/main.js:416`); the
first Waffo notice that is not a success fails the order for good
(`controller/topup_waffo.go:382`); a paid subscription order beyond the purchase limit is
retried for ever and never completed (`model/subscription.go:491`); a success that is
answered after `expiresAt` is overwritten with expired in the same continuation
(`use-alipay-desktop-payment.ts:240`), so that the user reads expired after the toast of
success; a suggestion, or Save & Submit, pressed while an answer is streaming starts a
second stream into the same place, the first message keeps its loader, and
`sanitizeMessagesOnLoad` repairs one such message only
(`web/default/src/features/playground/components/playground-input.tsx:282`,
`lib/message-utils.ts:327`); an edit saved between the last event of a stream and its
render drops that event, so that the answer misses its end and keeps its loader until
it is deleted or the page is loaded again (`chat-playground.tsx:151`).

Of the relay loop: the comment above `CacheGetRandomSatisfiedChannel`
(`service/channel_select.go:54`) says that a group exhausts all its priorities before the
next one is tried. `GetRandomSatisfiedChannel` never reports that they are exhausted, it
stays at the lowest one; a group is left after `RetryTimes + 1` attempts, however many
priorities it has, so the example in that comment would try group A four times, and with
more priorities than attempts the lowest ones are never used (`NothingSkipped` states what
holds instead). An attempt at a session's channel uses up the highest priority of the first
group. When the last group is used up, the error of the provider is replaced by "no channel"
(`controller/relay.go:193`). A channel that the administrator disables by hand while
`UpdateChannelStatus` is between its two parts becomes auto-disabled, and the next test
enables it (`model/channel.go:769`).

## 6. Plan

In this order; each module comes with its runs, and proofs where induction over
the steps is enough.

1. `ChannelSelect`: channels with several keys, whose keys are disabled one by one.
2. `QuotaCache`: Redis copies and batch updater below `AdjustWallet` and
   `AdjustToken`. Properties: no delta applied twice, the copy converges.
3. `RateLimit`: the limiters against a reference definition of a window.
4. Two tasks with a short query limit, and Midjourney's table and loop, as runs of
   `TaskPolling`.

Not modelled, and not planned: adaptors and streaming (data conversion and network
I/O), price formulas (floating point), the HTTP layer, OAuth, i18n, performance metrics
and instance reports (displayed only), and the administration pages of the two web
front-ends. Most lines of the repository's TypeScript and JavaScript are those pages:
forms, tables, charts and translations, which keep their state in one component and
send it with one request. A model of a form would restate its fields; the client code
that does have a protocol (the checkout, the playground, the shell) is modelled.
