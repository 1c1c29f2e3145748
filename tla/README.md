# OmniRouters: a TLA+ verification project

OmniRouters is an API gateway in Go.  A client's request is authenticated,
priced, *pre-consumed* (an estimate is taken from the account that pays),
relayed to one of several upstream channels with retries, and then *settled* at
its real price or *refunded*.  Long jobs (video, music) are submitted like a
request and then followed by a background poller that bills them when they end.

The core this project models is the movement of quota.  It is spread over
handlers, deferred functions, goroutines, pollers on several nodes and four
kinds of account, no transaction spans two of these, and every database call can
fail: most of what can go wrong needs two actors or a failure in the middle of
an operation, which the repository's tests hardly reach.

Around it the project models what else is concurrent: the leases under which
several nodes run maintenance jobs (the poller above is one), the login sessions
of the dashboard in the database, in Redis and in the browser's tabs, and the
chat page of the front end with its streams, timers and storage.

Paths below are relative to the repository.  `PROJECT.json` maps every
definition to its lines.

## 1. Inventory

| component | state | operations | correct when |
|---|---|---|---|
| billing session (`service/billing_session.go`, `funding_source.go`, `billing.go`) | one session per request: amounts held on token and source, trust, settled and refunded flags | pre-consume with fallback between sources, reserve, settle, refund in a goroutine | the session's fields always account for what was taken; a success costs its price once, a failure nothing; nothing is refunded after a commit |
| relay handlers (`controller/relay.go`, `relay_upload.go`, `relay/deepseek_tools_handler.go`) | retry counter, error | price, pre-consume, attempt, retry, deferred refund, violation fee | every path ends in a settlement or a refund |
| prices (`service/tiered_settle.go`, `image_billing.go`, `text_quota.go`, `quota.go`, `violation_fee.go`) | price snapshot | quote, requote for a retry, real price | the charge equals the real price |
| asynchronous tasks (`relay/relay_task.go`, `service/task_polling.go`, `task_billing.go`, `model/task.go`) | task rows: status, progress, quota, poll failures | submit, insert, poll, time out, settle, refund; a user's GET that asks the upstream | every task ends, once; a failed one is returned in full, once |
| quota accounts (`model/quota_reserve.go`, `user_cache.go`, `token_cache.go`, `utils.go`) | database rows, a Redis copy, batched updates | conditional reserve, unconditional adjust | no balance is spent twice; copies converge |
| subscriptions (`model/subscription.go`) | total and used per period, a pre-consume record per request | pre-consume, adjust, refund, reset, expire | used is the sum of the period's charges |
| organization wallet (`model/organization.go`) | balance, member usage per month | reserve, adjust | as a wallet, within the member's limit |
| system tasks (`model/system_task.go`, `service/system_task.go`) | task rows and lock rows with a lease | schedule, claim, heartbeat, expire, finish | one runner at a time; a lost runner is replaced |
| login session cache (`model/user_session.go`) | a row per session, a snapshot or a tombstone of it in Redis | cached read, rotation, version change, revocation | a revoked session is not revived by a late fill; a live one is not denied for ever |
| login sessions of the dashboard (`web/default/src/lib/api.ts`, `features/auth/api.ts`, `stores/auth-store.ts`, `controller/auth_session.go`, `service/auth_session.go`) | access token and refresh cookie, shared by the tabs; per tab a user, a refresh promise and a cooldown | request, refresh and retry, login, logout | nobody is signed out whose session is alive; a logout revokes |
| playground (`web/default/src/features/playground`) | conversation, active stream or request, chunk buffer, two timers, local storage | send, stream, stop, edit, regenerate, delete, save, load | an answer is shown whole and once, ends, and is saved |
| Midjourney tasks | rows of a second task queue | submit, poll, refund | as for tasks |
| top-up, redemption, check-in | orders, codes | complete, redeem | each is credited once |
| realtime billing | a session charged while it is open | charge per response, final charge | the sum is the real price |
| channel selection, API keys, rate limits | caches, counters | select, disable, admit | not part of this project |
| adaptors, plugins, price expressions, the other pages of the front ends, the desktop shell | none of interest | translate, show | not part of this project |

How they interact: a handler owns a session, the session calls the accounts; a
refund runs in a goroutine that outlives the handler; a task handler leaves a row
behind, and any node that holds the polling lease works on copies of such rows
and calls the accounts directly; leases expire while their holder still works.  A
user's GET on a Gemini or Vertex task asks the upstream, too, and writes the row.
A poller's lease is a system task's.  A page's request meets an access token that
has expired, which makes its tab refresh it with the cookie all tabs share; the
server looks the session up in Redis first and in the database on a miss.

What is hard, and where it is listed: `PROJECT.json` "hazards" has each case at
its line.  The groups are balances checked before they are taken, a call that
fails between two calls that belong together, refunds that are retried or race
with a commit, passes and GETs that write stale copies of rows, a node that stops
between two writes, tasks no query finds any more, claims and sweeps that outlive the lease
they looked at, cache fills that outlive a revocation, messages between browser and
server that are lost or overtaken, and clicks between two timers.

## 2. Modules

| module | what it is |
|---|---|
| `Ledger` | what billing promises for each request, abstractly |
| `BillingSession` | requests of one user and their sessions on shared accounts; implements `Ledger` |
| `BillingSessionProofs` | TLAPS proofs about it, one request at a time |
| `BillingLedgerProofs` | the refinement of `Ledger`, and the wallet's debt over all requests |
| `MCBilling` | its instances for TLC |
| `TaskLifecycle` | submission, polling and billing of asynchronous tasks |
| `TaskLifecycleProofs` | TLAPS proofs about it |
| `MCTask` | its instances for TLC |
| `JobQueue` | what the system tasks of a type promise, abstractly |
| `SystemTask` | claims, leases, sweeps and completions; implements `JobQueue` |
| `SystemTaskProofs` | TLAPS proofs about it, the refinement included |
| `SessionCache` | a login session's row and its snapshot in Redis |
| `SessionCacheProofs` | TLAPS proofs about it |
| `LoginSession` | the browser's tabs against the refresh and logout handlers |
| `LoginSessionProofs` | TLAPS proofs about it |
| `Playground` | the chat page |
| `PlaygroundProofs` | TLAPS proofs about it |
| `MCSystemTask`, `MCSessionCache`, `MCLoginSession`, `MCPlayground` | their instances for TLC |

### BillingSession

`sess[r]` is the session of request `r` with the Go fields' names, the position
`pc` of its handler and the position `rpc` of its refund goroutine.  `acct` holds
what is left in the wallet, the organization wallet, the subscription and the API
token, which all requests share.  `paid[r][a]` records the net charge of `r` on
`a`; the code has no such variable, the properties speak about it.

One action is one call that touches an account, because only the database
statement is atomic; what the code computes between two such calls belongs to the
step.  A path through the positions is a path through the code:

    idle -> [hassub] -> [wallet] -> token -> fund -> prepare -> upstream -> settle -> stoken -> done
                                      |       |        |  ^        |                        |
                                  rejected untoken  rfund |retry  failed -> feefund -> feetoken -> done
                                                    rtoken/runfund

* `PreConsumeBilling`, `HasActiveUserSubscription`, `TryWallet` and `Fallback` are
  `NewBillingSession`: the source follows from the kind of key and the user's
  preference, `wallet_first` and `subscription_first` fall back when the first
  source is short, and only then.
* `PreConsumeToken`, `PreConsumeFunding`, `RollbackToken` are `preConsume` with the
  trust bypass of `shouldTrust`, which decides on balances read earlier.
* `Reserve`, `ReserveFunding`, `ReserveToken`, `RollbackFundingReserve` are
  `reserve`: a requote before an attempt.  A wallet reservation that is not
  `require`d is taken even if it leaves a debt.
* `SettleEven`, `SettleFunding`, `SettleToken`, `SettleTool` are `Settle` and
  `SettleTokenBilling`.  A handler that cannot settle logs the error and answers
  with success, except the upload proxy, which fails and refunds.
* `Refund` is the deferred call, `RefundWallet`, `RefundSubscription`,
  `RefundExtra`, `RefundToken` the goroutine.  `ChargeFeeFunding` and
  `ChargeFeeToken` are the violation fee, charged while the goroutine runs.

Every call may also fail without effect (`Fault`); `clean` remembers whether that
happened to a request.  The outer transaction of a subscription refund may fail
*after* the nested one has committed.

`Ledger` is the abstraction: a request's bill is open, and then closed for good in one
step, as charged (the real price, on the source and the token; or, for a token
subscription, tools on the wallet), free, fined (the violation fee), short (the
subscription could not pay the rest of the price, and what was reserved is kept), or
disputed (one of its database calls failed).  `Bill(r)` maps a session to its bill: open
until both the handler and the refund goroutine have ended, then `paid[r]`.  Holds,
raises, retries and partial refunds are stutters of the ledger, and so is everything
that happens to another request's balance.

Abstractions.  A change of the auto group starts the count of retries again
(`channel_select.go:185`), as often as there are groups; `MaxRetries` stands for the
attempts in all of them.  Prices are members of small sets: what a price is made of is
floating-point arithmetic.  An account is one atomic cell: the Redis copy and the
batch updater are left for a module of their own.  The subscription has one
period, and `SubTotal = 0` stands for having none; plans without a limit are not
covered.  A token subscription counts tokens, not quota; both are numbers here.  A
request for a free model has no session until a retry in a paid group creates one;
the model starts where the session does.  A
process that stops in the middle of a request loses the session, which is held in
memory only: the code does not handle that and the model does not include it.

### TaskLifecycle

`sub[t]` is the handler of the submission, `row[t]` the task's row, `item[p][t]`
the copy of it that the pass of poller `p` works on, `paid[t]` the net charge on
the funding source and on the token.  `RelayTask` settles and then inserts the
row; `executeTaskSubmission` (the plugin bridge) inserts and then settles, so that
a pass can see the task before it is settled.  A pass first fails what is past the
time limit, then polls what is unfinished: `PollProgress`, `PollSkipped`,
`PollTerminal`, `PollError` cover every answer of `updateVideoSingleTask` and
`updateBatchTasks`.  `BulkFail` is what happens on any error of `CacheGetChannel`: the
channel was deleted, is missing in the node's cache, or could not be read from the
database; it may therefore happen to any task at any time.  `UpdateWithStatus`
writes the whole stale copy when the row still has the status the copy was loaded
with; the winner bills in three steps, `AdjustFunding`, `AdjustToken`,
`UpdateQuota`.  `Cancel` is a lost lease seen by the pass, a second poller is a lost
lease it has not seen, `Crash` a node that stops.

A user's GET on a task of a Gemini or Vertex channel (`kind[t].realtime`) is a third
writer of rows: `videoFetchByIDRespBodyBuilder` loads the row, finished or not (`Get`),
`tryRealtimeFetch` asks the upstream and stores its whole copy with the new status and
progress if the row still has the status it was loaded with (`GetStores`), or leaves it
(`GetDrop`).  It looks at neither the end of the task nor its billing.  What can be stored is
`Answered`, the results of the two plugins' `parseTaskResult`: `IN_PROGRESS` with 50%,
`UNKNOWN` without a progress, or an end with 100%.  A pass never stores `UNKNOWN`; a row
that has it is polled and timed out like every unfinished one.

Two ghosts name what the properties cannot claim.  `fetched` has the tasks whose end was
stored by a GET, or whose ended row was changed by one; a GET that writes an unfinished
row leaves its task out of it.  `orphaned` has the tasks failed by `BulkFail`.

Abstractions.  The session of the submission is one step per operation here, its
interleavings are in `BillingSession`.  `ImageTaskSubmit` settles and inserts in the order
of `RelayTask` and is not told apart from it.  Of the accounts only the subscription can
refuse a charge; whether a wallet covers a reservation is left open.  Five statuses
stand for seven: the unfinished ones differ only in name, and two of the reported ones
are kept because the compare-and-swap tells them apart.  Progress is "100%" or not.  A query returns
all rows it selects; its `LIMIT` only delays a row to a later pass.
`TaskPollMaxFailures` and `TaskTimeoutMinutes` are positive (their defaults; zero
switches the mechanism off).  Rows have distinct upstream ids.  Rows older than
`TaskRefundLegacyCutoff`, which are never refunded, are left out.

### SystemTask and JobQueue

`status` and `lockedBy` are the task rows of one type, `lock` the row of the type in
`system_task_locks`, `pc[r]` the position of runner `r` in its claim or its sweep,
`exec[r][t]` the handler of `t` that runs on `r`.  `ClaimSystemTask` and
`ExpireStaleSystemTaskLocks` are not transactions, so each statement is an action:

    ClaimRead -> ClaimInsert -> [ClaimLookup -> ClaimTakeOver -> [ClaimMark]] -> ClaimUpdate
    SweepRead -> SweepMark -> SweepDelete

A handler is renewed by `Heartbeat` and ends with `FinishSystemTask` and
`FinishRelease`.  A heartbeat that finds its lease lost, or fails, cancels the handler,
which goes on until it notices.  `Crash` stops a node; a restarted node is a new runner.

Time is abstracted.  `LeaseExpires` makes `locked_until` pass.  Every operation
compares it with the `now` it read when it began, so `past[r]` says that the lock was
expired at that moment; it stays true until the lock row is replaced or deleted.
Nodes' clocks agree.

`JobQueue` is what the scheduler and its readers rely on: one active task of a type, a
task is started once, by one runner, and ends once.  The refinement mapping takes
`status` and `locked_by` of the rows; lock, positions and handlers are hidden.  The
unique index on `active_key` is what makes `Create` wait.

### SessionCache

`row` is the session's row, `cache` the hash in Redis with the ticks it has left.  A
`Reader` runs `GetUserSessionCached`, `RotateUserSessionRefresh` or
`AdvanceUserSessionAuthVersion`: capture a deadline (`Deadline`, `Rotate`, `Advance`),
read or change the row, then publish the snapshot for what is left of the deadline
(`Fill`, `FillRefused`, `FillStale`, `FillFails`, `FillDone`, `Confirm`).  A `Revoker` runs
one of the three revocations: `Fence` (a `revoking` entry), `Commit`, `Tombstone`;
`RevokeUserSessionByRefreshHash` holds the row's lock meanwhile (`Locked`).  `Refused`
is the Lua script: an active snapshot does not replace a deny entry, nor an older
version a newer one.  Redis and the database may fail at every call.  `Init` is the
state `CreateUserSession` leaves behind without its fill, which is a reader's.

`since`, `buried` and `late` are ghosts: ticks since the row last changed, whether a
tombstone was published after the commit, and whether a call began after that.

### LoginSession

The tabs of one browser share `cookie`, `token` and `stored`; each has its `user`, its
`refresh` (the promise and its message) and `cooling`.  A request is sent with the token
of that moment (`Open`), answered (`Serve`), and on a 401 joins or starts the refresh of
its tab (`ReceiveUnauthorized`), to be repeated once (`RefreshSucceeds`).  The server
rotates the secret of the cookie it is given (`RefreshRotates`), derives the same next
secret again for the previous one within 30 seconds (`RefreshRace`), revokes the session
when it sees the previous one later (`RefreshReuse`), and answers 401 otherwise
(`RefreshInvalid`).  `AuthLogout` revokes the session the access token names, or the one
whose cookie proves possession.  Every message can be delayed, overtake another or get
lost; answers other than 401 start the cooldown.

When a tab first opens a page that needs a login, `routes/_authenticated/route.tsx:30`
asks `getSelf` and signs the user out not only on a 401 but on any answer that says
`success: false`, which with status 200 is a database error.  That visit is not an action
of the model: its 401 takes the path of every other request, its 200 is left out.

The server is atomic here; its interleavings are those of `SessionCache`.  Secrets are
numbers: the next one is derived from the one before.  An access token is named after
the rotation it came with, and all tokens of a session expire together.

Four ghosts serve the properties.  `newest` is the session of the last login that was
delivered, `seen[s]` the last secret of session `s` that was.  Two name the exceptions.
`disturbed`: a message carrying a new secret was lost, was overtaken by two rotations or a
later answer, took longer than the window, or met a database that failed.  `crossed`: an
answer about one session arrived when the browser held a cookie of another.

`seen` is what "a later answer" is measured with.  Comparing the answer with the cookie was
not enough: when the cookie already belongs to a second session, an answer that was outrun
by a later one of the first session went unnoticed and put an old secret back in the jar.
With it `SessionRenewable` and `LogoutRevokes` hold after a `crossed` answer too, and no
longer except it.

### Playground

`ui` is the mounted component: messages, editor, flags, the refs of stream, request and
chunk buffer, and the two timers.  `stored` is local storage, `net[r]` the connection of
request `r`, `recv[r]` (a ghost) all that arrived for it.  The pure functions of
`lib/message` and `lib/storage` keep their names and work on records; a hook's callback
is a function from `ui` to `ui`, as in the code, so that an action applies the same
compositions: `[DONE]`, for example, is
`handleStreamComplete(closeActiveStream(...))`.

Text is a sequence of tokens.  Upstreams send deltas or snapshots of all text so far
(`mode`), and `mergePendingStreamChunk` and `getAppendableChunk` guess which it is: the
guess is modelled by what it does, including the delta it takes for a snapshot
(`merged`).  Deltas are single tokens, so the delta that is swallowed equals the text
before it; in the code any longer delta that begins with that text is swallowed as well.
`mixed` remembers that an edit was submitted while an answer was arriving.

Abstractions.  Versions of a message, think tags, names, times and sizes are left out;
`MAX_STORED_MESSAGES` is a constant.  `removeMessageByKey` is a filter in the code; keys are
distinct (part of `IInv`), so it takes out the one message with the key.  `config.stream` is read
when the page is created and no control changes it, so `stream` is fixed.

A save may fail: `saveMessages` catches the error (the browser's quota, a message that
does not fit the schema), logs it and returns, and the timer is not armed again.
`outdated` (a ghost) remembers that the last write failed.

A reload of the tab (`Reload`) saves nothing and ends every connection.  Going to another
page and coming back (`Remount`) saves what the timer had not, and ends none: the hooks'
cleanups clear timers only.  The stream or request of the page that was left goes on, and
its handlers call `updateMessages` of a component that is gone.  React drops the update,
but it may evaluate the updater of the first one eagerly, and the updater calls
`persistMessages`, whose timer then writes the conversation of the left page over the
stored one.  `left` holds the conversations of such pages, `LateSave` is the write, at any
later time or before the page is opened again (`Remount`).  The conversation
written is the left one with its last answer continued, completed, failed or answered
(`LateAnswers`); how much text came late is not told apart.  After it `outdated` holds: the
page shown does not know that its storage was replaced.

## 3. Properties and runs

| run | instance | shows |
|---|---|---|
| `billing_safety` | 2 requests, 8 kinds, 1 failing call, about 1.6 million states | the session's invariants, below |
| `billing_ledger` | 2 requests, 4 kinds, 1 failing call, 1 upstream retry, about 240 thousand states | `LedgerSpec`, `RequestsFinish` |
| `billing_torn_refund` | 1 request, 1 failing call | a violation of `NoDoubleRefund` |
| `billing_sqlite` | 1 request, no failing call | a violation of `FailureCostsNothing` |
| `task_safety` | 1 task, 2 pollers, 1 GET, 1 failing call or crash, about 670 thousand states | the task's properties, below |
| `task_double_refund` | 1 task, 1 poller, 1 GET, no failure | a violation of `RefundedOnce` |
| `task_stuck` | 1 task, 1 poller, no failure | a violation of `TasksEnd` |
| `task_refund_lost` | 1 task, 1 poller, no failure | a violation of `RefundsComplete` |
| `playground` | 2 requests, 2 other clicks, failed saves or late writes, 2 chunks, about 850 thousand states | the page's properties, below |
| `system_task` | 2 tasks, 2 runners, 1 failing call, a crash, about 190 thousand states | the queue's properties, below |
| `session_cache` | 2 readers, 1 revoker, 2 ticks, 2 versions, about 470 thousand states | the cache's properties, below |
| `login_session` | 2 tabs, 3 requests, 2 logins, 2 rotations, about 720 thousand states | the session's properties, below |

`BillingSession`:

* `IInv`: the inductive invariant of the proofs, checked here as well.
* `EndsConsistent`: how a session may end: without an error and without settlement only
  when it gave its hold back or its subscription is short.  It fails if an answer that is
  not billed skips the deferred refund.
* `BooksMatch`: at every step, what the session's fields say was taken is what was
  taken.  It fails if any rollback, reservation or refund forgets a field.
* `ChargedExactly`: a settled request paid its real price once on source and token.
* `FailureCostsNothing`: a failed request whose refund has ended paid at most the fee.
* `NoQuotaCreated`: no sequence of failures returns more than was taken (the
  subscription only as long as no call failed, see the finding).
* `CommitExcludesRefund`: a committed source is never refunded.
* `DebtIsUsage`: the wallet's debt is bounded by usage charged after the fact, so two
  requests never hold the same quota.
* `LedgerSpec`: the refinement of `Ledger`.  It fails if a refund forgets what `reserve`
  added.
* `RequestsFinish`: retries, fallbacks and refund attempts end.

`TaskLifecycle`:

* `IInv`: the inductive invariant of the proofs, checked here as well.
* `FailureLimit`: an unfinished task is below the limit of consecutive poll failures,
  whatever stale counts are written back: the answer that reaches it ends the task.
* `QuotaIsCharge`: a row's quota, which a refund will return, is what was charged,
  although passes and GETs write stale copies of the whole row.
* `NoOverRefund`: overlapping passes, failures and crashes never return more than was
  taken.
* `FailureIsRefunded`: a task that a pass failed cost nothing once the pass is done.
* `OutcomeIsFinal`: no pass reopens or reverses a finished task.
* `PolledTasksEnd`: whatever the upstream answers, the time limit ends the task.

All but the last except the tasks in `fetched`, and the two about failures and outcomes
those in `orphaned`: `task_double_refund` and `task_refund_lost` show why.

`SystemTask`:

* `IInv`: the inductive invariant of the proofs.
* `RunningIsLeased`: a running row has a lease, so a lost runner is found out.  It fails
  if a sweep deletes a lock that is not the one it read.
* `OneExecutor`: a task's handler runs on the runner its row names only.
* `QueueSpec`: the refinement of `JobQueue`.  It fails if a stale sweep may end a task
  that is not running.
* `TasksEnd`: crashes, lost leases and database errors only delay a task.

`SessionCache`:

* `IInv`: the inductive invariant of the proofs.
* `RevokedIsDenied`: a call that begins after the tombstone does not report the session
  as active, however late the snapshots in flight are published.
* `StaleIsBounded`: one time limit after the row changed, Redis holds no active snapshot
  from before, even if the tombstone was lost.
* `DeniedRecovers`: a fence whose transaction failed does not lock the session out for
  ever.

`LoginSession`:

* `IInv`: the inductive invariant of the proofs.
* `TypeOK`, with the bound on the chain of secrets: no race derives a secret ahead of
  the row's.
* `SessionRenewable`: the cookie is the current secret, or the one before while the
  answer with the current one is on its way and the server still accepts it.
* `NoFalseSignOut`: a tab keeps its user while the session is not logged out.
* `LogoutRevokes`: a logout answered with success has revoked the session.
* `NoOrphanWait`: a request held back by a 401 has a refresh that will settle.

`Playground`:

* `IInv`: the inductive invariant of the proofs.
* `TypeOK`.
* `NothingLeftPending`: no message is left loading when nothing would finish it.
* `FullText`: an answer is exactly what arrived for it.
* `FinishedIsFinal`: no late chunk, flush or response changes a finished answer.
* `SavedOrScheduled`: storage is up to date or a save is due, unless the last write
  failed or was that of a page that was left.
* `GenerationEnds`: the page stops generating, unless the stream was cut (section 4).

The exceptions in these properties (`slow`, `disturbed`, `crossed`, `merged`, `mixed`,
`Cut`, `outdated`, `fetched`, `orphaned`) name cases in which the code does not do it;
section 4 describes them.

The task properties speak of submissions whose settlement went through
(`Settled`).  When `SettleBilling` fails at submission, the handler only logs it and
stores the full price in the row; a later failure then returns more than was taken.
That case is a hazard in `PROJECT.json`.

### Bounds

Two requests are enough for every interference between sessions: they meet only in
the accounts, and a step of one sees of the other only the balance.  The balances
(3, 2, 3, 3) and prices (0, 2, 3) are chosen so that each account covers one
reservation and not two, a requote and a settlement can go up, down and below zero,
a price of 0 on a subscription reserves 1, and the trust limit of 2 is crossed in
both directions.  One failing call suffices for every single failure at every place;
`RefundAttempts` is the code's 3, so a refund that fails and is retried is included.
A second retry of the upstream call repeats the positions of the first.  `billing_ledger`
leaves the fee for rejected content out (it triples the states): what a fine leaves
behind is checked by `billing_safety`, and that it closes the bill exactly is part of
the theorem `LedgerRefinement`.

For tasks, two pollers are what a lost lease can produce, and tasks meet only in the
subscription.  Two poll failures reach the limit and its reset; a subscription of 3
covers a task and refuses the larger of its completions.  `MaxFaults` bounds failing
calls and crashes together, one of either at every place.  One GET, whose load and write
have any steps of two passes between them, is enough to end a task, to reopen one and to
write a stale copy; more than one is left to the theorems.  The violations need no
failing call.

`system_task`: two runners are what a claim, a sweep or a take-over can meet, and two
tasks what a stale sweep or an old lease can be about.  `session_cache`: with two ticks a
snapshot can be fresh, aging and stale; two readers let one fill after the other; two
versions let a snapshot be older than the row.  A larger instance (two revokers, 1.8
million states, one tick) passes as well; the theorems have no bound.  `login_session`:
two tabs, one with two requests to share a refresh, two sessions or two rotations of one;
three exchanges at a time with one session and two with two.  The state constraint `Calm`
expands a disturbed state only with one session rotated once and two exchanges: the three
properties with exceptions say nothing about disturbed states, and no state becomes
undisturbed again.  `playground`: two requests for every order of an old and a new answer,
two chunks for a buffer that is flushed between them, three stored messages so that the
trimming happens.  `MaxClicks` is one budget of two for clicks that send no request
(reload and leaving among them), saves that fail and late writes, so that any two of
these meet: leaving and a late write, an edit and a failed save.

### Fairness

`BillingSession`: weak fairness of each handler and each refund goroutine.  The Go
runtime schedules both, and every call in them has a time limit.  Nothing is assumed
about what a call returns.

`TaskLifecycle`: weak fairness of each submission, of each poller (the scheduler
starts a pass as long as `HasTaskPollingWork`) and of `Age` (time passes).  Cancelling
and crashing are not assumed; crashes, failing calls and GETs are bounded, so they cannot
keep a task from ending for ever.  `PolledTasksEnd` is claimed if passes overlap for a
while only (`<>[]OnePass`): the lease is there to have one, and with two at once for ever,
one could lose every compare-and-swap to the other's status changes.

`SystemTask`: weak fairness of each runner's claim and sweep once begun, and of its
handler; strong fairness of beginning a sweep and a claim, which the runner's loop does on
a ticker forever; and weak fairness of the expiry of a lease that nobody renews.  Strong,
because a runner's claims and sweeps take turns and the other runner's change the lock, so
that either is disabled for a while again and again.

`SessionCache`: weak fairness of `Tick` only.  No reader or revoker has to finish.

`Playground`: weak fairness of the network (a connection ends in some way) and of the two
timers; none of the user.  `LoginSession` has no liveness property: `NoOrphanWait` says in
every state that what is waited for is under way.

### Deadlock

The billing and task runs check for deadlock: `Terminating` allows the states in which all
requests or tasks have ended, and only those.  `session_cache` checks it too.
`system_task`, `login_session` and `playground` may stop: when all tasks have ended, the
logins of the bound are used up, or the user does nothing.

## 4. Findings

* *A retried subscription refund can pay twice.*  `RefundSubscriptionPreConsume`
  returns the amount through `PostConsumeUserSubscriptionDelta` on the global handle,
  a transaction of its own.  When the outer one then fails to mark the record,
  `refundWithRetry` starts over (`billing_torn_refund`).
* *On SQLite it cannot pay at all.*  With immediate transactions the nested one waits
  for the lock its caller holds until the busy timeout, three times
  (`billing_sqlite`).
* *A task that reports 100% early never ends.*  The three queries for unfinished
  tasks leave out a progress of 100%, the time limit's included, and both update paths
  store the progress the upstream reports (`task_stuck`).
* *A user's GET can make a task be refunded twice.*  `tryRealtimeFetch` compares the row
  only with the status it loaded, a final one included.  A GET that loads a failed row
  before the refund has cleared its quota, and learns from the upstream that the operation
  is running, writes the row back unfinished and with the quota; the next pass ends and
  refunds it again (`task_double_refund`).
* *The tasks of a channel that is not found keep their charge.*  They are failed with
  `TaskBulkUpdateByID`, whose comment forbids that use, and the pass that would refund
  them later, which the tests call, does not exist (`task_refund_lost`).

Cases that the properties name as exceptions, found while they were formulated:

* *A GET that sees the end first* (`fetched`, `relay_task.go:594`) stores `SUCCESS` or
  `FAILURE` without settlement or refund, and the row is in no query of a pass any more:
  a failed task keeps its charge, a finished one its estimate.  A GET on an ended row
  can reopen it, reverse it, or give it a quota that was already returned.
* *A channel that cannot be looked up once* (`orphaned`, `task_polling.go:422`): a database
  error or a cache that is behind fails all unfinished tasks of a channel that exists,
  whatever their rows say by then; an upstream that finishes them is not asked again.
* *A claim slower than its lease* (`slow`, `model/system_task.go:250`).  The claim marks the
  row running without looking at the lock again.  When another node has meanwhile expired
  and deleted the lock, the row is running without a lease: no sweep finds it, and its
  active key keeps the type from being scheduled again until the handler, if any, ends.
* *A database error signs the user out* (`disturbed`, `service/auth_session.go:221`,
  `middleware/auth.go:271`).  `RefreshLoginSession` turns any error of the session lookup,
  also a failing database, into an invalid token: 401, and the cookie is cleared.
  `writeDashboardAuthFailure` answers 500 only for two sentinel errors, which the raw errors
  of the transaction are not.  `api.ts:80` says that outages do not invalidate the session.
* *A refresh whose answer is lost* (`disturbed`, `api.ts:59`) leaves the browser with the
  previous secret; if nothing refreshes within 30 seconds, the next refresh looks like a
  stolen token and revokes the session.  That is the server's intent, at the user's expense.
* *A late answer about an older session* (`crossed`, `api.ts:188`): the 401 of a request sent
  before a new login clears the new token and user.
* *A failed logout says "Signed out"* (`sign-out-dialog.tsx:19`): the error is swallowed, and
  the session, the token and the cookie stay until the next login replaces them.
* *A delta that begins with the text before it* (`merged`, `message-streaming-utils.ts:56`) is taken
  for a snapshot and swallowed: "ha" "ha" is shown as "ha".
* *Save and submit in an editor that was opened before* (`mixed`,
  `use-playground-conversation.ts:58`): opening an editor is refused while an answer is
  generated, submitting one is not; the old plain answer can then land in the new message.
* *A stream that ends without `[DONE]`* (`Cut`, `stream-utils.ts:79`): with status 200 no
  listener reacts, and the page generates until the user presses stop.
* *A save that fails* (`outdated`, `storage.ts:402`): the error is logged, and the
  conversation is stored again only after its next change.
* *A page that was left writes* (`outdated`, `use-playground-state.ts:232`): the answer that
  goes on can put the left conversation over the one shown now, until that changes again.

## 5. Proofs

`BillingSessionProofs` proves, for any set of requests and profiles, any prices,
balances, retry limit and number of failing calls that satisfy `BillingAssumption`:

| theorem | statement |
|---|---|
| `Invariance` | `Spec => []IInv` |
| `TypeCorrect` | `Spec => []TypeOK` |
| `BooksAlwaysMatch` | `Spec => []BooksMatch` |
| `SettlementIsExact` | `Spec => []ChargedExactly` |
| `NoQuotaCreatedAlways` | `Spec => []NoQuotaCreated` |
| `CommitExcludesRefundAlways` | `Spec => []CommitExcludesRefund` |
| `FailureIsFree` | `~SingleWriter => (Spec => []FailureCostsNothing)` |

None of the properties is inductive.  `BooksMatch` says nothing about a session
whose fields do not fit its position: a session "at" `rtoken` with `quota < pre`, or
one that is refunding although it settled, satisfies it and loses it in the next
step.  `IInv == TypeOK /\ SessionsConsistent /\ BooksMatch` adds how the fields depend
on the positions: `HoldConsistent` (which amounts are held where), `CommitConsistent`
(which flags can be set where), `RefundConsistent` (what the goroutine has returned)
and `TokenFloor` (the token never gets back more than it gave, also after failed
calls, when its books no longer match).

The proof has one lemma per action.  Each shows that the acting request's session
keeps the four parts and its books, and a frame lemma carries the other requests,
whose `sess`, `prof` and `paid` do not change; no invariant mentions a balance, which
is why the interference of requests on the accounts costs the proof nothing.
`FailureIsFree` needs `~SingleWriter`: the run `billing_sqlite` shows why.

`BillingLedgerProofs`, from the same assumptions and a finite set of requests
(`RequestsFinite`):

| theorem | statement |
|---|---|
| `EndsAlwaysConsistent` | `Spec => []EndsConsistent` |
| `DebtIsAlwaysUsage` | `Spec => []DebtIsUsage` |
| `LedgerRefinement` | `~SingleWriter => (Spec => LedgerSpec)` |

`IInv` does not say that a settled session has one of the prices an answer can have, nor
why a session may end without settlement; `EndsConsistent` does, and is inductive together
with `IInv`.  One lemma per action shows `Steps(r)`: the other requests are not touched,
`EndConsistent` is kept, a failed call is not forgotten, and either the wallet covers what
is taken from it or the request's `Unasked` amount grows by as much.  Most actions leave the
session's money as it is (`Quiet`) and share one lemma.

The debt is a sum over the requests.  A fold over a set cannot be reasoned about here, so
`DebtIsUsage` counts units instead: `Units(f)` has `f[r]` pairs for each `r`, its
cardinality is the sum, and `UnitsChange` shows with the library's facts about finite sets
(union, product, interval, image) that a change at one request changes it by as much.  Then a
step either leaves the wallet non-negative, or debt and `Unasked` grow together.

For the refinement, a step of `r` finds its bill open or disputed (`StepOpen`), and what
it leaves is classified by `EndCharged`, `EndTools`, `EndFined`, `EndFree` and `EndShort`: the
books of a finished clean session, computed from `IInv` and `EndConsistent`, are the charges
of the ledger's action.  It needs `~SingleWriter` for the reason `FailureIsFree` does.

`SystemTaskProofs`, for any sets of tasks and runners and any number of failing calls:

| theorem | statement |
|---|---|
| `Invariance` | `Spec => []IInv` |
| `RunningTasksAreLeased` | `Spec => []RunningIsLeased` |
| `ExecutionIsExclusive` | `Spec => []OneExecutor` |
| `Refinement` | `Spec => QueueSpec` |

`RunningIsLeased` alone is lost when a sweep or a take-over works with a lock it read
before: `LoopsOK` says that an operation that saw the lock expired and finds the same row
still deals with an expired lock of the task it read, `LeasesOK` that it then sees the task
pending or already marked failed, and that a claim past the lock owns a lease that has not
expired, unless `slow`.  `OneActive` is the unique index, `RowsOK` ties handlers to rows.
`Refinement` needs little of it: a row that does not exist yet names no runner (`RowsOK`), and
a claim or sweep works on a task (`LoopsOK`); then every action maps to `Create`, `Start`,
`End` or a stutter by its own guard.

`SessionCacheProofs`, for any sets of readers and revokers, any time limit and number of
versions:

| theorem | statement |
|---|---|
| `Invariance` | `Spec => []IInv` |
| `RevocationHolds` | `Spec => []RevokedIsDenied` |
| `StalenessIsBounded` | `Spec => []StaleIsBounded` |

The argument is about ages.  A snapshot that differs from the row was read before the row
changed, so what is left of its deadline and the ticks since the change add up to at most the
time limit (`SnapshotAge`, `EntryAge`); a tombstone starts with the whole limit after the
change, and so outlives every snapshot that could replace it (`Covered`).  That is the
comment of `writeUserSessionCache`, and the mutant that captures the deadline after the row
was read breaks it.

`TaskLifecycleProofs`, for any sets of tasks, pollers, clients, kinds and quotas, any
subscription and limit of poll failures, and any number of GETs, failing calls and crashes
(`TaskAssumption`):

| theorem | statement |
|---|---|
| `Inductive` | `Spec => []IInv` |
| `FailuresAreBounded` | `Spec => []FailureLimit` |
| `RowsSayTheCharge` | `Spec => []QuotaIsCharge` |
| `RefundsAreBounded` | `Spec => []NoOverRefund` |
| `FailuresAreRefunded` | `Spec => []FailureIsRefunded` |
| `OutcomesAreFinal` | `Spec => OutcomeIsFinal` |

A pass works on copies, and writes them back whole; the properties say nothing about copies,
so none is inductive.  `CopiesFollow` says that a copy in hand, however old, is unfinished and
has the quota the row was inserted with: writing it back over an unfinished row changes no
quota.  The same holds for an unfinished copy in a GET; a finished one can only be stored over
a finished row, and then the task is in `fetched` or nothing changed.  `Books` gathers these
parts and is claimed of tasks not in `fetched`; `RowExists` holds of all, so that a task whose
books are lost cannot disturb the rest.  `OneMover` says that only the pass that won the compare-and-swap moves quota, and
`MovesTracked` how far it has come: the accounts differ from what the handler took (`Taken`)
by exactly the moves made so far.  `Taken` looks at the submission because the plugin bridge
settles after the row exists, and a pass can bill the task before that.  `ReturnsAll` is
`FailureIsRefunded` with the moves still to come.  There is one lemma per action and a frame
lemma for the other tasks, which meet in the subscription only (`left \in 0..SubTotal`).

`LoginSessionProofs`, for any tabs and requests and any number of logins and rotations
(`LoginAssumption`), without the state constraint of the run:

| theorem | statement |
|---|---|
| `Inductive` | `Spec => []IInv` |
| `TypeSafe` | `Spec => []TypeOK` |
| `NoRequestIsOrphaned` | `Spec => []NoOrphanWait` |
| `SessionsStayRenewable` | `Spec => []SessionRenewable` |
| `LogoutsRevoke` | `Spec => []LogoutRevokes` |
| `NobodyIsSignedOut` | `Spec => NoFalseSignOut` |

`SessionRenewable` speaks of the cookie in the jar; what decides about it is on its way.
`Structure` holds always; `Undisturbed` adds, until a message is lost or outrun, that the
browser has the current secret of each live session or the answer with it is coming inside
the window (`SeenGood`), that what was sent is still accepted when it arrives (`SentGood`), that
an answer brings a token that has not expired (`AnswerGood`), and that a 401 means that the
session is over (`RefusalOK`, `RetryOK`), whose cause is then a logout because no reuse is
seen.  `NoFalseSignOut` needs `NewestHeld` besides: the jar holds the last login's session.
The constraint `Calm` of the run cuts disturbed states short; the theorem has no such limit.

`PlaygroundProofs`, for any number of requests, clicks, failing saves, late writes and chunks, any
tokens and any storage limit (`PlaygroundAssumption`; the tokens are distinct and differ from the three texts the page
writes itself):

| theorem | statement |
|---|---|
| `Inductive` | `Spec => []IInv` |
| `TypeSafe` | `Spec => []TypeOK` |
| `NothingStaysPending` | `Spec => []NothingLeftPending` |
| `AnswersAreFull` | `Spec => []FullText` |
| `ConversationIsSaved` | `Spec => []SavedOrScheduled` |
| `FinishedStaysFinal` | `Spec => FinishedIsFinal` |

`FullText` is not inductive: a finished answer could still be the one a connection belongs to,
or the buffer hold text of another request.  `Whole` says that a finished answer's connection
has ended, `Arriving` how message and buffer make up what arrived: one after the other for
deltas, a buffer that continues the message for snapshots.  `Flags` ties the buffer and the
flags to the one open stream, which is why stopping, completing and failing all find the last
message pending, and `Conversation` says that only the last message can be; it also covers the
stored conversation, from which a reload starts.  `LeftPages` says the same of what left pages
may still write: it is a conversation in order, and its finished answers are whole.  Without it
a late write could put anything into the storage the next visit loads.  The steps of the page keep
`PageInv`, and every one of them `LeftPages`, because a page that is left has a conversation that
`PageInv` covers; a late answer carries no request (`req = 0`), like any text the user changed.  `OneAnswer` holds until two answers were in
flight (`mixed`).  The first half of the module is about the functions: what merging, flushing,
editing, removing, trimming and loading make of a message or a conversation (loading a loaded
conversation changes nothing, `LoadFields`).  Actions then fall into four shapes: the last
message is replaced, a turn is appended, messages are edited or removed, nothing is shown yet.

Only model-checked: liveness (`RequestsFinish`, `PolledTasksEnd`, `SystemTask`'s `TasksEnd`,
`DeniedRecovers`, `GenerationEnds` and the violations of `TaskLifecycle`'s `TasksEnd` and
`RefundsComplete`), because the prover does not treat fairness.  Every invariant, action
property and refinement that a passing run checks is also the statement of a theorem.

## 6. Not modelled

* Price expressions and ratios: floating-point arithmetic.
* Adaptors, format conversion, plugins: translations of payloads; the models allow
  every answer of an upstream.
* API keys, rate limits, channel selection: before or beside the billing.  The
  models allow any sequence of attempts.
* Logs, statistics and notifications (`UpdateUserUsedQuota`, `RecordTaskBillingLog`,
  quota mails): nothing reads them back for billing.
* The pages and forms of the two web front ends, which are most of the repository's
  lines: tables, drawers and editors that hold a draft, send it and show the answer.
  They have no state of their own that two actors change, and what they compute is
  layout and text.  The two parts that do are `Playground` and `LoginSession`.  The
  classic front end has a chat page of its own that is not modelled.
* Of the login sessions: expiry after 30 days and the cleanup of rows, several users in
  one browser, two-factor, OAuth and passkey logins, the deduplication of equal GET
  requests, a reload of a tab whose user is signed in and the check of its first visit
  (`routes/_authenticated/route.tsx:30`), and a change of the user's
  security version (`service/auth_session.go:234` revokes a session that refreshes
  before its own version has been advanced).
* Of the system tasks: when the scheduler creates one, the progress they store, rows from
  before `active_key` existed, and clocks that differ between nodes.
* Of the playground: model and parameter settings, think tags, message versions,
  trimming by size, the import of old storage formats.
* The desktop shell (starts a process, opens a window), routing, login providers.

## 7. Plan

In this order; each module comes with its runs and, where it is listed, its proof.

1. `QuotaReserve`: the Redis balance beside the database row, hydration, expiry,
   compensation and the batch updater; its promise is the atomic cell of
   `BillingSession`, stated as an abstract account it implements.
2. `Subscription`: reset and expiry against late settlements and refunds.
3. `TopUp`: orders and codes under repeated callbacks.
4. Duplicate upstream ids in one pass, Midjourney tasks, realtime billing.
