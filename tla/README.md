# Portal Finance: specifications

TLA+ models of Portal Finance, a personal-finance application (Next.js routes,
PostgreSQL through drizzle, pg-boss workers) that ingests bank data through
Pluggy. The modules model the parts of the program in which browser tabs,
requests, webhooks, queues and workers read and write the same rows; TLC checks
them on small instances and TLAPS proves what matters most for instances of any
size. Paths below are relative to `src/src/`.

## The system

| Component | State | Operations | What makes it hard | What makes it correct | Module |
|---|---|---|---|---|---|
| Item-status policy, `lib/pluggyItemStatus.ts` | `pluggy_items.status` | `isSyncableItemStatus` | six writers, none conditional | a disconnected item no sync holds stays so | ItemLifecycle |
| Sync worker and queue, `jobs/workers/pluggySyncWorker.ts`, `jobs/boss.ts` | item row, `accounts`, `transactions`, pg-boss tables | resolve, skip, mark, ingest, publish, enqueue detectors, rethrow | the row is read once and written later; retries; attempts that expire while their handler runs | no page without its detectors; nothing left UPDATING without a reason; deleted accounts stay deleted | PluggySync |
| Connect, sync and disconnect routes, `app/api/pluggy/items/**`; reconcile cron | item row, `user_consents`, `accounts`, `audit_log` | POST, POST sync, DELETE, hourly SELECT | statements without a transaction, Pluggy called in between | consent before ingestion; DISCONNECTED is backed by Pluggy and a REVOKED row; a stale item is refreshed | PluggySync |
| Webhook receiver, re-auth notifier and audit worker | `webhook_events`, queues, `last_reauth_email_at`, `audit_log` | insert, dispatch, debounce, send, stamp, audit | redelivery, a crash between insert and enqueue, two handlers | dispatched once; bounded e-mails; one audit row | WebhookDispatch |
| Transfer and fatura detectors | flags of `transactions` | one SQL statement each | concurrent snapshots; the order of the two; corrections | pairs are one-to-one; flags and audit rows agree | Detectors |
| Login, limiter, lockout, `app/api/auth/login`, `lib/rateLimit.ts`, `unlock` | `auth_rate_limits`, `account_locks`, the boss client | count, challenge, verify, lock, mail, unlock | fixed windows; lockouts that race; forms resubmitted while a handler runs on; a client used before it has started | the limit holds; which locks are open and have no mail | RateLimit, LoginGuard |
| Password reset and sessions, `app/api/auth/reset/**`, `lib/session.ts` | tokens, `users`, `sessions` | ask, validate, confirm, login, logout | a token is read before it is used up; logins race with resets; a confirmation is posted again while the first one runs | which old sessions survive; who signs whom out | PasswordReset |
| SES bounces, `webhooks/ses/bounces`, `sesBounceWorker.ts` | `webhook_events`, `ses_suppressions` | store, enqueue, suppress recipient by recipient | a retry after half the recipients, beside a handler that outlived its attempt | a processed event is on the list | SesSuppression |
| Privacy requests, `api/privacy/**`, `dsrAcknowledgeWorker.ts`, `lib/mailer.ts` | `dsr_requests`, audit rows, the card | confirm, insert, enqueue, guard, send, audit | the list is read before the SES call; retries; expired attempts | late mail was in flight; what is shown is mailed | DsrRequests |
| Signup, consent, connecting: `signupCore.ts`, `connect/page.tsx`, `api/connect/init`, the widget | `users`, `user_consents`, tabs | sign up, render, consent, CPF, link, post | a page is acted upon long after it was rendered; two tabs | one account; consent before linking; the limit and the CPF only give way to races | ConnectFlow |
| Connections page, `app/settings/connections/**`, `ConnectionCard.tsx` | the page, both sync stamps | render, count down, sync, remove | page and route look at different columns at different times | an enabled button is honest | ConnectionsPage |
| Transactions page, `app/transactions/**` | links, offset cursor | choose, filter, read on | rows are ingested between two pages | nothing stable is missed | TransactionsPage |
| Rendering, crypto, validation, configuration, logging, deployment | - | - | - | - | - |

How they interact: routes and the cron write rows and put jobs on queues; the
receivers put jobs on queues; workers read the row a job names, write it, and
enqueue further jobs. All communication is through PostgreSQL (pg-boss
included); there are no callbacks and no locks in the code. Pages are rendered
from one read of the database and post to routes that read it again, or do not.

`PROJECT.json` lists all components with their status, the hazards with their
lines, and the source lines of every definition.

## Modules

The grain is the same everywhere: one action per awaited statement that reads or
writes shared state; a program counter per request, handler or tab; a failed
statement or a dead process is an action of its own, bounded by `MaxFaults`. A
connection that is lost ends nothing on the server: the handler runs on, nobody
waits for it, and the form or page can be used again.

Syncing:

- **ItemLifecycle**: the abstract specification of one column. `status[i]` and
  the set of handlers that hold the row (have read it and may still write it).
  A handler acquires a row only in a syncable status, then writes freely.
- **PluggySync**: the mechanism, which implements it. Rows: `status`,
  `lastSynced` (never, fresh, or stale for older than 12 h), `lastManual`,
  `consents`, `account`; `remote` is what Pluggy holds. A route in progress is
  its program counter (`connect`, `manual`, `remove`). `job` is the
  `pluggy.sync` queue, `slot` the running handlers; a handler keeps the item it
  read, and `attached` says whether pg-boss still waits for it. `Expire`
  detaches it: the job is retried and the old handler writes on. `undetected[i]`
  holds the detectors not enqueued since the last page; `lapses[i]` is history:
  attempts dropped for good, retries that did nothing; `raced` is history: items
  two handlers read before either had marked them.
- **WebhookDispatch**: receiver, re-auth notifier and re-auth audit worker. Per
  delivery a request with a program counter; per event and queue the number of
  `boss.send` calls and one job; per handler execution its statement and
  `attached`. pg-boss awaits at most `Concurrency` executions of a queue; one it
  has given up on is no longer attached but runs to its end, beside the retry.
  One debounce window: a stamp stays recent. `unstamped[i]` is history: attempts
  on the item that ended between e-mail and stamp, or were given up before it.
- **Detectors**: the flags of one user's transactions. Rows (`posting`: amount
  and day), card accounts, the flags `transfer`, `pair`, `payment`, and the runs
  of both detectors, which match on the table they find and update it as it is by
  then, while pages bring rows and corrections and cards change and are closed.

Accounts and messages:

- **RateLimit**: `lib/rateLimit.ts`. The rows of a counter are the set of hits
  they count; used by the next two.
- **LoginGuard**: `form` per tab, `req` per handler (with the tab that waits for
  it, if one does), `hits`, `lock` with its unlock e-mail, and `boss`, the lazily
  created client, which callers may use before it has started. `racers` is
  history: who stood before the insert when the user got locked.
- **PasswordReset**: passwords are numbered; a session and a login under way
  remember the one they verified, so "stale" is a comparison. Handlers (`login`,
  `ask`, `confirm`) are apart from the browsers and tabs that posted them
  (`cookie`, `asker`, `page`). `overtaken`, `uses` and `racers` are history.
- **EventInbox**: the abstract specification of both webhook receivers: an event is
  new, stored with its request at work, dispatched, or lost, and may have been
  answered. WebhookDispatch and DsrRequests (by SesSuppression) implement it.
- **SesSuppression**: a notice at SNS, its event, its job and `ids`, which counts
  a notice in `notification_ids` of an address; `stray`, the place in the loop of a
  handler that outlived its attempt.
- **DsrRequests** extends it with the card, the handlers of the two routes
  (`post`), those of the worker (`work`, `attached` as in WebhookDispatch) and the
  steps of `sendEmail`: list, SES call. `inflight` and `late` are history.

Pages:

- **ConnectFlow**: a tab is the page it shows or the statement its request has
  reached, with what the page was rendered from (`hasCpf`, `seen`). A request
  whose page has lost the connection moves to a place of its own (`Abandoned`)
  and runs on there. The person of all tabs is one user, and may have items from
  an earlier release.
- **Subscriber**: the user's tier, free or paid, that both pages read.
- **ConnectionsPage**: a clock, the two stamps of a row, pages with the instant
  until which a button counts down, requests and jobs. A tick is minutes, so the
  worker's reading of the clock (line 377) and its UPDATE (391) are one step.
- **TransactionsPage**: `windows` gives every order the query may answer in (it
  sorts by date alone); the last date of a month stands for its last millisecond,
  which no query selects; `page` is the URL and what it shows; `told` is history:
  what was there all the time, what has been shown.

`MC*` modules are instances for TLC, `*Proofs` modules hold the theorems. PagesProofs
reasons about both page modules, so the names of ConnectionsPage's own
specification carry its name (`ConnectionsInit`, `ConnectionsNext`, ...).

Where modules meet. PluggySync sees a webhook as "a sync job for item i appears"
(`WebhookEnqueue`); WebhookDispatch sees a sync job as a `sends` count.
`undetected` is PluggySync's side of the detector jobs; Detectors takes from it
that a run may start at any time. ConnectFlow and the two page modules take from
PluggySync what a sync does to the one row they show. LoginGuard ends where a
session is inserted, PasswordReset begins at the password check. DsrRequests is
composed with SesSuppression in one state space, since its properties relate
the two.

Initial states: PluggySync and ConnectFlow start from no rows, or from rows an
earlier release left, synced, consented and linked. No code of this repository
writes LOGIN_ERROR, WAITING_USER_INPUT or OUTDATED to a row, so they occur in
no run. The two page modules start from whatever rows a user may have; all others
start from empty tables. The build of DsrRequests is production or not, the user
of the page modules free or paid.

## What TLC checks

| Run | Instance | Question |
|---|---|---|
| `sync_faults` | 1 item, 1 account, 2 jobs, 2 handlers, retry limit 1, 2 faults; item new or legacy | when do two handlers sync one item; do row, accounts, consents and detectors stay consistent when attempts fail and outlive their job and the user disconnects; is ItemLifecycle implemented |
| `sync_liveness` | 1 legacy item of a paid user, reconnect and manual syncs, 1 job at a time, 1 handler, 2 faults | does every job end, is a stale item refreshed |
| `sync_first_connect` | 1 new item | the counterexample below |
| `webhook_receiver` | a login and an error, 2 concurrent deliveries, 1 notifier and 2 auditor executions, 1 fault, 1 expiry, fair | is each event dispatched once and in the end, what explains one that is not, is it audited once, the user told; is EventInbox implemented |
| `webhook_notifier` | 3 errors of one item, 3 notifier executions of which pg-boss awaits 2, 1 fault, 1 expiry | how many re-auth e-mails does a debounce window see, and when is it quiet |
| `detectors_flags` | 1 debit and 2 credits of equal amount, 2 cards, days 0, 3, 8, 1 correction, 2 transfer runs, 1 fatura run | do overlapping runs keep pairs, payments and audit rows in agreement |
| `login_guard` | 1 tab whose answers get lost, 2 handlers, 2 locks, limit 2, challenge after 1, window of 2 ticks, an unlock link of 1, 4 posts, time 2, 2 faults | how many passwords does a fixed window let be tried; which locks are open together, and which have no mail |
| `password_reset` | 2 browsers, 2 logins at a time, 1 asking tab, 1 tab with a link, 2 confirmation handlers, 2 tokens, 2 logins, asks and confirmations in all, time 2, 1 fault | which old sessions outlive a reset; which confirmations use one link; who is signed out |
| `dsr_requests` | 1 card, 1 request, 2 worker handlers, 2 notices (one malformed), 2 addresses, 1 fault or expiry | what is on the list once an event is processed; what mail leaves after that; is what is shown mailed; is EventInbox implemented |
| `connect_flow` | 2 tabs, 1 abandoned request, 2 items, 2 CPFs (one taken), 2 consents, 1 fault or lost answer | one account, consent before linking; can limit and CPF be got around other than by a race |
| `connections_page` | 1 tab, 1 item, 2 requests, 2 jobs, cooldown 2, time 5 | is an enabled button refused; can the cooldown be beaten |
| `transactions_page` | 3 transactions, 2 accounts, pages of 1 row, 3 days and the last millisecond to a month, 2 upserts | does a reader of the links miss a row; is a month offered that is refused |

Why the bounds are enough. Two jobs and two handlers are the smallest instance
in which one handler overtakes another on the same row, an expired handler meets
the retry of its own job, and a retry waits beside another job. Two faults with
retry limit 1 use a job's retries up. One account suffices because no
statement's effect on an account depends on another account; the theorems below
are for any number of items. Two deliveries of one event race for the insert.
Three errors with two awaited executions let an e-mail be sent before, during and
after a stamp; the third execution is there for the retry of one given up on. Three transactions let two credits contend for one debit; days 0 and 3
are just inside the transfer window, 3 and 8 inside the fatura window only; two
cards make a payment ambiguous. A login limit of 2 with 4 posts and two handlers
lets two requests race at the limit, from one tab that posts again after a lost
answer; more tabs post nothing one such tab could not. 2 ticks and a window of 2
turn the window, and let an unlock link of 1 tick expire. Two
browsers and two tokens let a login be overtaken by a reset and a session be
overtaken by another; two logins may be of one browser. Two confirmation handlers
use one link twice, posted from one tab. One request has two worker handlers when
its attempt expires. A notice with two recipients can fail half-way. Two tabs
are what the races of ConnectFlow need, two items what its limit of one needs.
A cooldown of 2 in a time of 5 lets two syncs end within one. Pages of one row
make every offset a page boundary.

Deadlock is checked for PluggySync and Detectors. The other instances stop when
every bounded input is used up, so they say CHECK_DEADLOCK FALSE.

Each property of a passing run has a mutant of the model (an operator beside
the one it replaces, marked `mutant:`) that breaks it.

### Fairness

`PluggySync!Fairness`: a running handler advances (WF: the worker process runs);
a job that can be taken is eventually taken (SF: pg-boss serves its queue in
order, so other jobs do not keep a job from its turn); the cron fires and works
its list off (WF, SF: an hourly schedule, and bounded job slots come free
again); a handler leaves its loop over pages in the end (SF of `Publish`: a
listing is finite). `WebhookDispatch!Fairness`: a request that arrived is
handled, jobs are handed out, handlers advance. `DsrRequests!Spec`: the
acknowledging worker's handlers take jobs and advance (two of them, so one that
lingers in an expired attempt does not hold the queue up). Nothing is assumed of users, of Pluggy's or SNS's
deliveries, or of SES; faults may happen until the bound.

## Where code and words differ

`sync_first_connect` is a run that ends in a counterexample: the connect route
inserts the row UPDATING, the worker skips UPDATING rows, and the cron excludes
them too, so the first sync never happens (`FirstConnectSyncs`, under
`FairSpec`; see "findings" in `PROJECT.json`).
The run shows one schedule; the theorem `NeverSynced` says the same of all of
them: no webhook, manual refresh, cron run or retry ever syncs such an item.

Others met while modelling, each a behaviour of the models, together with what
the code does guarantee in its place:

- A handler that read the row before the DELETE publishes UPDATED over
  DISCONNECTED (`lib/pluggyItemStatus.ts:17` calls it terminal):
  `QuietDisconnectIsTerminal`, which follows from `ImplementsLifecycle`.
- A failed attempt leaves UPDATING, and its retry is skipped by the very status
  (`pluggySyncWorker.ts:436` throws for pg-boss to retry): `UpdatingIsExplained`.
- Insert, crash, redelivery: a webhook is acknowledged and never dispatched
  (`db/schema/webhookEvents.ts:8`): `UndispatchedIsExplained`. The SES receiver
  has the same shape: `ImplementsInbox` of both.
- Two transfers with equal distances: the first run pairs one of each, the next
  run on the same data the other two (`transferDetectorWorker.ts:20`):
  `RunsAreOneToOne`, `MutualUnlessOvertaken`.
- Two syncs of one item may run at once, and two jobs of one user: neither the
  promise of `worker.ts:52-53` (one sync in flight per user) nor that of
  `pluggySyncWorker.ts:157-158` (the singleton key dedups concurrent jobs) holds
  of a queue of the standard policy, on which two jobs enqueued at different times
  are both handed out: `SyncsAreExclusiveUnlessRaced`.
- `reAuthNotifierWorker.ts:17-18` says one e-mail per item per day. Two handlers
  read the stamp before either writes it, and a retry or an expired attempt sends
  again: `EmailStormBounded`. A user on the suppression list is stamped as told
  and gets no e-mail.
- `rateLimit.ts:8-11` and `36-37` speak of a trailing window. The sum takes the rows
  whose window started within `window_ms`, so it drops the earlier part of the
  window before: up to twice the limit passes in a trailing window.
  `AttemptsBounded` is stated of fixed windows.
- A login that is posted again while an earlier handler runs on may open a second
  lock, each with its e-mail (`OpenLocksRaced`); a confirmation posted again may
  use its link twice, since the commit does not test `used_at` (`ReuseWasRaced`);
  as many sessions of the old password survive a reset as logins it overtook
  (`reset/confirm/route.ts`, SEC-02; `StaleSessionsWereOvertaken`).
- `RequestPendingState.tsx:51-53` promises an e-mail. An address on the list gets
  none, and the audit row says "sent" all the same; nor is there one if the job is
  given up (`ShownIsMailed`, `AuditedIsMailedOrSuppressed`). When an attempt
  expires, its handler and the retry may both send after the address was listed
  (`LateMailWasInFlight`).
- The comment at `login/route.ts:172` says "unresolved + unexpired", the query
  tests `unlocked_at` alone: a lock that has expired, its e-mail useless by then,
  suppresses later ones for good. No property is about this, since it would repeat
  the query; `UnmailedLockIsExplained` is about the mail of the lock itself.
  Unlocking does not reset the counter, so the
  promise of `UnlockPendingScreen.tsx:23` ("you can log in normally") may be
  followed by a refusal.
- `sesBounceWorker.ts:96` calls the append idempotent for replays; the replay of
  an attempt that failed appends again (`RepeatsAreFailures`).
- A reconnect through `/connect` always ends in 409 (`ConnectIsland.tsx:82`), and
  "Reconectar" of the connection card posts a sync instead.
- An item that never had accounts counts for the paywall even when it is
  disconnected (`connect/page.tsx:41`).
- `sync-status` counts the user's transactions, not the newest item's.
- In production the DELETE request of the privacy card stops at its placeholder
  Turnstile token (`Confirm`).
- The page of a month selects dates before `endOfMonth`, its last millisecond
  (`transactions/page.tsx:95,162`): a row of that instant is on no page. And it
  sorts by date alone, while Pluggy's dates are days: rows that tie may be skipped
  or shown twice, so `NothingMissed` excludes ties.
- If the process dies after Pluggy has deleted an item, the row stays connected and
  every later DELETE answers 502 (`RemoveAbort` of PluggySync).

## What TLAPS proves

From the named assumptions on the constants alone (`ConstantsAssumption` and its
like: bounds are naturals, `None` is no id, the tabs and items of ConnectFlow, the
handler executions of WebhookDispatch and the rows of TransactionsPage are
finitely many), for every choice of items, jobs, handlers, tabs and bounds. Each
module proves `Init => IInv` and `IInv /\ [Next]_vars => IInv'`, one lemma per
action or group of actions, and reads its theorems off `IInv`. Every invariant
and action property of a run is such a theorem.

- **PluggySyncProofs**. `IInv == TypeOK /\ QueueInv /\ ConsentInv`. (`QueueInv`, what
  pg-boss keeps of jobs and attempts, is a premise of the others and no result.)
  `ConsentBeforeIngest` alone is not inductive: what keeps a sync from running
  before the consent row is that a row is born UPDATING, which the worker
  refuses. `ConsentInv` says so: a row in a syncable status, a row a handler
  holds and a row with accounts have a GRANTED consent row.
  Theorems: `TypeCorrect`, `ConsentCorrect`.
  On `IInv` rests `WorkInv`. `InFlight` does not explain an UPDATING row when a
  handler is past its last write of the status, so `MarkedInv` asks for one that
  has yet to publish; `DetectInv` holds, for each detector still due, a handler
  that has yet to enqueue it, a retry, a dropped attempt or a blocked row (so
  that a swallowed retry does no harm); `BirthInv`: an active job has been
  attempted, a row is born unsynced. `UpdatingExplained`, `DetectorsFollow`.
  `RaceInv`: an item without a race has one handler at work at most, and once
  that has marked the row nothing makes the row syncable, so no other comes.
  `ExclusiveUnlessRaced`.
  `RemovalInv` adds what the DELETE route's
  program counter stands for: after the Pluggy call the item is gone there,
  after the commit the revocation is recorded. From it `DisconnectBacked`;
  `DeletedStayDeleted` action by action; `Refinement`: each step maps to a step
  of ItemLifecycle or a stutter, under holders = handlers in flight;
  `QuietTerminal` is proved of ItemLifecycle's steps and carried over, so no run
  checks it beside `ImplementsLifecycle`.
  `UnsyncedInv`: a row never synced is not syncable, no handler holds it and no
  account is stored for it; only together are the three inductive. From it
  `NeverSynced` and `NothingIngested`, which no run checks: the
  sync that `FirstConnectSyncs` waits for happens in no behaviour.
- **WebhookDispatchProofs**. `DispatchInv` names the owner of an event's
  dispatch: at most one request has stored it and not yet answered, and what it
  has sent follows from its statement. `DispatchOnce`, `UndispatchedExplained`.
  For the effects of the workers, `JobInv` says who holds a job: at most one
  attached execution. `PoolInv`: at most `Concurrency` executions of a queue are
  attached, and no more are detached than attempts have expired. `RowsInv` and
  `EmailInv` then bound the rows and mails written together with those still to
  come: a bound on what has happened alone is not inductive, since an execution
  past its guard can no longer be stopped. Before the stamp `EmailInv` balances the
  mails with executions between e-mail and stamp and with attempts that ended
  there; after it, only those that had read the row before can still send. `StampInv`: an execution that has got
  past the send has sent, or the address is suppressed. `TypeCorrect`,
  `RowsBounded`, `StormBounded`, `Quiet`, and `DebounceIsEarned`
  (`NoSilentDebounce`, in no run).
  `InboxRefinement`: `OwnerMoves` shows that only the owner's steps move an event;
  `lost` is what is stored, has no owner and lacks a send, so the mapping
  uses no history. `AckInv`: what is answered is stored.
- **DetectorsProofs**. `MutualIsOneToOne`: of two pairs with a common leg each
  would have to be closer than the other, or have the smaller id.
  `FreshLegsAreFree`: what a run matched is still unflagged unless another has
  committed pairs since. `TypeCorrect`, `OneToOne`, `PairsPossible`,
  `MutualPairs`, `NoPayments`, `UnauditedExplained`, and `Settle` (`PaymentsSettle`,
  in no run: TLC agreed).
- **LoginGuardProofs**. `LimitHolds` needs to know which hits a request's sum
  covers: `HitInv` numbers the hits and places each in the window its request
  read, so that `SumCoversWindow` applies to the last one let past. `RaceInv`: a
  request about to insert while a lock is open is one of its racers; `IdInv` and
  `ByInv`: no two requests, and no two locks, share a number. `LocksRaced`,
  `UnmailedExplained`.
- **PasswordResetProofs**. `StaleInv`: a login about to insert a stale session is
  one the last reset overtook. `UseInv`: whoever hashes for a used token had
  read it at its first use. `IdInv`: an id is given to one login, then to one
  cookie; `RowInv`: a session that waits for its cookie is there, or a reset
  has ended it. `StaleSessions`, `LinkReuseRaced`, `SignedOut`, `TypeCorrect`.
- **DsrRequestsProofs**. `NoticeInv`, `ProgressInv` and `CountInv` follow the loop
  over recipients, of attached and stray handlers, and count attempts against
  failures; `LateInv` says which handlers
  were past the guard; `AuditInv` what an acknowledging handler has done.
  `ProcessedSuppressed`, `RepeatsExplained`, `LateMailBounded`, `TypeCorrect`, and
  `AuditedExplained` (`AuditedIsMailedOrSuppressed`, in no run: TLC agreed).
  `InboxRefinement`: the statements of the route are the steps of EventInbox, those
  of the worker stutter.
- **ConnectFlowProofs**. `SignupInv`: one tab or abandoned request is inside a signup
  past its insert.
  `LinkedAfterConsent` becomes inductive by counting every tab between its
  consent row and its link (`rowHolders`), and by `ConsentInv`, by which only
  linked items are reconnected. `FreeInv`: a free page was rendered from no item
  in use, since a deleted account means a disconnect. `OneWins`, `ConsentFirst`,
  `FreeTierRaced`, `CpfFinal`, `TypeCorrect`.
- **PagesProofs**. Of TransactionsPage: `WindowLemma`, the step from one page to the
  next: a row with at least as many rows above it as a page skips, and not on
  that page, has all its rows above it too. So `ReadInv` can say that, without
  ties and rows that moved down, an old row not yet shown has everything passed
  over so far above it; new rows only add to that. `NoneMissed`, `OfferedOpen`,
  `TypeCorrect`. Of ConnectionsPage: `CardsInv` relates what a card, a request and
  a job remember to the row and the clock: no manual sync ends after the last
  sync, nothing remembered is of the future, and a disabled button counts down at
  least to the end of the cooldown that was running when it was rendered.
  `EnabledHonest`, `CooldownRaced`, `ConnectionsTypeCorrect`.

Only model-checked: `WorkDrains`, `StaleIsRefreshed`, `StoredIsDispatched`,
`UserIsTold` and `ShownIsMailed`. They are liveness properties: fairness and
ENABLED are out of the prover's reach. `FirstConnectSyncs` is refuted by its run;
`NeverSynced` says that the sync it waits for happens in no behaviour.

## Not modelled

Everything marked `not_modelled` in `PROJECT.json`: pure functions on strings and
bytes (crypto, CPF digits, redaction, validation), configuration, logging,
rendering, templates, migrations. Of the modelled components: transaction rows
and sync windows (a page is an event in PluggySync), `last_error_at`, joint
Pluggy items of two users, two items of one connector sharing a consent scope,
the expiry of sessions, signature and body tests of webhooks, the passing of a
debounce window, mail rendering. Of the detectors: log lines, accounts of other
types than checking, savings and credit card, which of two dates anchors a card;
users other than the one (every join is on `user_id`).

## Plan

1. **TransactionIngest**: sync windows and cursors, the account lookup by
   `pluggy_account_id` alone (joint items of two users).
2. Composition of WebhookDispatch with PluggySync.
