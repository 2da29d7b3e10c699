# A verification project for nestjs-monday-backend

TLA+ models of the parts of this NestJS service whose behaviour depends on the
order of events: the per-key queue of calendar syncs, the token cache, the
calendar synchronisation itself, the batch runner, the five actions that
Monday's automations call, the OAuth flow, the subscriptions and the answers to
errors. TLC checks them on small instances; TLAPS proves every safety property
that the passing runs check, and two refinements, for every value of the
constants. All paths below are under `src/src/` of the repository.

## 1. The system and its parts

The service sits between Monday.com and Google Calendar. It is one Node process:
code between two `await`s runs without interruption, anything may run during an
`await`. What it must remember across restarts is in Monday's *secure storage*
(a remote key-value store); everything else is in the process's memory.

| Part | Code | State | Operations | Talks to |
|---|---|---|---|---|
| Sync queue | `modules/google-calendar/webhooks/calendar-webhook.service.ts:18-52` | `syncQueue`: Map from user:calendar:account to a promise | `triggerSync`, `enqueueSync` | runs the calendar sync |
| Calendar sync | same file, 54-189 | `calendar-sync-token:*`, `google-calendar-tokens:*` in secure storage | `processCalendarWebhook`, `syncEventsInMonday`, `deleteItemOnMonday` | Google client, token service, Monday API |
| Calendar connection | same file, 191-319; `calendar-webhook.controller.ts` | the same keys, `calendar-channel:*` (never read) | `handleOAuthCallback`, `performInitialSync`, `setupCalendarWatch`, webhook | Google client, secure storage |
| Google client | `modules/google-calendar/google-calendar.service.ts` | `oauth2Client`: one set of credentials for the whole process | `setCredentials`, `getTokenFromCode`, `syncEventsWithToken`, `watchCalendar`, event creation | Google |
| Token service and cache | `modules/auth/auth.service.ts`, `token-cache.service.ts` | `cache`: Map of tokens with an expiry; `access_token:*` in secure storage | `getAccessToken`, `storeAccessToken`, `removeAccessToken`, clean-up timer | secure storage |
| Monday OAuth | `modules/auth/auth.controller.ts` | signed state | `authorize`, `callback` | token service (not awaited), Monday |
| Batch runner and retry | `utils/run.api.ts`, `utils/retry-run.api.ts` | locals of one call | `runBatch`, `runSingle`, `retryMondayApi` | Monday API |
| Monday GraphQL calls | `graphql/api/mutation`, `graphql/api/query` | none | one function per query or mutation, with retry | Monday API |
| Actions | `modules/action/services/*` | none (the boards of Monday) | daily task, ratio and status, total time, copy relation to name, sync item to calendar | GraphQL calls, batch runner, Google client |
| Trigger subscriptions | `modules/triggers/*` | subscriptions in Monday storage, under an event and an id | subscribe (by subscriptionId), unsubscribe (by webhookId); get, list (no caller) | storage |
| Fields, account, Monday endpoints | `modules/field`, `modules/account`, `modules/monday` | none (`set-storage` writes Monday storage) | one read or one write each | Monday API |
| Guards and filters | `common/guards`, `common/filters` | none | admit a request; turn what was thrown into an answer | all endpoints |
| Interceptors, bootstrap, logging, health | `common/interceptors`, `main.ts`, `utils/logger.ts`, `app/health` | none | `main.ts` exits the process on an uncaught exception | all |

### What is hard in it

* **Interleaving.** Every request shares the OAuth client's credentials, and a
  sync awaits between setting and using them. A sync token is read, used and
  written with awaits between; the queue that protects it is keyed by user,
  calendar *and account*, the token by user and calendar only; the initial sync
  is not queued at all.
* **Crash and restart.** The webhook answers 200 when its sync is only queued in
  memory. The next sync token is stored before the events are handled.
* **Partial failure.** Of the events a sync fetches, the first is handled. Errors
  are logged and swallowed. The daily task is a sequence of mutations without
  compensation. A page of a board that fails reads as the last page.
  `Promise.all` rejects with the first failure while the other mutations go on.
  What the storage answers to a write is not looked at.
* **Retry.** A "socket hang up" is retried although the request may have been
  carried out; the retry loops of `runBatch` and `updateItemColumns` nest. A
  duplicate that is retried leaves a second copy, of which nobody knows the id.
* **Read, compute, write.** The actions on boards read rows, compute and write;
  users change the board and other runs write in between.
* **Time passing.** The weekday of a daily task and the date in its name are read
  at different moments. The state of the OAuth flow expires.
* **Answers before effects.** The OAuth callback sends the browser back before the
  token is stored; a rejected store exits the process.
* **Stale cache.** A read of the storage in flight while a write completes fills
  the cache with the old token; two writes may reach storage and cache in
  different orders.

### What makes each part correct

* Queue: syncs of a key run one at a time, in order; a sync that throws does not
  stop those behind it; other keys do not matter; idle keys leave no entry.
* Calendar sync: the sync token never runs ahead of what was fetched; it moves
  back only where the code leaves syncs unordered; a notified change is fetched;
  only items of cancelled events are deleted, and the deletions handled do arrive.
* Token cache: a served token is one the storage has held for that account; cache
  and storage agree unless operations on one account overlapped, and agree again
  once writes stop.
* Actions on boards: a derived column holds a value computed from one snapshot of
  its row; a run that was answered without an error leaves its rows current,
  unless somebody else intervened; no mutation lands after the answer.
* Daily task: a run puts one task on the target board at most, its own copy, into
  the group of its day; what is left behind stems from a failure or a repetition.
* Item to calendar: the link of an item names an event of that item, at the dates
  that were written and in the name of the user; an item is deleted only after
  an event of it was cancelled.
* OAuth: a token lies under the account whose state came with its code, and a
  user who was sent back has one in the end; who has one is not asked again.
* Subscriptions: a record is what a call that named its key left there, and no
  successful call that came later replaced. (That an answer tells what the storage
  holds, or that an unsubscribe removes what its subscribe stored, does not hold of
  this code: section 2.) Errors: the code that was thrown is the code that is read.
* Batch runner: the report matches what happened; at most `concurrency` operations
  are under way; nothing is sent after a failure with `stopOnError`; only
  hang-ups can repeat a mutation; it returns.

## 2. The modules

| Module | Kind | Models |
|---|---|---|
| `SerialExecutor` | abstract specification | what `enqueueSync` promises: per key, one at a time and in order; a restart drops what has not ended |
| `SyncQueue` | component | the promise chains and the Map of `enqueueSync` |
| `SyncQueue_proofs` | proofs | invariants of `SyncQueue`, and that it implements `SerialExecutor` |
| `TokenCache` | component | `AuthService` over `TokenCacheService` and secure storage |
| `TokenCache_proofs` | proofs | coherence and provenance of tokens |
| `CalendarSync` | composition | Google, channels, webhook, queue (an instance of `SerialExecutor`), sync, OAuth callback, shared client |
| `CalendarSync_proofs` | proofs | the use of the queue, coverage by the sync tokens, their order, the deletions |
| `BatchRun` | component | `runBatch` over `retryMondayApi`, nested twice |
| `BatchRun_proofs` | proofs | type correctness, the stop on error, the bound on concurrency, repetition, the summary |
| `DerivedColumn` | abstract specification | what the board actions promise for one row: the column takes values of single snapshots |
| `BoardActions` | component | ratio and status, total time, copy relation to name: paginated reads, mutations and their retries, users who edit |
| `BoardActions_proofs` | proofs | current rows, no write after the answer, `Compute` against `Denoted`, the refinement of `DerivedColumn` |
| `DailyTask` | component | `CreateSubitemFromOtherBoardService`, the clock, the two boards |
| `DailyTask_proofs` | proofs | type correctness, one task per run, of one day, and what is left behind |
| `ItemEvents` | component | `SyncItemInCalendarService`, event creation, dates, the life of the event afterwards |
| `MondayActions` | composition | the controller over the three modules above |
| `MondayActions_proofs` | proofs | `ItemEvents` (links, organizers, deletions), and the five services under the controller |
| `ErrorAnswers` | operators | the three exception filters and what the guard throws |
| `MondayOAuth` | component | `authorize` and `callback` of `AuthController` |
| `Subscriptions` | component | subscribe, unsubscribe, set-storage |
| `Endpoints` | composition | the last three, and the requests that change nothing |
| `Endpoints_proofs` | proofs | tokens and consent of `MondayOAuth`, records of `Subscriptions` |
| `MC*` | instances | constants for TLC |

`CalendarSync` uses `SerialExecutor`, not `SyncQueue`: `SyncQueue_proofs!Refinement`
(and the run `sync_queue`, with fairness) is what allows it, and
`CalendarSync_proofs!UsesQueue` shows that it calls the queue in no other way. A task of the queue
is one execution of `processCalendarWebhook`, whose awaits are the values of
`run[t].pc`.

### How state and actions correspond to the code

**SyncQueue.** `syncQueue[k]` is the Map entry; a promise is named by the task it
belongs to and its place in the chain, `<<"next", t>>` or `<<"finally", t>>`.
`stage[t]` is how far the chain has come: `EnqueueSync` is the synchronous call,
`StartTask` the `then(task)` callback, `SettleTask` the end of the task with the
`catch` after it, `RunFinally` the clean-up callback. `ticket` and `calls` are
history: the order of the calls.

**TokenCache.** `call[c]` is one call of the service: `sent` before the storage
carries it out, `applied` after, `done` when the code behind the `await` has run.
`ttl` counts down to the expiry of the entry, -1 being expired or absent.
`held` and `disturbed` are history variables.
A rejected `storeAccessToken` restarts the process (`RejectStore`): its only
caller, the OAuth callback, does not await it, its `catch` handler throws, and
`main.ts` exits on an uncaught exception, which Node makes of an unhandled rejection.

**CalendarSync.** `log` is the sequence of changes Google has seen and a sync
token a position in it. There is one calendar, as in the code, where
its id is a literal in `handleOAuthCallback`. One action per await:

| `run[t].pc` | awaiting | next action |
|---|---|---|
| `tokens` | `secureStorage.get(google-calendar-tokens)` | `GotTokens` |
| `syncToken` | `secureStorage.get(calendar-sync-token)` | `GotSyncToken` |
| `list` | `events.list` | `Listed`, `SyncTokenGone` |
| `save` | `secureStorage.set(calendar-sync-token)` | `SavedSyncToken` |
| `mondayToken` | `authService.getAccessToken` | `GotMondayToken` |
| `delete` | `deleteItemById` | `DeletedItem` |

`SyncFails` is the rejection of any of these (a write may have taken effect);
`conn[x].pc` goes through `handleOAuthCallback` in the same way. `client` is the
user whose credentials the OAuth client carries. `seen`, `fetched`, `overlapped`
and `dropped` are history variables: they record what was notified, sent by
Google, run unordered, and let go of.

**BatchRun.** `op[i]` is the operation of item i with the counters of the outer
and the inner retry loop; a batch is sent by one action, as `batch.map` starts
all its functions before the first await. `results` is the array, a set of
records because it is sorted by an index that is unique. `applied` counts how
often Monday has carried out an item's mutation.

**BoardActions.** `kind` says which of the three services the runs are of; they share
their shape. `source[r]` is what a row (the parent item, or the item of the
board) is derived from, `column[r]` the derived column. `act[a].st` is the run:
`reading` (the loop over pages, `ReadPage`, `PageError`, `ReadThrows`), `writing`
(`Promise.all`, or the one batch of `runBatch`), `answered`, `rejected`.
`req[a][r]` is the mutation of one row, from `sent` through `backoff` to `ok`,
`refused` (an answer with errors) or `threw`. `Compute` is what each service
computes; `Denoted` says the same another way for the properties. `outdated` and
`lastBy` are history. A mutation that takes effect does so before its answer or
its hang-up is seen.

**DailyTask.** `daily[a].pc` is what `execute` awaits: `search` (the schedule item
of the weekday), `duplicate`, `mapping` (the group mapping), `wait` (15 s), `move`,
`rename`. `item` is a sequence because copies are only ever added. `day` is the
clock, `Midnight` may happen between any two awaits. `repeated` is history.

**ItemEvents.** `sync[q].pc` is what `execute` awaits: `tokens`, `config`,
`calendars` (the listing that finds the primary calendar), `insert`, `link`.
`credentials` are those of the process-wide OAuth client, `as` those a Google call
was sent with; `ListCalendarsOf` is the other endpoint that sets them. `Normalize` keeps of `normalizeDateTime` which number of the text
becomes the month and which the day.

**MondayOAuth.** `flow[f]` is one call of `authorize` and the consent page after it,
`callback[c]` one call of `callback` with its store of the token, which goes on
after the redirect. A rejected store exits the process, as in `TokenCache`.

**Subscriptions.** `call[c]` is one request: `sent`, `applied` when the storage has
answered, `answered` when the client has. `Subscribe` makes its key of
`payload.subscriptionId` (`monday-trigger.service.ts:21`), `Unsubscribe` of
`payload.webhookId` (`monday-trigger.controller.ts:36`), and `SetStorage` takes the key
that its client sends. `subscribe` answers with nothing (`monday-trigger.controller.ts:21`),
so no client learns a webhookId from it, and nothing in the code makes the two ids
of a subscription equal. The module keeps two parameters, `SubscriptionIds` and
`WebhookIds`, and assumes nothing between them: an unsubscribe that was answered with
success may have left the record of its subscription, or deleted that of another
one. `RecordsOfLatestCalls` is therefore about keys: what lies under a key stems from
a call that named this key (`about`), was carried out or may have been, and has been
followed by no call that succeeded (`after`, the calls on its key that had ended when
a call came). `Told` is what a client is told. It does not depend on whether the write
was carried out: a storage that answers with failure is taken for a success by all
three, a rejected one by subscribe, so no property makes an answer speak for the
storage.

**ErrorAnswers, Endpoints.** An exception is its class and the code it carries;
`AnswerTo` picks the filter and what the client reads. `ErrorsOf` has the errors
of each endpoint that changes nothing, or that is refused.

**The two compositions.** The services behind the five actions keep no state, and
automations are taken to be set up on different columns and boards; the
controllers in `Endpoints` share no storage key. What two of them do at once is
then a shuffle of what each does alone. `endpoint` and `controller` therefore choose one of them
for a whole behaviour, and the state space is a sum, not a product. The one
thing that is shared, the credentials of the OAuth client, is in both
`ItemEvents` and `CalendarSync`, with several requests on each.

Operators named as a *Mutant of* another are small deliberate errors; putting one
in the place of the original must break the property it was written for. No
specification uses them.

## 3. The runs

| Run | Instance | Shows |
|---|---|---|
| `sync_queue` | 3 tasks, 2 keys, 1 restart | `FifoPerKey`, `ReadyTaskMayStart`, `EveryTaskEnds`, and that the chains implement `SerialExecutor` with fairness |
| `queue_leak` | same, no restart | **violated:** `IdleKeyHasNoEntry` |
| `token_cache` | 2 accounts, 2 tokens, 2 concurrent calls, 2 writes, 1 restart | `CoherentUnlessDisturbed`, `ServedTokenWasHeld`, `EventuallyCoherent` |
| `calendar_sync` | 1 user, 1 event, 2 changes, 2 notifications, 1 more OAuth callback (whose state names no account) | `SyncTokenCoversFetched`, `SyncTokenMovesBackOnlyByOverlap`, `OnlyCancelledItemsDeleted`, `HandledDeletionsPropagate`, `NotifiedChangeIsFetched` |
| `calendar_pages` | 2 events, pages of 1, 2 accounts of which 1 has a Monday token, 1 restart | the safety properties when a listing does not fit a page and when writes land during a restart |
| `first_event_only` | 2 events, 1 notification | **violated:** `DeletedEventDeletesItem` |
| `own_credentials` | 2 users | **violated:** `OwnCredentials` |
| `batch_run` | 0 to 3 items, batches of 2, 2 attempts in both loops, both values of `stopOnError` | `SummaryMatchesOutcomes`, `BoundedConcurrency`, `NothingSentAfterFailure`, `OnlyHangUpsRepeat`, `Returns` |
| `batch_attempts` | same | **violated:** `RetryAttemptsAreThoseMade` |
| `action_services` | one run for the five actions, see below | `AnsweredRunLeavesRowsCurrent`, `NoMutationAfterAnswer`, `RowsImplementDerivedColumn`; `OneTaskPerRun`, `TaskNamesOneDay`, `LeftoversExplained`; `LinkNamesEventOfItem`, `EventIsOfItsUser`, `DeletedItemHadCancelledEvent` |
| `endpoints` | OAuth, subscriptions, refused requests | `TokenOfAnsweredCallback`, `NotAskedAgain`, `SentBackUserGetsToken`; `RecordsOfLatestCalls` |
| `standard_errors` | same | **violated:** `StandardErrorsKept` |

### Bounds, and why they are enough

* `sync_queue`: three tasks give a chain with a middle, two keys show that keys
  do not interfere, one restart splits a chain. The safety part is proved for
  all values.
* `token_cache`: a hazard needs two calls on one account (a read and a write, or
  two writes); the second account is there for mix-ups between keys. `MaxWrites`
  bounds the calls that write, `TTL` = 1 gives an entry that is alive, on its last
  tick and expired. Safety is proved for all values.
* `calendar_sync`: a token that moves back needs two syncs with a change between
  their listings: two changes, and two notifications or one and a connect. The
  `log` is bounded by `MaxChanges`, restarts by `MaxCrashes`.
* `calendar_pages`: a page of one and two events is the smallest case of a page
  that is not the last. `NotifiedChangeIsFetched` is not checked there: it does
  not hold, since the other pages are never asked for and no sync token comes
  with the first, so the same first page comes back each time. The default page
  of 2500 events makes this the case of a very large calendar.
* `batch_run`: two batches, the second not full; two attempts in each loop
  distinguish the first, the last and the one after the last.
* `action_services`, boards: two rows on two pages (a first page and a last one),
  two slots per row (none, some or all subitems finished), two overlapping runs,
  one change by a user and two failing mutations (one run that fails while
  another succeeds, one mutation that hangs up on its last attempt), two
  attempts. Three services, from every uniform content of the rows.
* `action_services`, daily task: a schedule of two days, a clock that passes
  midnight once, two runs (on one day or two), six items (both runs may repeat
  their duplicate once), two hang-ups, one restart, with and without a group mapping.
* `action_services`, calendar: two people with one request each for one item, two
  events, times in four forms, of which one cannot be read, with a shared and with a
  primary calendar.
* `endpoints`: three browsers of two accounts and two callbacks, which may belong
  to one flow (the page loaded again), to one account or to two; one restart.
  Three calls on the storage for two events: a subscribe names one id, an
  unsubscribe this id or another, a set-storage the key of a subscribe. Three calls
  are a record, a call that replaces it and one that overlaps both, on its key or
  beside it. (Calls are numbered as they come, which leaves out no behaviour.)

Several properties except a loss that the code itself causes, by a history variable
or a disjunct: `dropped` (a deletion fetched and not handled), `overlapped`,
`replaced` (credentials), `repeated` (a duplicate that hung up), `outdated` and `cut`
(rows written over, reads that met an error), a failed sync, midnight between two
readings. Such a property does not say that the loss cannot happen: it says that nothing
else leads to it. The notes to the hazards in `PROJECT.json` name what each one leaves out,
and the five violated claims show some of these losses.

All runs switch the deadlock check off: the systems may stop, when the bounds on
notifications, changes, writes and restarts are used up or when `runBatch` has
returned. What must not stop is stated as liveness.

### Fairness

* `SyncQueue`: weak fairness of each chain's callbacks (Node runs the callbacks of
  settled promises) and of the end of a running task: the calls it awaits are
  answered or fail. None for enqueueing and restarts.
* `TokenCache`: time passes, the clean-up timer fires (`setInterval`), each
  storage call is carried out and answered, or fails. None for new calls.
* `CalendarSync`: weak fairness of the steps of a queued sync. A sync that fails,
  or that a restart drops, is excepted in `NotifiedChangeIsFetched` itself. No
  fairness for changes, notifications, connects.
* `BatchRun`: each request is answered or rejected, each `setTimeout` fires.
* `MondayOAuth`: what a callback awaits, and the store that it does not, are
  answered or rejected. None for browsers, expiry and restarts.
* The action services are checked for safety only.

The fairness assumes what the code does not guarantee by itself: Google and
Monday calls have no timeout here beyond those of the HTTP libraries. A call that
never answers would block the queue of its key.

### What the violated runs show

1. `queue_leak`: line 47 compares the Map's promise with `next`; line 46 stored
   `next.finally(...)`, which is another promise, so `delete` is never reached.
   The Map keeps one settled promise per user, calendar and account. Order is not
   affected.
2. `first_event_only`: two events change, one sync fetches both, `events[0]` is a
   change of the first, the second was deleted; its item stays, and the stored
   sync token keeps it from being fetched again.
3. `own_credentials`: `setCredentials` for user 1, await of the sync token,
   another request sets user 2's credentials, `events.list` of user 1's sync.
4. `batch_attempts`: an error other than a hang-up ends the loop at the first
   attempt; the result says `retries`.
5. `standard_errors`: a `BadRequestException` that carries a `StandardResponse`, as
   when the access token cannot be read, goes to the validation filter, which
   answers `VALIDATION_ERROR`; the filter that keeps the code never sees it.

## 4. The proofs

All are checked by `tlapm` without assumptions beyond the named `ASSUME`s of the
modules: null values are not members of the sets they stand beside; bounds are
natural numbers, batch sizes and numbers of attempts positive; every row has a page
(`PagesAssumption`), a row has finitely many slots, of which one is copied
(`SlotsAssumption`); the schedule fits the board (`ScheduledAssumption`); a flow has an
account (`AccountOfAssumption`); times come in the forms that
`normalizeDateTime` tells apart (`TimesAssumption`). TLC evaluates each of them.

Each inductive invariant was checked with TLC on the instances of its runs before it was
proved. It is a conjunction of named parts, there is a lemma per action that
says it is kept, and the theorems follow from it.

* **SyncQueue_proofs.** `FifoPerKey` is not inductive: that a task starts only
  after all its predecessors needs to know what its promise waits for. `IInv` says
  that tickets of enqueued tasks are distinct and at most `calls` (`TicketsInv`);
  that the Map holds the promise of the key's last task, or nothing and then all
  its tasks have ended (`QueueInv`); that a waiting task is chained to the task
  enqueued just before it under its key, which no restart has dropped, or to none
  if all those before have ended (`ChainInv`). Each action keeps each part;
  `PerKeyOrder` and `NoSpuriousWait` follow. `Refinement` maps each step to a step of
  `SerialExecutor` or to a stutter (`RunFinally` changes nothing a caller sees).
* **TokenCache_proofs.** `Coherence` rests on: a read that was applied and a write
  that was applied on one account cannot both be undisturbed, since the write
  that is applied while another call waits marks its account; so what an applied
  read will put in the cache is what the storage holds. `Provenance` rests on:
  the storage, the cache and the answers under way hold only tokens the storage
  has held for that account.
* **BatchRun_proofs.** Type correctness rests on counters that stay within their
  loops; `Barrier` on: with `stopOnError` all items sent in earlier batches
  ended well while a batch is to be sent or awaited; `Concurrent` on: the items
  under way lie in the interval of indices of the current batch, whose
  cardinality is `Concurrency`; `Repetition` on: an item
  that has never hung up has taken effect at most once, and not at all while its
  request is out. `SummaryIsTrue` rests on `OutcomeInv`: the results are at any
  time those of the items of the collected batches that no failure before them
  in their batch skips, and these items have settled, so that no later
  step contradicts what was reported. The counts then follow from a bijection
  between these items and the results.
* **CalendarSync_proofs.** No property of the calendar is inductive alone. `SyncInv`
  adds: of the queue, that a running task has none before it under its key
  (`OrderInv`); of each task and connect, that it carries a sync token only if
  all changes up to it were sent to a sync of its user, and a cancelled event only if the
  log says so (`TaskInv`, `ConnInv`); of each user, that while no two syncs have
  overlapped, one at most is between reading a sync token and storing the next,
  which is no older than the stored one (`UserInv`); of each linked event, that its
  fetched cancellation is done, let go of, or carried by a task (`OnItsWay`).
  `TokenCoversFetched`, `DeletedWereCancelled` and `DeletionsPropagate` are
  consequences of it, `TokenMovesForward` is an action property of a step from it.
  `UsesQueue` maps each step to a call of `SerialExecutor`, the beginning or end of a
  task, a restart, or a stutter.
* **BoardActions_proofs.** `BoardInv` says which rows a run has read by the pages it has
  counted (`PagesRead`), that a run past its pages has read all of its scope
  unless a page failed (`ScopeRead`), which rows it then has mutations of, and that
  none is left when it is answered (`MutationsSent`), that what it read is what the row
  holds unless that changed since (`SnapshotOf`), and that the column bears
  the value of what its last writer read (`ColumnWritten`).
  `AnsweredCurrent` and `NothingWrittenAfterAnswer` follow. `ComputeIsDenoted`
  compares the counters of the services with the definition used by the
  properties. `RowsRefine` proves the refinement of `DerivedColumn` for each row:
  a run that has read the row is a job that holds a snapshot, its mutations are
  puts, and pages, faults, retries and other rows are stutters.
* **DailyTask_proofs.** `DailyInv` says that a run has a copy exactly from the answer to its
  duplicate mutation on, that the copy is an item of its own (`RunInv`); that its
  weekday is that of the day it started on, and its date not earlier (`DateInv`);
  that an item a run made bears the run's weekday, lies on the target board only as
  the run's copy, and is its only one unless a duplicate hung up (`ItemInv`). The
  first of these is what a second duplicate would break, and why `OneTaskPerRun`
  alone is not inductive. `AddStep`, `ReplaceStep` and `ControlStep` say what each
  kind of step keeps, whether the mutation succeeded, hung up or was lost.
* **MondayActions_proofs.** `EventsInv` says that an event carries what its request asked
  for (`CarriesRequest`) and is the only one of it (`OneEventPerRequest`); that a
  request goes by its user's credentials unless they were replaced
  (`OwnCredentials`); that it knows the event whose link it writes (`KnowsEvent`).
  `LinkedAsAsked` needs all but the third, `OrganizedByItsUser` the third.
  `ServicesAsAlone` shows that the controller implements the specification of
  each service, and `ServicesKeepProperties` carries over what is proved of them.
* **Endpoints_proofs.** `OAuthInv` adds that a callback stores only after its redirect and
  that a store that was answered has left a token for good, as nothing in the flow
  removes one; `SubscriptionsInv` that a call writes the key it is about, that the storage
  has not answered a call that is sent, and that the calls which a call came after
  have ended and so write no more. With these `RecordsOfLatestCalls` is inductive: the
  call that writes is the new witness, and nothing has come after its end yet.

Only model-checked: liveness (`EveryTaskEnds`, `EventuallyCoherent`,
`NotifiedChangeIsFetched`, `Returns`, `SentBackUserGetsToken`) and the fair half of
`ImplementsSerialExecutor`, since fairness and ENABLED are beyond the prover
(`Refinement` proves the safety half); and the five violated claims, which are refuted by
a counterexample. Every invariant and action property of the passing runs is a theorem.
The `MC` modules only fix constants.

## 5. What is not modelled

* `graphql/generated/graphql.ts`: more than half of the repository's lines, all of
  them generated types without behaviour. The map's share of the implementation
  is small for that reason; of the rest it covers the services, the controllers
  that change state, the Google client, the retry and batch utilities, the OAuth
  code and the filters.
* Code without callers: `getAllGroupsInBoard`, `createNewItemWithColumnValueInGroup`,
  `getSubscription`, `listSubscriptions`, `stopWatching`, `getEvent`, `listEvents`,
  `calculateEventDuration`, `getStats`.
* The success envelope of the transform interceptor, the contents of form fields,
  logging, health, Swagger: they format one answer.
* Column types and number formats: a subitem counts for one minute, and a field
  that cannot be read is neither morning nor evening. The hours and minutes of
  a date, which every accepted form carries along in the same way.
* How long Monday takes to fill a duplicate: 15 seconds stand for it in the code; in
  `DailyTask` a copy is made at once.
* The answers of `list-calendars` and `check-connection`; that the first sets the
  shared credentials is in `ItemEvents` (`ListCalendarsOf`) and `CalendarSync`
  (`OtherRequest`).
* Renewal and expiry of Google's channels and access tokens: the code does neither.
* Requests that a restart leaves under way and that take effect only after later
  requests have: `CalendarSync!Landing` lets them take effect during the restart.
* The storage of several accounts: a client of Monday's storage is created for the
  token of a request, and `Subscriptions` is the storage of one account. The query's
  `event` is not validated by the code; `EventTypes` is any set.
* Durations: a delay is a timer that fires some time.
* `retries` = 0 and `concurrency` = 0: no caller passes them (the second would not
  end in `createBatches`).

## 6. Plan

Done: the modules of section 2 with their runs, and the proofs of section 4. Next,
in this order:

1. Step simulation for the fair refinement of `SerialExecutor`: the lemmas that the
   steps a fairness condition is about are those of the abstract specification, so that
   only the ENABLED part is left to TLC.
2. `SerialExecutor`: that every behaviour it allows keeps the order of a key, as a
   theorem about the abstract specification, so that `CalendarSync_proofs` can cite it
   in place of `OrderInv`.
3. `TokenCache` beneath `MondayOAuth`: that the store and the read of a token in the
   OAuth flow are calls of the cache.
