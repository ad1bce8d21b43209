# TradingDatas: a formal model

TLA+ modules for the parts of TradingDatas that several processes, threads,
tabs or requests share, TLC configurations that check them on small instances,
and proofs that hold for instances of any size. Paths are relative to the
repository's root; `PROJECT.json` maps every definition to the lines it stands
for.

## 1. The system

TradingDatas has a Python *data plane*, an *account plane* that runs as a
Cloudflare Worker, a *public site* and an *operator console* in the browser, and
scripts with which editors keep the site's research library.

Data plane, from left to right:

    registry ─► cadence planner ─► schedule runner ─► provider adapter ─► provider
                     ▲                                     │  (QuickSync gate)
                     │ receipts                            ▼
                receipt journal ◄── one transaction ── validation
                + fact rows          per provider call, under the authority lock
                     │
                     ▼ read snapshot under the shared authority lock
                runtime projection ─► catalog (process pool) and query API
                                                            ▲
    public site ──► Worker (identity, connection, orders) ──┘
    operator console ──► Worker gateway, or the API itself ─┘

Account plane: an e-mail identity with one-time codes and sessions, the link of
an account to a data access key, a sandbox commerce, bookmarks, and an hourly
retention run. All of them are statements and batches on one D1 database;
nothing else orders two requests.

### Components, their state and what makes them correct

| Component | State | Operations | What makes it correct | Module |
|---|---|---|---|---|
| QuickSync transport gate (`collectors/tushare/tushare_common.py`) | leases in use, request starts, node cooldowns, preferred node | admit, resolve, dial, mark, fail over, respond, release | leases conserved, the rate holds, nothing sent is replayed, every call ends | `TransportGate` |
| Catalog executor (`catalog_executor.py`) | process pool, admissions, two locks | bind, start, execute, fail, shut down | admission covers work, shutdown is final, nobody waits for ever | `CatalogExecutor` |
| Ingest runs (`provider_native_ingest.py`, `provider_dataset_rows.py`, `ingest_receipts.py`) and the reader's cohort (`receipt_projection.py`) | fact rows, receipt journal, the run in memory | fetch a variant, persist each call, write a terminal receipt; classify a run, release or hide its rows | rows are backed by receipts, append-only rows are immutable, only rows of complete runs are served, the report agrees with the journal | `IngestStore` |
| Authority lock (`sqlite_authority_lock.py`, with the writers and the read snapshot) | two flocks, two descriptors, SQLite's lock | acquire, begin, verify, commit, leave, retry | one lock domain, no lost update, acknowledged means durable | `AuthorityLock` |
| Cadence planner and resumable fan-out (`provider_native_cadence_planner.py`, `provider_native_ingest.py`) | batches of a window, read off the journal | retire a window, choose a day, select, fetch, record | planner and collector agree, batches take turns, windows retire | `ResumableFanout` |
| Schedule runner and on-demand batches (`run_provider_native_schedule.py`, `run_provider_native_collector.py`) | lock file, ledger of the run, batch files | plan, execute, charge, consume a batch | one collector, budget honoured, a batch at most once, a plan starves only behind repeating plans that use up the budget | `ScheduleRun` |
| Sandbox commerce (`worker/commerce.js`) and its panel (`AccountCommerce.jsx`) | orders, events, provisions, subscriptions; the panel's attempt | order, settle; choose, submit, read, remount | active means paid, each order extends once, one order for one choice | `Commerce`, `OrderPanel` |
| E-mail identity and retention (`email-identity.js`, `identity-retention.js`) | challenges, cooldowns, users, sessions, deletions | send, verify, sign out, delete, maintain | one session per code, a deleted user stays out and is removed | `EmailIdentity`, `SessionAuthority` |
| Rates of the account plane (the same files) | counters of fixed windows | take, prune | a counter is at least what its window admitted | `RateBuckets` |
| Account connection (`account-continuity.js`) | sealed key per user | link, unlink, forward a request | a link is never replaced, answers are current | `AccountConnection` |
| Worker sessions and routing (`worker/index.js`) | two cookies of a browser, sessions, keys | sign in and out with either, answer | what was signed out answers nothing | `Gateway` |
| Worker data routes (`worker/data-api.js`) | the body of a request, its timer | check, read, forward, answer | only whole bodies within the limit are forwarded | `DataRoute` |
| Account page (`App.jsx`, `accountSession.js`) | what is shown, requests in flight, a put-off refresh | read, sign in, sign out, delete, change keys | one account is shown, nothing but a sign-out signs out, nothing hangs | `AccountPage` |
| Sign-in form (`LoginPage.jsx`, `EmailSignIn.jsx`) | address, challenge, code, requests | ask, type, verify, leave | a code goes back with its challenge | `SignInForm` |
| Site navigation (`App.jsx`, `researchHistory.js`, `accountNavigation.js`) | session history, page, view, reading positions | go, back, redirect, filter, scroll, reload | page and address agree, the reader is brought back | `Site` |
| Bookmarks (`bookmarkLibrary.js`, the Worker's table) | library of the browser and of each account | keep, remove, import, read | libraries of two accounts do not mix | `Bookmarks` |
| Catalogue panel (`CatalogEvidence.jsx`) | rows with the account they were read for | read, drop, check again | rows shown are those of the account on display | `CatalogPanel` |
| Search (`searchIndex.js`, the search box) | query, list, highlight | type, move, open, switch language | the list is what the query finds, one slip is forgiven | `Search` |
| Research guides (`researchGuideLoading.js`, `ResearchArticle.jsx`, `research-public-projection.mjs`) | cache, article, address; chunks of a bundle | open, load, render, fail; inspect | an article shows its own guide; no guide in the first load | `ResearchGuides` |
| Point-in-time examples (`tutorialExamples.js`) | an archive that grows | select, align, keep versions, attribute | no look ahead | `PointInTime` |
| Plans, language, appearance (`PurchasePreview.jsx`, `pricing.js`, `language.js`) | card, address, preference | choose, carry, sign in, prefer, reopen | a page is about what was chosen | `Showcase` |
| Copying texts (`AgentDialog.jsx`, `copyText.js`, `ui.tsx`) | a panel, writes under way, messages | open, choose, copy, settle, expire | "copied" is said of the text shown | `Copying` |
| Editorial tools (`audit-research-content.mjs`, `verify-research-sources.mjs`, `researchCatalog.js`) | cursor and results; the file of verified papers | audit, look up, write, build | a tool that ends well vouches for what it checked | `LinkAudit`, `Bibliography` |
| Event calendar (`event-calendar/app.js`) | months folded, day open | read, fold, open | every event once, in its own day | `EventCalendar` |
| Operator console (`frontend/src`) and the token file (`auth.py`) | tabs, views, requests, entries | log in, list, create, pause, edit, delete, page through samples | what is shown and done is of one account; no key comes back by itself | `Console` |
| Console reports and counts (`views/admin`, `consoleAnalytics.ts`) | answer, filters, hidden columns; counts in `localStorage` | show, filter, toggle; add, reset | nothing that needs attention is hidden; counts claim no more than happened | `Reports` |
| Everything else: provider adapters, compilers, probes, release session, query planner, texts | | | | see section 5 and `PROJECT.json` |

### How they interact

* The planner and the collector never talk: both read the receipt journal and
  must come to the same conclusion about a window.
* Writers of the store are processes; what they share is the authority lock, the
  SQLite file and whatever path names them at the moment. An operator may
  rename sentinel or directory under them and follows no lock.
* Readers take the same lock in shared mode, and judge rows under *their*
  registry release, which need not be the writer's.
* A request of the account plane is a sequence of statements; between any two of
  them other requests, the cron run or the end of the Worker may come.
* A browser has one pair of cookies for all its tabs. A page learns of another
  tab's sign-in only from the answers it gets, and every answer may come late,
  or to a page that has moved on, or never.
* What one module takes from another is stated: `SessionAuthority` is what the
  account services rely on in the identity tables and `EmailIdentity` implements
  it; `OrderPanel` extends `Commerce` and its requests are `Commerce`'s actions;
  `Gateway`, `AccountPage`, `CatalogPanel` and `Console` take a request of the
  Worker as one step, whose insides are `EmailIdentity` and `AccountConnection`.

### What is hard here

Transactions that fail after they committed; receipts whose meaning depends on
receipts written later; a cohort judged under another release; two programs that
read the same history by different code; lock files replaced while held;
failover that must stop at the first byte sent; budgets charged while work is
done; a pool that breaks while it is shut down; codes, payments and links raced
by a second request; answers that arrive at another page or another account;
effects of a render that run after the next event; files torn by a kill.
`PROJECT.json` lists these under `hazards`, at their lines, with the properties
that watch them.

## 2. The modules

Each component module declares its state, `Init`, one action per step of the
code, `Next`, a specification and its properties. `MC*` modules hold the
constants of an instance, `*Proofs` modules the theorems. A definition whose
comment begins with "Fault:" is a wrong variant of the definition after it, a
plausible bug; every property has one that breaks it.

### Threads of the Python services

**TransportGate.** A thread's `pc` follows `_provider_urlopen`: `Admit` (lease),
`Resolve`, `Dial`, `MarkStarted`/`MarkBlocked`/`MarkExpired` (rate slot, taken in
the connection's `request` just before the first byte), `Respond`, `Finish`
(managed response and its lease). `Penalize` is the failover branch. `starts` is
`_request_starts`; `recent` is a history variable that keeps every start of the
last window, so that `RateHonoured` does not lean on the code's own pruning.
Waiting threads are parked with a wake time (the timeout of `Condition.wait`) and
`Release` wakes any one of them, as `notify` does, whatever it is waiting for.
`Tick` is the monotonic clock. DNS and TLS outcomes are free.

**CatalogExecutor.** Callers, the starter (`initialize`) and the stopper
(`shutdown`) with the two locks of `_ExecutorState`, the pool object, and its
processes, which break and are reaped on their own. A call that is refused at
once changes nothing and is no step. Job contents are left out.

### The stores

**IngestStore.** `run[e]` is one call of `collect_provider_native_dataset`:
`Start` (it keeps the registry release it loaded), `Fetch` (all calls of one
variant, the admission verdict on them), then one step per call: `Ingest`,
`SaveEmpty`, `SaveFailed`. `Ingest` is `ingest_provider_native_rows`: facts and
success receipt together; with `late` the commit takes effect but the call
raises, and `SaveFailed` then writes the second receipt of the same call.
`Written` and `Rebinds` are `_write_prepared_rows` for both storage modes. The
reader is a set of operators: `AttemptStatus`, `LastAttempts`, `VariantStatus`,
`Cohort`, `ExplicitFailure`, `Served`. `Deploy` changes the release readers and
new runs use.

Abstractions: a transaction is one step, which `AuthorityLock` and
`BEGIN IMMEDIATE` justify; a response is a function from keys to payloads and an
append-only row is keyed by its payload's hash, so its payload *is* its key;
validation predicates may accept or reject anything; the provider's answers are
the constant `Fetches`, restricted by an assumption to call sequences the code
can make; receipts are never corrupt; a killed run leaves no result.

**AuthorityLock.** Each step of `sqlite_authority_lock` is an action (`FlockDir`,
`RecheckDir`, `StatFile`, `OpenFile`, `Validate`, `FlockFile`, `CheckFile`), then
the write transaction (`BeginImmediate`, `PreCommit`, `Commit`, `ExitWrite`) or
the read snapshot (`OpenPrimary`, `Verify`, `Body`, `ExitRead`, with `Retry`).
`ReplaceSentinel` and `ReplaceDirectory` are the operator, who may move or copy
the database file into the new directory. `Abort` stands for every timeout,
failed call, interrupt and crash. `lstat` and `open` of the directory are one
step, inodes are never reused, and two attempts stand for the code's five.

### Collection

**ResumableFanout.** The journal is reduced to what its two readers take from it:
the last receipt of each batch and variant (`entry`) and the order of these
receipts (`order`). `Candidates`/`Selection` are the collector (the selection is
stated by the rank of each chosen batch, which is what the sort of the code
comes to), `Retired`, `Debt` and `PlannedDay` the planner. A run is `Plan`,
`Select`, then `Fetch` and `Save` per variant. `NewUniverse` re-collects the
fan-out source, `NewDay` moves the date. One TLC run covers five bindings
(`Setups`): a changing source, two variants, failures that pass, rotation and
continuation; the setup is chosen in `Init` and fixed. A window of these is done
once every batch has answered; retry delays and calendar lag only postpone a plan
and are left out.

**ScheduleRun.** Processes are the systemd unit and manual runs. `Consume`,
`Lock`, `BatchEnds` and `DropBatch` are the on-demand path, `MakePlan`, `Call`
and `Refuse` the automatic one. The planner's estimate admits one unit per plan
(`Admitted`); the runtime ledger (`used`) charges every attempt; `made` counts
the calls the provider saw. Budgets are per run, as in the code
(`*_requests_per_run`). Operators leave batches only while the unit is idle.
`Elapse` is the end of the interval after which the planner asks again: after a
failure for every plan, after an answer for those that ask for a current window,
corrections or a snapshot without a window (`Repeats`,
`provider_native_cadence_planner.py:1557-1720`). A covered window that no other
overlaps is asked for once.

### The account plane

**Commerce.** `RequestOrder`, `InsertOrder`, `SelectOrder` and `ConfirmOrder` are
the checkout request; `Deliver`, `Record`, `Check`, `Confirmed`/`Unconfirmed`,
`Activate`, `Fail` are `settleSandboxPayment`, one action per statement or D1
batch. `ActivateErrs` is a batch whose result is lost, before or after its
commit. `granted` remembers what the provisioner confirmed.

**OrderPanel** adds the panel: it is mounted, refreshed and mounted anew, keeps
the idempotency key of an attempt until it is answered, and its requests outlive
it. Each request is a client of `Commerce`.

**EmailIdentity.** Senders, verifiers, deleters and the cron run. A request keeps
the time it read at its start, as the code does. `from`, `guesses` and `mailed`
are history variables. Code formats and hashing are left out; `pruneExpired` is
merged with the insert it precedes. **SessionAuthority** is its abstract
specification: a session is opened once and only ever loses authority, a user
once disabled stays so. `Authority` in `EmailIdentity` is the refinement mapping:
a token is what its row says of the enabled user it belongs to, at this time.

**RateBuckets.** The rows of `account_rate_limits`: `Take` (the upsert that counts
or begins a window anew), the coupled take of a caller's and the shared bucket,
and `Prune`. They only refuse a request before it changes anything, and so are a
module of their own.

**AccountConnection.** A linker is a `POST` of `handleConnection`, `Unlink` its
`DELETE`, a forwarder a request through `handleDataAccess` or `handleAdmin` (the
same steps). `gone` remembers whose connection was interrupted since its row was
read. Envelopes of two seals are never equal.

**Gateway.** Both kinds of session in one browser. `Send` takes the cookies of the
moment, `Serve` reads or changes the tables, `Receive` stores the cookies the
answer sets; an answer may be lost. `out` remembers that the reader signed out
and has not signed in since.

**DataRoute.** One request: its checks, its body piece by piece, `forwarded` bytes
and the answer; one timer and the client's abort may come at any time.

### The public site

**AccountPage.** The state of `AccountApp` (`view`, requests `me`, `keysRead`,
`login`, `signOut`, `key`, the put-off refresh `deferred`), the browser's one
`cookie`, which another tab may change, and whether the page is `visible`. A read
and a key operation are served at one time and answered at another, or never.
The epoch counter and the abort controllers are what they do: a bump drops the
reads in flight.

**SignInForm.** The choice of a method, the form, the requests it sends and
`mailed`, the challenges that were shown; an answer may come to a form that is
gone.

**Site.** `tab` is the browser's history with its marks, the page's own route, the
view of the library and the positions it remembers; the actions are links,
filters, the back button, a reload, the redirects of the sign-in, and the answer
to "who is signed in". Handlers and the effects of the renders they cause are one
step. A view may name the page after the last one of its list, which `Located`
brings back.

**Bookmarks, CatalogPanel.** A library per account and one of the browser; a
catalogue kept with the account it was read for. Requests carry the cookie of the
time they are sent and the account the page shows; the Worker refuses when they
differ.

**Search.** The list of a query by rank and group, its highlight, and
`IsOneEditApart`, a translation of the code's own loop, against a reference
definition. Texts are letters only there.

**ResearchGuides, PointInTime, EventCalendar, Showcase, Copying.** The loader all
articles share and the article that waits (address, render, effect in this
order), with the build's rule over the import graph of a bundle (what is loaded
at first is what is in every set that has the entry and is closed under imports);
the examples as functions of an archive; the browser's dates as day numbers; the
plan carried in addresses and the preference in `localStorage`; a panel whose
text changes under a copy, and the console's messages, numbered as they come.

### Editors and operators

**LinkAudit, Bibliography.** Workers that share a cursor over the sources of a
library, and the exit code; a file written anew after each paper, torn when the
run is killed, and the build that reads it.

**Console.** Tabs in one of two shells, their view (log-in, tokens, browser,
reports), the calls of each, the account of the browser and the token file. An
entry is what the properties tell apart: enabled or paused, its tier, with or
without a limit of its own.

**Reports.** The catalogue row of a dataset from its last receipts, as
`api_server.py` classifies it, and what the report pages make of it: alerts,
filters kept in `localStorage`, hidden columns, the bar of a usage; and the
console's counts of its own use, read, added to and written back by every tab.


## 3. The runs

A run checks one group of components. Components that share no variable stand in
one module side by side: the variable `part`, chosen in the initial state, says
which of them moves (`EitherInit`, `EitherNext`); the others stay in an initial
state. So one run covers several instances without multiplying their states.

| Run | Instance | Shows |
|---|---|---|
| `threads` | gate: 3 threads, 2 leases, 1 request start per window of 1 tick, 1 address, deadlines of 2 ticks; executor: 2 workers, 3 callers | `JobsHaveOwners`, `EveryCallReturns` |
| `stores` | gate: 3 threads, 2 leases, 1 request start per window of 2 ticks, deadlines of 2 ticks, 2 nodes that cool down for 1; ingest: 2 runs, 1 row key, 2 variants, 2 releases (the second drops a variant and moves metadata), 3 answer sequences; lock: 2 writers, 1 reader, 2 directories, 2 sentinels, 2 database files, 2 commits per file | `LeaseConservation`, `StartsAreSound`, `NoReplay`, `FactsBacked`, `CleanRunKeepsItsRows`, `ReceiptsTellAll`, `AppendOnlyImmutable`, `EndedRunsAreFinal`, `AuthorityIsKept` |
| `collection` | the unit and a manual run, 3 plans (2 Tushare, 1 Firecrawl; the last two repeat), 1 batch file, 1 crash; five fan-out setups of 2 or 3 batches, up to 2 per run, up to 3 days | `ReceiptsAreFollowed`, `WorkIsBounded`, `BatchesAdvance`, `EveryPlanCollected` |
| `commerce` | 1 browser, 2 orders, 2 events, 2 settlements at a time; the panel with 2 offers and 2 requests | `PaidBeforeActive`, `OneOrderPerChoice`, `EachOrderExtendsOnce`, `ActivationsAreFinal` |
| `identity` | 1 mailbox, 2 challenges, 2 senders, 2 verifiers; connection: 2 sessions, 2 keys, 3 envelopes, 2 linkers, 1 forwarder | `SessionsAreProven`, `ConnectionHolds` |
| `account` | 1 mailbox, 1 sender, 1 verifier, 1 deleter, the cron run; the account page of one account | `DeletedIsLockedOut`, `DeletionCompletes`, `ImplementsAuthority`, `NothingHangs` |
| `pages` | console: 1 tab, 2 requests, 2 accounts, 2 keys, both shells; account page: 2 accounts and an access-key session | `ConsoleIsTruthful`, `ButtonsComeBack`, `PageFollowsAccount`, `ChangesAreMeant` |
| `site` | histories of 2 entries (3 within the library), bookmarks of 2 accounts, catalogue of 2 accounts and 2 key sessions, sign-in with 2 addresses and 2 challenges | `PageMatchesAddress`, `ReaderIsBroughtBack`, `CatalogFollowsAccount`, `CodesGoWithTheirChallenge`, `LibrariesKeepApart` |
| `web` | sixteen small parts: search, its words, archive, reader, build, audit, papers, calendar, gateway, rates, route, reports, counts, copying, plans, preferences | `PagesShowWhatTheyName`, `ToolsVouchForTheLibrary`, `SignedOutMeansOut`, `RatesCountTheAdmitted`, `WholeBodiesOnly`, `NoLookAhead` |
| `lock_body_error` | 1 writer, 1 reader | violation of `ProjectionErrorsSurface` (section 6) |
| `schedule_exhaustion` | the plans of `collection`, no batch, no crash | violation of `ExhaustionIsNoFailure` (section 6) |
| `console_clear_limit` | the console of `pages` | violation of `ClearedLimitIsLifted` (section 6) |

Some of these names stand for several properties that belong together:

| Property | Is the conjunction of |
|---|---|
| `StartsAreSound` | `RateHonoured` (the rate of the account) and `PreferredIsUsable` (the preferred node is not cooling down) |
| `JobsHaveOwners` | `AdmissionCoversWork`, `ShutdownIsFinal`, `NoOrphanProcess` |
| `EveryCallReturns` | every call of the gate ends; every call of the executor and its shutdown return |
| `ReceiptsTellAll` | `OutcomeAgrees` (a run's report and its receipts) and `HiddenRowsExplained` (why a stored row is not served) |
| `AuthorityIsKept` | `DomainExclusive`, `NoLostUpdate`, `AckedDurable`, `ReadsSeeAcked` |
| `WorkIsBounded` | `OneCollector`, `BudgetHonoured`, `BatchAtMostOnce` |
| `ReceiptsAreFollowed` | `PlannerMatchesSelector` (both judge a window alike) and `OldestFirst` (whoever waited longest is attempted next) |
| `BatchesAdvance` | `LanesAlternate` (the current day and the oldest unfinished one), `EveryBatchServed`, `WindowRetires` |
| `ActivationsAreFinal` | `ActiveIsFinal`, `OneTermPerActivation` |
| `SessionsAreProven` | `OneSessionPerChallenge`, `GuessesBounded`, `AcceptedWasMailed` |
| `ConnectionHolds` | `LinkIsNotReplaced`, `DisabledHasNoConnection`, `AnswersAreCurrent` |
| `ConsoleIsTruthful` | `ActsAsShown`, `SamplesAreNotMixed` |
| `PageFollowsAccount` | `OneAccountShown`, `RefreshIsNotLost` |
| `ChangesAreMeant` | `ResumedOnPurpose` (a paused key works again only when the operator said so), `SignOutIsConfirmed` |
| `ReaderIsBroughtBack` | `BackRestoresPosition`, `SignInReturns` |
| `ToolsVouchForTheLibrary` | `AuditEndsWell`, `VerifiedOrFlagged` |
| `PagesShowWhatTheyName` | the search list, the article's guide, the build's deferral, the calendar, the reports and counts, copies and messages, plan and preference |

### Why the bounds are enough

The bad cases of these components need two actors that interleave and a third
event that comes between (a replacement, a crash, a release, a sign-in in another
tab). Each instance has exactly these: two contenders plus one of every kind of
disturbance, and limits set one below the demand (two leases and one start per
window for three threads, two workers for three callers, budgets below the sum of
the plans), so that the waiting and the refusing branches are taken. With two
leases and a deadline no shorter than the window, two threads meet at the edge of
a window, one sleeps there and starts after it, they report on nodes in either
order, and the third sleeps for a lease: the thread a `notify` wakes may be the
wrong one. Whether calls end is checked with one address and windows of one tick
(`threads`), because it does not depend on where a call connects and liveness
cannot use symmetry; everything else of the gate with two nodes (`stores`). Of the
three plans the first can only be collected with what the two that repeat leave of
a run; one batch file is enough, since a second one only waits for the first.
`IngestStore` needs one key because rows of different keys never influence each
other, two variants because a run can then fail in one and succeed in the other,
and two runs for owner and observer. `ResumableFanout` has one more batch than a
run may take. A console with one tab and two requests shows every overlap of two
answers; the token file changes under it. Histories of three entries have a
forward entry to cut off and one to come back from; `SmallHistory` bounds how many
of them are library entries and how many are other pages.

Counters that would grow without end are capped in the guards of the models, or
in a constraint of the `MC` module, and named there: `MaxCommits`, `MaxCrashes`,
`maxDay`, `maxCrashes`, `MaxNow`, `MaxEntries`, `MaxLibrary`, `MaxChallenges`.
`MaxAttempts` is 2 in `AuthorityLock` (5 in the code) and in `EmailIdentity` (5 in
the code): the second attempt already shows what a further one does.

Symmetry is used only in runs without a liveness property. `CHECK_DEADLOCK` is
off where the system may really stop: in `stores` (all runs ended, writers at
`MaxCommits`), `identity` (the only account deleted) and `collection` (a fan-out
whose last day is retired).

### Fairness

* `TransportGate`: the clock advances, a thread that can take a step is
  scheduled, sockets honour their timeouts. Nobody has to make a call, and no
  fairness between waiting threads is assumed: calls end by their deadline.
* `CatalogExecutor`: threads run, locks are handed on (strong fairness), jobs end
  and the executor's manager thread reaps dead workers. Jobs do not hang: with a
  worker that never answers, neither the call nor the shutdown returns, in the
  code too.
* `ResumableFanout`: the timer keeps starting runs and a started run goes on.
  `WindowRetires` assumes in addition that crashes, failures and rolled back rows
  come to an end; `EveryBatchServed` and `LanesAlternate` assume nothing of the
  provider.
* `ScheduleRun`: processes run; a process that finds the lock free again and
  again finally gets it (strong fairness; the service is started periodically);
  intervals end, since time passes; from some time on the provider answers and
  nobody dies. Nothing is assumed of how soon a repeating plan is due again: it may
  be before every run. `EveryPlanCollected` is therefore said of plans for which
  the repeating plans before them, and before each plan ahead, leave enough of a
  run (`Sustained`), as the event budget of `config/provider_native_schedule.yaml:26`
  is sized to. Without this the order of the plans does starve the last ones.
* `EmailIdentity`: the cron trigger fires again and again and cuts runs off only
  finitely often; no fairness for users.
* `AccountPage`: every request ends: it is answered, refused or cut off by its
  timer (`accountSession.js` puts a timeout on each). Nothing is assumed of the
  reader, of other tabs, or of the order of answers.

## 4. The proofs

`tlapm` checks 42 theorems in eight modules, for every value of the constants that
satisfies the assumptions of the modules. These are named where the constants are
declared and say what the code's configuration says: finite sets of threads and
processes, positive limits, an amount and a term for each offer, distinct model
values, answer sequences the collector can make (`GateConstants`,
`StoreConstants`, `FetchesAreCallSequences`, `FanoutConstants`,
`CommerceAssumption`, `PanelAssumption`, `IdentityAssumption`,
`ConsoleAssumption`, and those `MC` modules take from the modules they
instantiate). TLC evaluates every one of them in a run.

A property of a run is proved of the specification the run checks. Since its parts
share no variable, each theorem is proved of its component and the steps of the
others are stutters. An invariant of a run is seldom inductive; the
strengthenings below are the arguments.

* **ThreadsProofs.** `JobsOwned`: `ExecInv` counts admissions, says for each job
  who awaits it and for the pool who may still stop it, whatever breaks between
  two locks.
* **StoresProofs.** `StoreTyped`, `AppendOnlyRowsImmutable` and `EveryFactBacked`
  from `StoreInv` (types, the progress of a saving run, a committed row receipt
  has a batch). `ReceiptIdsNeverCollide` needs `Numbered`: receipts of a running
  run number only calls it has dealt with, except the row receipt of a late
  commit error, which is ahead by one. This makes the primary key of the journal
  safe. `CleanRunsKeepTheirRows` adds that inserted keys are stored, and that an
  explicit failure of the owner, the only licence to take a row over, leaves a
  failed receipt. `OutcomesAreFinal` and `ReceiptsTell` from `HiddenInv` and
  `ToldInv`: a run's receipts are those its progress tells, and stay.
  `AuthorityKept`: `LockInv` follows a process through the two locks
  (`DirectoriesLocked`), at most one transaction is open on the file a path names
  (`OneTransaction`), and what was acknowledged is in that file (`SeenAcked`),
  although sentinel and directory may be replaced between any two steps.
  Of the gate: `LeasesConserved` from `LeaseInv` (the shape of `pc`,
  `inFlight \in Nat`, the equation itself). The equation alone is not inductive:
  that `Release` may subtract one needs the caller to be in `Holders`; `Enter`,
  `Leave` and `ReleaseKeepsLeaseInv` move one thread in or out of the holders,
  also when a sleeper is woken in the same step. `NeverReplayed`: `StartedInv`
  places a thread with `started` in the last stages of its call. `StartsSound`:
  `RateInv` relates the list the code prunes to the history of all starts.
* **CollectionProofs.** `WorkBounded`: `WorkInv` says who holds the lock, that the
  runtime ledger is the calls made, and that a batch file is gone before its
  batch runs, for any processes, plans, rates and crashes; the sums over plans are
  unfolded by a least counterexample on the size of the set, the form of induction
  the provers accept. `PlannerAgrees`: for every binding, a window retired by the
  planner leaves the collector nothing to fetch, and where only the collector has
  nothing left, a batch is blocked or the source changed. `ReceiptsFollowed` adds
  `OldestFirst`. That no attempt is *recorded* while another candidate has waited
  longer is not inductive: between the choice and the receipt lie other receipts,
  crashes and midnight. `TurnInv` says of what a run still has to do that it comes
  in turn (`Turns`): a candidate that waited longer comes earlier in it. The lemmas
  are that the choice by rank is such a list (`FirstPlaces` counts the batches
  before each one, `ListInOrder`), that a touched batch goes to the end of the
  history and the others keep their order (`TouchMoves`), that the rest of a list
  in turn is in turn (`TurnsTail`), and that midnight only takes candidates away.
* **CommerceProofs.** `CommerceInv` joins the tables with what a settlement in
  flight knows: a notification past its checks belongs to a placed order and
  names its amount; only a confirmed order is about to be activated.
  `ActiveOrdersArePaid` and `OrderAndProvisionAgree` are conjuncts of it,
  `ActiveOrdersStayActive`, `OneTermPerOrder` and `FinalActivations` step
  properties. `EachOrderOnce`: a subscription covers exactly the paid terms, as a
  sum over the active orders that one activation raises by one term.
  `OneOrderForAChoice`: `PanelInv` adds the panel's key, which every order it
  could have placed carries.
* **IdentityProofs.** `SessionsProven`: `ProofInv` (rows have an origin, a code
  is counted before it is compared, a challenge is used up by the statement that
  opens its session). `DeletedStayOut`: `LockInv` says of a verification past its
  code that the session it is about to open belongs to a user who still exists
  and is enabled, or is refused. `AuthorityImplemented`: under `AuthorityInv`
  every step of the tables is a step or a stutter of `SessionAuthority`, by case
  on every statement of every request and of maintenance. `ConnectionStands`:
  `ConnectionInv`, which says what a linker and a forwarder in flight know.
* **WebProofs.** `RatesHold`, `BodiesAreWhole`, `SignedOutStaysOut`,
  `AnswersNeverLookAhead`, each from an invariant of its component. `ToolsVouch`:
  a position the cursor has passed has a result or a worker at it (`AuditInv`),
  and after a run that ends well every paper of the file is verified or flagged,
  while a killed run leaves what was confirmed, or a torn file that every later run
  without `--refresh` reports (`PapersInv`).
  `PagesKeep`: articles show their own guides, guides stay out of the first load,
  counts claim no more than happened, a copy is reported of the text that is
  shown, every message has its timer, and plan and preference are those chosen
  (`ShownInv`).
* **SiteProofs.** `CatalogFollows`, `CodesGo`, `LibrariesApart` (`CatalogInv`,
  `FormInv`, `MarksInv`), and `PageMatches` and `ReaderBroughtBack` from `SiteInv`:
  every entry of the history has a mark of its own, a remembered position belongs
  to a mark, and the page is the one of the current entry (`TabIsRight`), for
  every library, any number of entries and any mixture of links, redirects and
  answers.
* **PagesProofs.** `ConsoleTruthful`, `ButtonsReturn` and `ChangesMeant` from
  `ConsoleInv` and `FileInv`: what each request in flight says of the view that
  waits for it. `PageFollowed` from `PageInv` (`RightPage`, `RefreshOwed`): the
  page shows what its last answer said, and a refresh that was put off is owed as
  long as a request is out.

### What proving changed in the models

`HiddenRowsExplained` was false with three runs, which the instance with two does
not show: it now lists three explanations. That the batch that waited longest is
served first was false of `complete_window` bindings with three or more places per
run, which serve by index alone (`provider_native_ingest.py:723-735`), while two
places hide it: `OldestFirst` is now said of the other two modes. The panel needed `PanelAssumption`. The
selection of batches is stated by rank instead of a sorted list, the history of
receipts is moved by position and not by a filter, the copies'
messages are a numbered set, the chunks loaded first are what every closed set
with the entry has, and the paid terms a sum of a function: the same values, in a
form one can reason about.

Covered by the proofs and by no run: current-snapshot datasets
(`AppendOnly = FALSE`), datasets that forbid empty answers, and releases that move
the schema version of stored rows (`Immovable`).

### Only model-checked

* Liveness: `EveryCallReturns`, `EveryPlanCollected`, `DeletionCompletes`,
  `NothingHangs` and `BatchesAdvance`. Liveness under fairness and `ENABLED` are
  out of the prover's reach.
* Three parts of `PagesShowWhatTheyName`: the search, whose list is made by
  `SetToSortSeq` and `FlattenSeq`; the calendar, whose days come from date
  arithmetic with division; the reports, whose tables are made by `SelectSeq`.
  These operators are recursive definitions over data that the provers cannot
  unfold for every input. `OneSlipIsForgiven` compares an algorithm with its
  reference definition over all short words, for the same reason.
* Types: `TypeOK` is a theorem in `IngestStore`, `Commerce` and `AuthorityLock`,
  where it is part of the inductive invariant; elsewhere an inductive invariant
  holds the part of it the proof needs.

## 5. What is left out, and why

* *Pure computation* on immutable input: registry parsing, request profiles,
  validation predicates (free choices in `IngestStore`), SQL text, catalog and
  runtime projection, renderers, compilers. A test reaches these.
* *Provider adapters* (Binance, Firecrawl, prediction markets): to the store they
  are answers of kind rows, empty or failed.
* *Texts and presentation*: some 8000 lines of prose kept in JavaScript modules,
  the layout of pages, charts, styles, mail templates.
* *API admission*: rate windows, daily usage, concurrency claims, the
  de-duplication cache and the file lock of the token store (`auth.py`). The
  console's requests change the token file in one step.
* *Query planning and cursors*: keyset pages over a changing store, the eight
  filter passes over hidden rows. Only that a cursor is bound to its query is
  modelled, in `Console`.
* *Release session and store initialisation*: see the plan.
* *Corrupt receipts*, codes, hashes and envelope formats, batch caps and the
  counts maintenance reports.

## 6. Where code and text disagree

Three disagreements are runs of their own, with TLC's counterexample:

1. `storage/receipt_projection.py:4694`: the retry loop of the read snapshot
   surrounds its `yield`. A projection error raised by the caller's body is
   taken for a transient one, the lock is taken anew and the body resumed a
   second time, so the caller sees `RuntimeError` and not the projection error
   the comment promises (`lock_body_error`).
2. `tools/run_provider_native_schedule.py:510`: the adapters turn an exhausted
   ledger into an outcome, so the handler that should skip the plan is never
   reached and the plan gets a failed receipt, which the comment there and
   `docs/OPERATIONS.md:994` exclude (`schedule_exhaustion`).
3. `frontend/src/views/admin/TokensView.tsx:106`: a limit field left blank is left
   out of the change that is sent, and `auth.py:1451-1466` keeps every field that
   is not named. The dialog (`TokensView.tsx:413`) says that clearing the field
   lifts the limit; the change is confirmed and the limit stays
   (`console_clear_limit`).

Met while modelling and left as the code has them, since no text of the
repository says otherwise.

*Data plane.* An append-only row whose schema version moved is refused by every run
that returns it. The last page of an exhausted budget is stored with success receipts
although the run reports failure (`OutcomeAgrees` excepts it). A row may stay
hidden although a later complete run returned it (`HiddenRowsExplained` lists
every way). One bad answer in a batch blocks the batches that shared its run.
Catalogue rows are cached for five seconds by the time of the main database file,
which a write to the WAL does not change. `alert_ids` of two alerts may coincide.

*Account plane and site.* A mutation forwarded with a key that was unlinked
meanwhile stays performed although its answer is hidden. A refused deletion leaves
the keys in their loading state (the exception in `NothingHangs`). The
weekday of a calendar day is that of the day before west of UTC−4 (`dowCN`; the
property of the calendar says so), while the columns of the grid are computed in
UTC and are right everywhere. A calendar whose drawing fails after the status line
was hidden (`event-calendar/app.js:176`) is left without a message and perhaps half
drawn (the state "broken" of `EventCalendar`). A bibliography torn by a kill
stops every later run without `--refresh`. Going back to
`/pricing?plan=…` restores the plan of the address, while a bare `/pricing` keeps
the card of its own. The stage counts of `/data` count all families.

*Console.* An older list of keys may overtake a newer one; the table is then behind
the store until the next read. A failed badge is amber, since "degraded" is tested before "failed". The
notice for datasets without any receipt cannot be reached. Paused datasets are
counted as needing confirmation but raise no alert. A remembered filter hides rows
of the next visit. `CollectionView` is in no menu. Counts cleared in one tab come
back from another; the count "actions" is never raised. A stored theme is not
normalised.

## 7. Plan

The modules of section 2 are done, with the theorems of section 4. What is worth
adding, in this order:

1. `ApiAuthority` (`auth.py`, `api_server.py`): token file mutations under the
   file lock, rate windows, daily usage, concurrency claims and the
   de-duplication cache. Abstract specification: a token is usable from the
   commit of its creation to the commit of its removal; a claim is released
   exactly once.
2. `QueryPages` (`query_service.py`, `query_cursor.py`): keyset pages and signed
   cursors over a store that changes between pages; the filter passes over
   hidden rows; composed with the reader's cohort of `IngestStore`.
3. An abstract `FactLog` (rows appear once, with provenance) that `IngestStore`
   implements, step by step by proof from `StoreInv` and `CleanInv`.
4. `ReleaseSession` (drain, switch, roll back) composed with `ScheduleRun`;
   store initialisation added to `AuthorityLock`.
5. Proofs: `OldestFirst` for several variants, where the age of a batch is the
   latest attempt of any of them; the search list and the reports, once restated
   without recursive operators.
