# email_assistant in TLA+

TLA+ models of the e-mail assistant in this repository: a Django/DRF service with Celery
workers, Redis (cache, locks and broker), a relational database, an LLM behind the `openai`
SDK, and one vanilla-JS page. Paths below are relative to `src/`. `PROJECT.json` says, for
every definition, which lines of the code it stands for.

The core of the system is *one expensive, non-idempotent job* (summarize an e-mail thread
with an LLM and overwrite the thread's summary row) that many users may trigger at once, and
a cached read path beside it. That core is modelled, checked and proved. Around it, modelled
and checked: the call to the LLM, the two screens of the page with their session, the two
reports and the firm scope of every endpoint, the identifiers of log records, and the
seeding command.

## 1. Inventory

| component | state | operations | interacts with |
|---|---|---|---|
| **Summary refresh** `apps/summaries/views.py:104-154`, `tasks.py`, `services/cache.py`, `services/summarizer.py`, `repositories.py` | Redis keys `summary_lock:{thread}` and `summary_inflight:{thread}` (120 s each), the broker's queue, the task's progress, the `EmailSummary` row | POST refresh (claim, look up, queue); task (lock, read, call, upsert, two deletes, result) | LLM client, Redis, database, read path (invalidation), page (polling) |
| **Summary read** `views.py:41-91`, `serializers.py`, `cache.py:58` | Redis entry `summary:v{N}:{thread}` (1 h), the row, the newest message | GET summary (cache, row, serialize, fill), post-commit delete | refresh, mailbox |
| **LLM client** `services/llm_client.py`, `schemas.py` | counters of two nested retry loops, the reply | `summarize`: request, repeat, back off, sanitize, validate | OpenAI SDK; runs while the lock is held |
| **Task status** `views.py:157-172` | Celery's result store (the broker's Redis unless configured otherwise; results live an hour) | GET task | page |
| **Page** `static/app.js`, `templates/index.html` | session in `localStorage`, `currentThreadId`, `reportState`, what is shown, button states, a poll's timer | login/logout, session refresh on 401, load thread/summary, refresh and poll, reports | every endpoint |
| **Reports** `apps/reports/` | none (reads rows) | per client of a firm, per firm of all; date filter; paging | refresh (rows), access control |
| **Access control** `core/permissions.py`, repositories, views | `Accountant.firm`, `.role`; `firm_id` copied to clients, threads, messages, summaries | visible list / visible object / role gate | all views |
| **Log context** `core/logging.py`, `middleware.py`, `baggage.py` | context variables, OTel baggage, the token stash of a worker | request enter/leave, task prerun/postrun, filter a record | views, workers |
| **Seeding** `accounts/management/commands/seed_data.py` | the rows it creates | one transaction of get-or-create and skip-if-exists | database |
| **Accounts, tokens** | users; JWTs of the library | obtain, refresh, me | page |
| **Throttle, encrypted fields, telemetry, mock provider, settings, migrations, load test** | of libraries, or none | - | - |

### What is hard here

* **Interleaving.** Web processes, workers and the `refresh_summary` command share two Redis
  keys and a row; each helper of `cache.py` is a command of its own, so every pair of
  them can be separated by another process. `post` claims, then looks up, then queues.
  The task deletes the lock, then the in-flight key. The reader reads the row, the newest
  message and the cache in three steps.
* **Keys without an owner.** Both keys expire, and whoever reaches its `finally` deletes whatever
  is there.
* **Failure.** `IGNORE_EXCEPTIONS` turns a Redis error into `None`, which `cache.add` callers read as
  "somebody else has it"; tasks are acknowledged before they run, so a dead worker's task is
  lost; `apply_async` may fail after the claim; a process may die between COMMIT and the
  `on_commit` hook; Redis may restart empty (README: `appendonly no`), and takes keys, queue and results with it.
* **Time.** The lock lives 120 s and is not renewed, while the call it covers is repeated by two nested loops and has no limit in
  seconds. A refresh that outlives its lock works beside the next one and deletes its lock.
* **Staleness.** `is_stale` is cached with the payload; the flag compares send times, not arrivals.
* **The page** is single-threaded, but each `await` lets other handlers run: overlapping loads, a
  session refresh that ends after a logout, a report rendered with another scope.
* **Reused threads.** Web and worker threads serve one request or task after another, and eager tasks run
  inside a request; what a context variable is reset to is all that keeps their identifiers apart. With telemetry on, clients have a say
  in them too: the Django instrumentation takes in the `baggage` header of a request.
* **Reports** are aggregated anew for every page, while refreshes of several hosts move rows; four pieces of code check the firm.
* **Seeding** relies on unique keys some of its rows do not have, and on indexes into lists that change from run to run.

### What makes each component correct

* Refresh: as long as no lock ran out under its task, at most one refresh of a thread at work, the row never goes back in time, and your
  own finished refresh covers your mail; a lock that ran out harms nobody but those whose work overlaps; a skip has a reason; every poll ends
  unless its task or result was lost; no crash blocks a thread for longer than the keys live.
* Read: the cached payload agrees with the row, except for one known race, and never for good;
  no answer announces mail that is not there.
* LLM client: the retry budget is used before an error is raised, junk entries are never the reason for
  failing, every call ends, and costs no more requests than the settings multiply to.
* Page: buttons come back, one poll at a time, what is shown belongs together and to the user shown,
  every call ends.
* Reports and access: what is visible is of your firm; lists, lookups, permissions and reports agree; the two
  reports add up to each other; a reading page by page misses no row it should not.
* Log context: a record carries the ids of what caused it, or those its client claims, never those of another request; contexts do not leak.
* Seeding: a run leaves everything it asked for, once and in the right firm; a second one adds nothing.

The hazards behind these, each at its line and with the properties that watch it, are in
`PROJECT.json` under "hazards".

## 2. Modules

| module | models | kind |
|---|---|---|
| `SerialRefresh` | what the refresh path *promises*, without lock, key, queue or clock: one refresh at a time, under a lease that may run out | abstract specification |
| `SummaryRefresh` | POST refresh, the two keys, the task, faults, the clock | detailed specification |
| `SummaryRefresh_proofs`, `SummaryRead_proofs`, `LLMClient_proofs`, `ThreadScreen_proofs`, `ReportScreen_proofs`, `Reports_proofs`, `LogContext_proofs`, `Seeding_proofs` | theorems about the module of that name | TLAPS |
| `SummaryRead` | GET summary, cached payload, writers' commit and hook | detailed specification |
| `LLMClient` | one `summarize` call: retries, sanitizing | detailed specification |
| `ThreadScreen` | the page's thread screen: loads, summaries, refresh and poll | detailed specification |
| `ReportScreen` | the page's session (login, 401, logout) and report screen | detailed specification |
| `Reports` | firm scope of every endpoint, the two reports, their pages while refreshes commit | operators and specification |
| `LogContext` | identifiers of log records from request through queue to worker | detailed specification |
| `Seeding` | runs of `seed_data`, in series and at once, on two database engines | detailed specification |
| `MC*` | values for TLC | instances |

`SummaryRefresh` implements `SerialRefresh` (`Serial == INSTANCE SerialRefresh`, with `stage`
computed from the tasks' phases). `SummaryRead` and `SummaryRefresh` share `Commit`: the former leaves out
the lock (its writers may overlap, as the `refresh_summary` command allows), the latter leaves
out the cached payload. `LLMClient` is the inside of `SummaryRefresh`'s `CallLLM`/`Raise`. `Reports`' `Stamp` and `upsert` are
the same commit once more, seen from its date. `ThreadScreen` and `ReportScreen` are the two halves of `app.js`; `ReportScreen` has
the session of both. `LogContext` follows one `apply_async` of `SummaryRefresh`'s `Send`.

### SummaryRefresh and the code

A task id `k` stands for one POST together with the task it may queue: the view draws a uuid before it
claims. `target[k]` is the thread in its URL; `web[k]` is how far the view has come; `answer[k]` is the
`task_id` in its 202. `lock[t]` is the time the lock key has left, 0 when it is absent;
`inflight[t]` is the in-flight key's value and time left. Mail and rows are sets of messages: the row is the
set it was made from (`emails_analyzed` and `up_to_message_at` are its size and maximum).

| action | code |
|---|---|
| `Post` | `try_claim_inflight` (`cache.add`) |
| `LookUp` | `get_inflight`; join, or fall through to `apply_async` without a key of its own |
| `Send` / `SendFails` | `apply_async` and the 202 / broker error or death before it |
| `TaskStart` | `acquire_lock`, or return `skipped` (before the `try`: the in-flight key stays) |
| `ReadThread`, `CallLLM`, `Commit` | `SummaryService.refresh`: read, model, `transaction.atomic` upsert |
| `Raise` | any exception in the `try` (no messages, model, validation, database) |
| `ReleaseLock`, `ReleaseInflight` | the two statements of the `finally`, two Redis commands |
| `Return` | Celery stores the result; `TaskStatusView` leaves PENDING |
| `Crash` | worker killed (acks_late is off) |
| `LoseKeys` | Redis restarted empty or evicting: any keys, any queued tasks, any results; or results expired |
| `Arrive`, `Tick` | a message row appears; Redis's clock |

Every cache helper has, besides its normal outcome, the outcomes of an outage (enabled by `"outage" \in
Faults`): the caller gets `None`/`False`, and the server may or may not have carried the command out.

**Time.** One `Tick` takes a tick off every key, and waits for nobody: a refresh takes any number of ticks, as nothing in the code bounds or
interrupts it. A lock may therefore expire under its task, which does not notice. `cache.py:8` calls 120 s "comfortably more than an LLM call"; with the
default settings a call is up to nine requests (`RequestBudget`), each limited to 30 s *per phase* (connecting, each read), with waits between them that a server may set
by `Retry-After`.

`exposed` is history. A task at work is put into it when the lock of its thread expires or is lost (`Expose`), and a task that gets the lock while an exposed one
is at work joins it (`Join`): it works beside the other one, may be overtaken by it, and may lose its lock to the other's `finally`. All safety properties of the
refresh are about tasks that are not exposed, or about threads at which no exposed task is at work *now*. They hold again once the exposed tasks have ended:
a lock that expires does harm, but not beyond an unbroken chain of overlaps.

In the refinement the stage of a thread is "open" while an exposed task is at work there: `SerialRefresh` then lets any of several refreshes overwrite the row
with one made from less. A lease that runs out (`RunOut`) is a step of the abstract specification, so no assumption on time is needed.

### SummaryRead and the code

A message is its `sent_at`. `CacheGet` is `cache.get` and the answer on a hit; `FetchRow` the row's query (404 without
one); `Serialize` builds the body, in which `get_is_stale` queries the newest message; `Fill` is `cache.set` and
the answer. A writer `Begin`s (reads the thread), `Fail`s or `Commit`s, and `Invalidate`s in the hook; `Crash` is a death
before the hook. Mail arrives in any order of send times.

### LLMClient and the code

`Answered`/`Failed` are one HTTP request; `Resend` is the SDK's own repeat (the client is constructed without
`max_retries`, so the SDK's default is in force; modelled from its use, external: which errors it repeats is the SDK's list, and a server's
`x-should-retry` header, which overrides that list, is left out); `Retry` is tenacity's `stop_after_attempt` and `retry_if_exception_type` with `reraise`; `Parse`
is `resp.choices[0]`, `json.loads`, `_sanitize_payload` and `SummaryPayload.model_validate`. A reply is abstracted to what each list of the schema contains: good, junk (no
usable name/description/text) or otherwise bad entries, or no list at all; or it has no choices, is no JSON, or no object. `requests` counts the requests that
have ended. Seconds are not modelled: `timeout=30` (`llm_client.py:82`) is the HTTP client's limit for each phase of a request and not for the whole, and the SDK
sleeps as long as a `Retry-After` asks (up to a minute), so the code bounds requests and no time.

### ThreadScreen and the code

One activation of `loadThread` (`Loads`) or `refreshSummary` (`Refreshes`) is a chain of steps, one for each stretch of code
between two `await`s or timers; the chains of overlapping clicks interleave in the order the answers come in.

| action | code |
|---|---|
| `ClickLoad` | Load, Enter or a sample: `GET thread` goes out |
| `LoadedThread` | `currentThreadId = id`, `renderThread`, and the beginning of `loadSummary` |
| `LoadFails` | the `catch` of `loadThread`: the body is hidden |
| `LoadedSummary` | the rest of `loadSummary`: 200 and 404 fill the panel, anything else the status line |
| `ClickRefresh` | Generate/Refresh: buttons off, `POST refresh` of `currentThreadId` |
| `Accepted` | the 202, and the first poll |
| `Pending`, `PollAgain` | not terminal and below the cap: `setTimeout`; the timer |
| `Success` | buttons on, `loadSummary(currentThreadId)` with what is current *then* |
| `Failure` | FAILURE, REVOKED, the cap, an error of the poll or of the POST |
| `Refreshed`, `HideLater` | the end of `onTerminal`; its 3 s timer |

The two buttons are one variable, as they are always set together. `overtaken`, `another` and `late` are history that
only properties read (`another` also decides a text). A poll's 60 s are `PollCap` waits. `PanelBelongsToThread` has an
exception, `late`, because the code has none: when a summary's answer arrives after another thread has been rendered, it fills the
panel all the same. What the property says is that nothing else mixes the two, a refresh that ends on another thread in particular.
In this module `api` either answers or throws; what a 401 does is in `ReportScreen`.

### ReportScreen and the code

Again a handler is a chain split at its awaits; here the chains are activations of `api` (`Calls`), with `login` as two in a row.

| action | code |
|---|---|
| `SubmitLogin`, `LoggedIn`, `GotMe` | `bindLogin`'s submit; the answer of `POST token`; the answer of `GET me`, the hash and `render` |
| `ClickLogout`, `logout` | the button; `logout()`, also reached when a refresh fails |
| `Unauthorized` | a 401: `tryRefresh` unless `_retried` or no refresh token is left, else the error |
| `Refreshed` / `RefreshFails` | the rest of `tryRefresh` and the second `api(...)` / `logout()` and "Session expired" |
| `Fails`, `Throw` | any other status or no answer; the `catch` of the caller |
| `Tab`, `Apply`, `Prev`, `Next_page` | the listeners of `bindReports`, each ending in `fetchReport` (`Choose`) |
| `ShowReports`, `ShowThread`, `Reload` | `route` to either screen; the page loaded anew with `localStorage` and hash as they were |
| `GotReport` | `renderReport`: headings of the scope *chosen by now*, rows of the answer, pager |

`access`, `refresh` and `me` are the entries of `localStorage`; a token is the user it is of, as nothing else about it matters here.
The role gate of a report is the API's (`Allowed`) and the page's (`RoleOf[me]`). Dates are left out: Apply and Clear change the query as a tab
does. `mixed` is history: it is set when `tryRefresh` stores a token for which the session has no refresh token any more, or when a sign-in overlaps
another, and reset by a sign-in alone. `overtaken` marks a report request that a later one has overtaken.

### Reports and the code

The operators are the code's: `is_role_superuser`, `list_for_firm`, `list_for_client`, `get_for_firm`, `Detail`
(`ClientDetailView` and `ThreadDetailView`: scoped lookup, then `check_object_permissions`), `check_thread_access` (the summary
endpoints), `apply_date_filter`, `firm_clients_with_summaries` and `global_grouped_by_firm`. A row of a report keeps its key, its sums and the set of
its threads. `client_row` and `firm_row` are the two aggregations, which the code writes twice. The dicts of the Python code are built in the order of the query and
sorted stably, hence the second key of `LargestFirst`. `Sorted` puts a row in the place behind those that come ahead of it, which is what a sort does when the order
is total: no two stamps are equal, and `RowsHaveOneOrder` in the proofs says that rows then are ordered.

The actions are a refresh's last part, split where its date is taken (`Stamp`: `timezone.now()`) and where it is committed (`upsert`, or
`Rollback`), and one user who reads a report: `FirstPage`, and `NextPage` as long as a next page is linked. Each page is aggregated from the rows as they are
*then*. A stamp is any date not taken yet, earlier or later than the others: refreshes run on several hosts whose clocks differ. A tie (two refreshes within one
microsecond) is left out; the `order_by` has no tie-break, so the database may then order the two rows differently on each page. An account may be a member
with `is_superuser` set, or an admin without a firm. A thread's firm is its client's: the code stores a copy in `EmailThread.firm` and `EmailSummary.firm`, which it
never changes, and rows whose copies disagree, as somebody with a database shell may make them, are left out.

### LogContext and the code

`ctx[t]` are the three context variables of an OS thread, `bag[t]` the OpenTelemetry baggage attached in it; `Record(t)` is what `ContextFilter`
writes onto a record made in `t` now. `packages` and `enabled` say whether OpenTelemetry can be imported and is set up in a process; with them in any
combination. `Begin`, `Respond` and `End` are `RequestIdMiddleware` (before the view, after it, its `finally`), with the Django instrumentation around it, which
`setup_telemetry` switches on (`telemetry.py:94`): it attaches the baggage that the request's own `baggage` header carries, and detaches it at the end.
`Attach` and `Detach` are `request_baggage`, which sets what the request has over what is there (`Overlay`); `Publish` is `apply_async`; `Start` and `Finish`
are a worker thread's task between `_on_prerun` and `_on_postrun` with the
baggage the Celery instrumentation takes from the headers. In the test settings (`eager`) the task runs inside the request, and the two signal handlers with it. The
stash of tokens is keyed by task id. `Restart` empties a process's memory. A client may send any `X-Request-ID`, also one in use, and any of `Headers` as baggage.

What a client's header can bring about follows, and the properties say so instead of excluding it. `RequestRecords`: a record made before the middleware knows the
user names whom the header names, and so does an anonymous request's; inside `request_baggage`, and in the last record, the header fills only what the user has
not got (a firm, for a user without one). `TaskRecords`: such a firm travels to the worker. The request's id is never affected, and nothing outlives the request (`CleanThreads`).

### Seeding and the code

A run is the list of items `handle` sees to, in its order (`Items`); `get_or_create`, `ThreadExists`, `CreateThread` are what it does with the next one, and
`Commit` or `Fail` the end of `transaction.atomic`. The names `fake.company()` gives are part of a run's options, as they are of the installed
Faker, whose version `requirements.txt:13` does not pin; they may repeat, in which case the dicts keyed by firm merge two of them. Clients are keyed by (firm index, number), as
their addresses are, and are looked up with their firm. The six accountants of a firm are one row, and a thread's messages are part of the thread's.

`Waits`, `Visible`, `Reading` and `Locked` are the two engines `DATABASE_URL` may name, from how the command uses them: a PostgreSQL transaction sees committed rows and its own, and
waits for a pending insert of the same unique key; SQLite lets one write at a time, and a transaction that read before it wrote fails with "database is locked".

### Variants

Operators marked `\* variant:` next to the definition they vary (e.g. `ReleaseLock_on_success`: no `finally`) are plausible
bugs of that code. No specification uses them. Putting one in the place of the original makes the property named with it
in `PROJECT.json` ("mutants") fail, which shows that the property depends on that code.

## 3. Runs

Run with `tlc -workers 2 -config <name>.cfg <module>`.

| run | module | shows | distinct states |
|---|---|---|---|
| `refresh_faults` | MCSummaryRefresh | 3 triggers of one thread, 2 messages, crashes, outages, locks that expire at any moment: `OneRefreshPerThread`, `OwnRefreshIsCurrent`, `NoRegression`, `IInv` (the invariant of the proofs, `TypeOK` included), `ImplementsSerialRefresh` | 1.8 M, 3 min |
| `refresh_progress` | MCSummaryRefresh | 2 threads, 2 triggers, crashes, failed publishes and loss of keys, queue and results: `PollHangsOnlyIfLost`, `KeysSelfClear`, `SkipJustified` | 292 k, 2.5 min |
| `refresh_fan_in` | MCSummaryRefresh | *violation*: three triggers, two waiting tasks | - |
| `read_faults` | MCSummaryRead | 2 readers, 2 unlocked writers, outages and crashes before the hook: `TypeOK`, `NoFalseAlarm`, `StaleEntriesExpire`, `OnlyOutdatedFillsGoStale` | 345 k, 1 min |
| `read_repopulate` | MCSummaryRead | *violation*: the old row is cached after the post-commit delete | - |
| `llm_call` | MCLLMClient | all outcomes of up to nine requests, all replies: `RaisedForAReason`, `JunkNeverFails`, `RequestBudget`, `CallEnds` | 10 k |
| `screen_thread` | ThreadScreen | 2 loads and 2 refreshes overlap on 2 threads: `TypeOK`, `OnePoll`, `PanelBelongsToThread`, `ButtonsComeBack` | 380 k, 1.5 min |
| `report_screen` | MCReportScreen | a firm's admin and a superuser share a browser, 2 calls overlap: `TypeOK`, `OnlyOutdatedRefreshesMix`, `TableMatchesChoice`, `CallsEnd` | 400 k, 1 min |
| `reports` | MCReports | 5 kinds of account, 2 firms, 3 clients, 5 threads, 3 stamps: `TypeOK`, `OneAnswerForAFirm`, `ReportsOpen`, `ReportsAgree`, `PagesAddUp` | 77 k |
| `log_context` | MCLogContext | 2 web and 2 worker threads, 2 ids, 2 tasks, a user with and one without a firm, clients with and without baggage, every combination of settings: `TypeOK`, `RequestRecords`, `TaskRecords`, `CleanThreads` | 734 k, 1.5 min |
| `log_worker_id` | MCLogContext | *violation*: a worker's records carry the task's id as `request_id` | - |
| `seeding` | MCSeeding | 7 series of up to 4 runs on 2 engines: `TypeOK`, `Complete`, `RerunAddsNothing`, `ThreadsStayInFirm`, `TwiceOnlyByOverlap`, `AloneSucceeds`, `EveryRunEnds` | 404 k, 1 min |

**Why the bounds are enough.** Every race of the refresh path is between at most three tasks: one at work,
one that replaces its in-flight key, one that finds that key or none; or, when locks expire, one that has outlived its lock, one that joined it, and one
that comes after both. Both TTLs are equal, as in the code. In `refresh_faults` they are 1: the clock may tick at any
moment, so a key is there until it is gone, and more ticks would only add waiting. In `refresh_progress` they are 2, so that a key is fresh, old and gone. Two messages tell "what my trigger saw",
"what the refresh read" and "what is there" apart; two threads are enough for a key mixed up between threads. `refresh_faults` leaves out failed publishes and lost keys:
the theorems have all faults, a lost lock exposes its holder as an expired one does, and `refresh_progress` runs both. In
`refresh_fan_in` the TTLs are 40, so that the counterexample is not one of expiry (which the README of the repository concedes as a
"TTL race") but of a key that `release_inflight` deletes between a trigger's failed claim and its look-up. The read path needs two readers (one fills while one hits) and two overlapping
writers. A mixture on the thread screen takes two threads, a load that overtakes another, and a refresh begun
before it; two refreshes let the end of one run into the next, and a cap of one wait lets a poll repeat and give up. `LLMClient` uses the settings' real numbers,
so its nine requests are all there. On the report screen two calls are enough for one to overtake the other, to refresh a session the other has ended, or
to sign in beside it; with two pages each pager button is enabled once. In `reports` one firm has a client with two threads and one with one, so counts of threads, clients and sums differ, the
fifth thread has no messages, two refreshes may overlap, pages hold one row, and the third refresh comes between two pages of a report of two rows. In `log_context` every thread serves a request or task, another, and the first again. `seeding` has a
series for each way two sizes can be related, one in which a firm's name repeats, one with other names, one with the same names in another order, one without clients; its fourth run is there to find what two
overlapping ones left.

**Deadlock** is checked in every run but `seeding`, whose series come to an end. Symmetry (ids of tasks and requests, messages, OS threads, threads of one client) is used in safety runs only.

**Fairness**, in the `FairSpec`s of `SummaryRefresh` and `SummaryRead`: weak fairness of each view's remaining steps, of each task's
next step, of each reader's answer, of each writer's commit-or-fail and of its hook, and of the clock. Web processes
and workers are ordinary processes that keep running, a worker takes tasks from the queue, and both the model call and database calls end
with an answer or an exception (`llm_call` checks the former, given that each request ends). Nobody has to post, no mail has to arrive, and no fault has to
happen or not happen. In `LLMClient` fairness is that of the whole call. In `ThreadScreen` and `ReportScreen`
a request is answered or fails and timers fire; nobody has to click. In `Seeding` a run that can take its next step takes it; nobody has to start one.

**Findings.** `refresh_fan_in`: "N concurrent triggers all poll the same task_id" (README.md:191) fails when a trigger
loses its claim and the key is deleted before it looks it up. It queues a task no key names; the next trigger claims the free slot and
queues another. (The lock then lets only one work; the other is skipped.) `read_repopulate`: the
post-commit delete does not keep a reader from filling the cache with a row it fetched earlier (README.md:184); the entry stays for at most
its TTL (`StaleEntriesExpire`), and nothing but such a fill, or a delete lost to a fault, can cause it (`OnlyOutdatedFillsGoStale`).
`log_worker_id`: worker records do not carry "the same identifiers as the request" (README.md:212): no task is published with a `request_id` header, `_on_prerun` puts the
task's id in its place, and the baggage is asked only for what is missing. User and firm are the request's, but for a firm that a client claims for a user without one (`TaskRecords`).

Seen while modelling, and without a run of their own:

* `is_stale` is cached with the payload, not computed "on read" (README.md:197): a hit repeats the flag of up to an hour ago.
* "Another refresh just completed" (README.md:192) is written to a line that `loadSummary` has just hidden (`app.js:281`, `377`).
* With the SDK's repeats inside tenacity's attempts one call is up to nine requests (`RequestBudget`), none of which has a deadline as a whole, and the lock lives 120 s
  (`cache.py:8`, "comfortably more than an LLM call"). After it, a second refresh of the thread may begin, the first may overwrite its newer row, and the first's `finally` frees a lock that is the second's.
* A task that is done answers PENDING again once Redis has lost its result, or after an hour (`PollHangsOnlyIfLost` excepts this): Celery does not tell an unknown id from a waiting one.
* With telemetry on, any client's `baggage` header names users and firms in log records (see LogContext above).
* A refresh of the session that fails late signs out whoever has signed in since, and one that succeeds late stores the old user's tokens (`OnlyOutdatedRefreshesMix` excepts this).
* The page goes by `me.role`, the API by the role or `is_superuser`; an account with the flag alone sees less than it may.
* Next has no guard such as Prev's: a double click beyond the last page shows a 404 in place of the table.
* The report of one's firm is empty for an admin or superuser who has none. `GET clients/{id}/threads/` of another firm's client is an empty list, not a 404.
* With `?until=`, a row may leave a report while its pages are read, and the row behind it is then missed. `until` means `T23:59:59Z`, so the last second's fraction is left out.
  A date that `parse_datetime` recognizes and finds out of range is a 500, as only `fromisoformat` is guarded (`reports/views.py:21`).
* `seed_data --clients-per-firm 0` divides by zero when it comes to threads (`seed_data.py:277`). Two runs at once on PostgreSQL may create a client twice, after which every
  run raises `MultipleObjectsReturned`. With a Faker that gives other names, accountants of the first run's firms write in the second run's threads. 25 accountants come with four firms, the README says 26.

## 4. Proofs

`SummaryRefresh_proofs` (check with `tlapm SummaryRefresh_proofs.tla`) proves, for any sets of threads, tasks and
messages and any TTLs:

| theorem | statement | assumes |
|---|---|---|
| `TypeCorrect` | `Spec => []TypeOK` | - |
| `Invariant` | `Spec => []IInv` | - |
| `MutualExclusion` | `Spec => []OneRefreshPerThread` | - |
| `LocksStayWithHolders` | `Spec => []LockGuards` | - |
| `RowsOnlyGrow` | `Spec => NoRegression` | - |
| `OwnRefreshCurrent` | `Spec => []OwnRefreshIsCurrent` | - |
| `LocksHeld` | `Spec => []LockHeld` | no outages |
| `SkipsJustified` | `Spec => SkipJustified` | no outages |
| `Refinement` | `Spec => ImplementsSerialRefresh` | - |

All faults are allowed, and a refresh may take any time. `LocksHeld` and `SkipsJustified` have a hypothesis on `Faults`: a delete that an outage swallows leaves
a lock with nobody behind it, and a skip then has no reason.

**The argument.** Mutual exclusion is not inductive: nothing in it says that a lock key exists while a task works. `LockGuards` adds that it does for every task that is not exposed. Whoever
then gets the lock of a thread finds either nobody at work there or an exposed task, which it joins; hence two tasks at work are both exposed. The hard case is the unconditional
delete of a `finally`: it may remove a successor's lock, but only if the two overlapped, and then `Join` has exposed the successor too. (The other two ways to lose a lock, clock and loss,
expose the holder at once.) `SnapshotCovers` says that
what a task read still covers the row unless it is exposed, since nobody else can have moved it meanwhile, which is what makes the upsert monotonic although it compares
nothing. `SummaryFromThread` closes the circle (a row's messages are among the thread's when the next task reads them), `QueuedOnce` says that an id
is queued once, and `ExposedStarted` that a task is not exposed before it starts. `IInv` is their conjunction with `TypeOK`; `refresh_faults` checks it by TLC first. For `OwnRefreshIsCurrent` a second invariant
relates the mail at POST time to what the task read. It has to cover exposed tasks as well: one that is still at work when an unexposed refresh commits would overwrite its row, and the invariant says
that there is none. The refinement maps each action to a step of `SerialRefresh` or a stutter, one lemma per kind of step.
`LockHeld` is inductive with `TypeOK` and `QueuedOnce`: a key is added by a task that is then at work, and such a task leaves that state only by deleting the key or by being lost. A skip finds a
key, hence its holder, and that is `SkipJustified`.

**`LogContext_proofs`**, for any threads, requests, tasks, users, firms and baggage headers, and without hypotheses:

| theorem | statement |
|---|---|
| `ContextInvariant` | `Spec => []LInv` |
| `ContextTypes` | `Spec => []TypeOK` |
| `RequestsLogAsThemselves` | `Spec => []RequestRecords` |
| `TasksLogForTheirTrigger` | `Spec => []TaskRecords` |
| `ThreadsAreCleaned` | `Spec => []CleanThreads` |

None of the three properties is inductive: that `_on_postrun` gives an eager request its id back depends on what the token of the task restores. `LInv` states
the context variables and the baggage of a thread as functions of its place in the code (`WebThreadOK`, `WorkerOK`), that a message carries its trigger's baggage, what the client claimed included (`MessageOK`), that the stash
holds, for each running task, the token of the thread that runs it (`TokenOK`, hence no task is run by two threads), and that a task not yet taken is in one place (`TaskInOnePlace`), so that a
second prerun never overwrites a token. One lemma per action; `Restart` keeps tokens and tasks together because a process takes both with it. TLC finds `LInv` true under the constants of `log_context`.

The other proofs are laid out alike: the inductive invariant first, one lemma per action, the theorems at the end.

**`SummaryRead_proofs`**, for any readers, writers, send times, TTL and faults, without hypotheses:

| theorem | statement |
|---|---|
| `ReadInvariant` | `Spec => []RInv` |
| `ReadTypes` | `Spec => []TypeOK` |
| `NoUserIsAlarmedFalsely` | `Spec => []NoFalseAlarm` |
| `CacheGoesStaleInTwoWays` | `Spec => OnlyOutdatedFillsGoStale` |

`NoFalseAlarm` is about an answer given; the flag in it was computed earlier, maybe for another request and from a row that has been replaced since. `RInv` says of every payload, the cached one
and those under way, that its flag is honest with respect to the row *in the payload* (`Honest`), and that mail only arrives. It also has to say that each set of send times has a maximum (`Maxima`), as `Max`
means nothing otherwise. The action property needs `BodyOfRow`, by which a fill caches what its reader fetched.

**`LLMClient_proofs`**, for any number of attempts and repeats, without hypotheses:

| theorem | statement |
|---|---|
| `CallInvariant` | `Spec => []CInv` |
| `NotGivenUpEarly` | `Spec => []RaisedForAReason` |
| `JunkIsDiscarded` | `Spec => []JunkNeverFails` |
| `RequestsAreBounded` | `Spec => []RequestBudget` |

`RequestBudget` bounds a product, and is inductive only with the count at every place in between: `CInv` says how many requests an attempt that is still going on has cost, and that those before it
have used their whole share, or, once a server error has ended the call, that it is a multiple of the share.

**`ThreadScreen_proofs`**, for any number of threads, overlapping clicks and polls, without hypotheses: `ScreenInvariant` (`Spec => []SInv`), `ScreenTypesHold` (`[]TypeOK`), `OnePollAtATime` (`[]OnePoll`) and
`PanelIsOfTheThread` (`[]PanelBelongsToThread`). What the panel will show depends on answers still under way: `NotOvertaken` says that a summary under way is of the thread shown unless rendering another marked it.

**`ReportScreen_proofs`**, for any users, roles, pages and calls, without hypotheses: `ReportScreenInvariant` (`Spec => []PInv`), `ReportScreenTypes` (`[]TypeOK`, above all that no page 0 is asked for), `TokensAreOfTheUser`
(`[]OnlyOutdatedRefreshesMix`) and `TableIsTheChosenOne` (`[]TableMatchesChoice`). `TokensOfOne` speaks of the user whose name is only being asked for (`GET me`) as well; `CurrentIsChosen` says that the one report
request nothing has overtaken is for what is chosen now and by the user signed in, so that its answer makes the table match.

**`Reports_proofs`**, for any firms, clients, finitely many threads, accounts, dates, bounds and page sizes:

| theorem | statement |
|---|---|
| `OneAnswer` | `Spec => []OneAnswerForAFirm` |
| `ReportsTypes` | `Spec => []TypeOK` (the keys shown are of the report's kind) |
| `ReportsNameWhatOpens` | `Spec => []ReportsOpen` |
| `PagesReachTheEnd` | `Spec => []PagesAddUp` |
| `ReportsSumUp` | `Spec => []ReportsAgree` |

`OneAnswer`: the account never changes, and for each account and firm the four pieces of code come to one condition. The rest needs to know what a sort returns: `SortedIsInPlace` shows, by counting, that under a total order on finitely
many rows each place has one row. Rows are totally ordered because no two summaries share a date (`DistinctStamps`: a stamp is committed at most once), and two groups share no summary. `PagesReachTheEnd` then needs that a commit moves
only the row it touches, and only towards the front if it sets the date forward: every other row keeps its place or falls back (`GrownPlace`, `UpsertMovesRowsBack`). `PagesInv` says that the rows up to the last one shown have been shown, or were touched;
the number of rows never falls, so the page linked is there when it is asked for.

`ReportsSumUp` is about sums that are folds in the order of `CHOOSE`, that is, recursive functions on finite sets. Two first-order facts stand in for induction: a non-empty set of subsets of a finite set has a smallest member
(`LeastSubset`), and removing an element leaves one less (`OneLess`). From these follow that the sum exists (`SumExists`), that it is the same in any order (`SumAdds`), and that the sum of the sums of disjoint parts is that of the whole
(`SumOfParts`). A firm's threads are parted by their clients (`ClientsPartTheFirm`): emails and summaries are then sums over parts, clients are counted by a bijection of rows and clients, and the latest refresh is the latest of the latest.

**`Seeding_proofs`**, for any scenarios, number of runs and either engine, without hypotheses:

| theorem | statement |
|---|---|
| `SeedingTypes` | `Spec => []TypeOK` |
| `CommittedRunsAreComplete` | `Spec => []Complete` |
| `RerunsAreHarmless` | `Spec => []RerunAddsNothing` |
| `TwinsAreOfOverlaps` | `Spec => []TwiceOnlyByOverlap` |
| `RunsAloneSucceed` | `Spec => []AloneSucceeds` |
| `ThreadsAreOfTheirFirm` | `Spec => []ThreadsStayInFirm` |

*Uniqueness and completeness.* Uniqueness has to be stated of the committed rows and those of all open transactions together (`Unique`), since a commit checks nothing. For completeness each run under way has a place in its items
(`AtItem`), with everything before it in sight; what is in sight stays so, because a skip is of a committed row or an own one, and neither is taken away while the run goes on.

*Reruns.* `ItemPlaces` computes the place of every firm, client and thread in the list of items, and `EachItem` shows that there are no others; both need division with remainder (`Division`, `Quotient`, `Numbered`). With the same names and no
larger sizes the items are among those of the earlier run (`CoveredItems`), which are all committed (`Complete`): every lookup finds a row, so nothing is inserted (`RerunFinds`).

*Overlaps.* That nothing fails and nothing is there twice without an overlap is not inductive by itself. `Apart` adds that rows in the database are of committed runs, that each row is an item of the run that made it (`RowsAreItems`), and that whoever has
a client pending has its firm in sight (`FirmsFirst`). A second row of a client can then only be inserted while another transaction has the first one pending; SQLite would have made it wait, and if either of the two were making the firm, the other
could not have seen it. `LateByOverlap` says the same of a thread that turns up between test and creation, and `FailedForReason` collects why a run may have failed.

*Threads.* The client of a thread is looked up by place, in dicts that merge firms of one name: `FirmAtIsOfName` (there is a firm at every place up to the number of names) and `LastIndexIsOfName` (the entry that survives has that name) show that
the thread's firm is its client's. Both come before the thread in the items, so they are in sight when it is made (`ThreadAfterRest`), and `ThreadsHaveRest` carries that through the commit.

TLC finds `Apart`, `CreatingThread` and `ThreadsHaveRest` true under the constants of `seeding`.

**Only model-checked**: liveness (`PollHangsOnlyIfLost`, `KeysSelfClear`, `StaleEntriesExpire`, `CallEnds`, `ButtonsComeBack`, `CallsEnd`, `EveryRunEnds`), which is out of the
prover's reach. Every safety property that a passing run checks is a theorem.

## 5. Not modelled, and why

* The payload's text, prompts, encryption, wording and layout: no modelled property depends on them. `@log_action` times a call and sets nothing.
* Seconds: the clock of `SummaryRefresh` and `SummaryRead` counts ticks, and no relation between a tick and the length of a request, a call or a poll is assumed.
* Two dates of a report that tie, and stored copies of a firm id that differ from the client's (see Reports above).
* Throttling: implemented by Django REST framework; to the page a 429 is one more failure.
* Issue, expiry, signature and rotation of tokens: the JWT library's. To the page a token may be refused at any time.
* The broker's redelivery: tasks are acknowledged early, so there is none (`Crash`).
* `refresh_summary` (the command) takes no lock: it is a writer of `SummaryRead` and of `Reports`, and not a task of `SummaryRefresh`. The theorems on rows
  are about the service without somebody running the command during a refresh.
* Search in the client list, the sample list, deletion of rows (no endpoint does), accounts that change firm or role during a session (only the admin's shell can).
* A 401 or logout in the middle of a handler of the thread screen: the session's own steps are in `ReportScreen`.
* The mock mail provider (nothing calls it), migrations, URLs, the load test: no behaviour of their own.

## 6. Plan

1. **Composition**: `SummaryRefresh` with `SummaryRead` over one row, so that the page's "refreshed, now load" sees its own refresh.
2. **Proofs**: for the composition, that it implements both components, and the safety property that the page's load after a refresh shows that refresh or a later one.
