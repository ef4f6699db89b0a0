# Verification of the stock data gateway

TLA+ specifications of the gateway's concurrent core, TLC configurations that
model-check them on small instances, and TLAPS proofs of what matters most for
every instance. Paths below are relative to `stock_data_gateway/`.

## 1. The system

The gateway is one FastAPI process, kept alive by launchd, in front of market
data and news providers. It keeps everything it has fetched in one SQLite
database, which command-line tools (the nightly backfill, the cache
administration) open at the same time from processes of their own.

| Component | State | Operations | What is hard about it |
|---|---|---|---|
| Job manager, `jobs/daily_bars.py` | jobs by id in memory, tables `market_data_jobs` and `market_data_job_rows`, one thread per run | submit, retry, cancel, list, read rows; a worker's callbacks; reload at start-up | threads of superseded runs, cancellations, two transactions per result, crashes, a queue limit |
| Query service, `cache/service.py` | a lock per key | `query`, which fetches and stores what is missing | single flight, stale reads, fallback, offline mode, leaked leases |
| Cache store, `cache/sqlite_store.py` | current entries, versions, leases, audit | read, write, acquire and release a lease | shared by processes; each method is one transaction |
| Cache administration, `cache/admin.py` | none | statistics, `clear_cache` | deletes under the feet of fetches |
| Policies, `policies/` | none | a request's coverage keys | – |
| HTTP application, `main.py` | lazily created services, four fetch slots | the routes | waits with timeouts, a coroutine that blocks the event loop, unlocked creation |
| Tushare client, `providers/tushare/client.py` | the client, its window's start and counter | rate limit, retry with backoff | unlocked fields, sleeps inside lock, lease and slot |
| Sector memberships, `sector_memberships.py` | rows and "missing" markers | read, materialise the reverse index | two transactions, partial scans, abandoned threads |
| Fund data, `funds.py` | profiles, holdings by report date and provider | read, ask two providers in turn, replace | order of replacement, answers made of rows read long before |
| Source events, `source_events.py` | event ledger, source registry, fetch runs | read, ask sources in turn, deduplicate, write | an event moves to the request that wrote it last, three transactions per request |
| Other providers, `core/`, `domain/`, registries, `cli/` | none | translation, settings, tables, clients | – |

How they interact: a route takes a fetch slot and, inside it, makes one or more
queries of the query service or of a provider, or a request of one of the three
data services; a job's worker calls the query service once per symbol, without
a slot; the query service calls a provider under its lock and lease; the
Tushare provider waits for its limiter and retries. All services share the
database file, each through a connection, a lock and tables of its own, so that
the services behind the routes meet in the slots and nowhere else.

What makes each correct:

* jobs – a client never sees something taken back: not a result, not a row, not
  a cancellation, not a completion; every accepted job leaves the queue; the
  queue has a limit; rows appear once;
* cache – one provider call per key at a time, answers that are complete and as
  fresh as promised, current entries that never go back, no query that waits
  for ever;
* fetch slots – no slot is lost or given back twice, nobody works without one,
  and every request ends;
* limiter – retries are bounded, and the pace recovers from every race;
* sector, fund and event stores – what is stored and what is answered is a whole
  answer of one provider, a "missing" marker is never shown for something
  stored, what was known is not forgotten, and the ledger loses no event and no
  date on which one was first seen.

The hazards behind these properties are listed, at their lines, in
`PROJECT.json`.

## 2. Modules

| Module | Models |
|---|---|
| `DailyBarsJobs` | the job manager and its store |
| `JobLifecycle` | the life cycle a client of the manager is promised (abstract) |
| `MCDailyBarsJobs` | instances of `DailyBarsJobs`, the refinement mapping |
| `DailyBarsJobs_proofs` | theorems that hold with every fault |
| `DailyBarsJobs_saved_proofs` | theorems that need transactions not to raise; that the manager implements `JobLifecycle` |
| `ReadThroughCache` | the query service, the store's entries and leases, `clear_cache` |
| `CachePromise` | what the cache promises its callers (abstract) |
| `MCReadThroughCache` | instances of `ReadThroughCache`, the refinement mapping |
| `ReadThroughCache_proofs` | its theorems; that it implements `CachePromise` |
| `SectorMemberships` | the reverse index of sector memberships |
| `MCSectorMemberships` | instances of it |
| `SectorMemberships_proofs` | its theorems |
| `Requests` | what the services behind the routes share: clients, faults, transactions |
| `FetchSlots` | the semaphore of `main.py` and the event loop |
| `FundData`, `FundData_proofs` | the fund service, and its theorems |
| `SourceEvents`, `SourceEvents_proofs` | the event ledger, and its theorems |
| `Gateway` | the routes: slots composed with the services and with queries |
| `MCGateway` | an instance of it |
| `Gateway_proofs` | its theorems; that it implements the services it is composed of |
| `TushareClient`, `TushareClient_proofs` | the lazily built client, its limiter and its retries, and its theorems |

Operators named "Mutant of ..." are plausible mistakes in the operator that
follows them. No specification uses them; `PROJECT.json` says which property
notices each.

### DailyBarsJobs

`mem` and `rows` are the manager's dictionary, `disk` and `table` the two
tables, `worker` the thread of each run. A run is a job and its
`run_generation`: several threads of one job can be alive, since a cancelled
job may be retried while its old thread is inside a provider call. Every method
of the manager that touches a job holds one lock, so each is one action; the
gaps between `_run_job`'s calls are the values of a worker's `pc`.

| Action | Code |
|---|---|
| `CreateJob`, `RetryJob` (both through `Launch`) | `create_job`, `_reactivate_retry_locked` |
| `CancelJob` | `cancel_job` |
| `MarkRunning`, `TakeSnapshot` | `_mark_running`, `get_job` in `_run_job` |
| `SkipCompleted`, `CheckCancel`, `MarkCurrent` | the head of the loop |
| `RecordSuccess`, `RecordFailure` | the end of the loop, with `append_rows` and `save_job` |
| `Finish` | `_finish` |
| `Crash`, `TornCrash`, `Restart` | death of the process, between or inside critical sections; `__init__` and `_load_persisted_jobs` |

A symbol is its position in the request, a row the symbol it is for: properties
ask which symbol a row belongs to and how often, never what is in it. Failures
and failed symbols change together and are one set; the three cache-progress
counters are one sum. Batches only group symbols, and timestamps are left out.
A call that changes nothing (a full queue, a resubmission of a live job, a read)
is no action. `Restart` is one action although the reload saves job by job:
`Interrupted` is idempotent and nothing is served before the end, so a reload
that is cut short and begun again has the same result.

The constant `Faults` says what the environment does: `"crash"`, `"torn"` (a
crash between the two transactions of a recorded result) and `"store"` (a
transaction raises, on which memory and database part ways as they do in the
code).

`View(j)` and `RowsView(j)` are what a client sees of a job now or, while the
gateway is down, will see when it is back. Properties over steps are stated
with them, and so hold across crashes.

### ReadThroughCache

`entry` has the current entry of each key, `lease` the keys of the lease table,
`locked` the held locks of each service, `caller` the locals of the query each
thread runs; `clock` counts provider answers, and a payload is the number of
its answer, so properties can say "older". The values of `pc` are the points
between two store or provider calls.

| Action | Code |
|---|---|
| `Ask` | the call, with the keys of `build_requirements` |
| `ReadExisting` | line 87, one `get_current` per key; then the offline refusal |
| `UseExisting`, `Answer` | the loop's hit, and everything after the loop |
| `AwaitLock`, `Recheck`, `TakeLease`, `ReadAfterLease` | `_fetch_and_store` to line 220 |
| `Fetch`, `WriteEntry`, `Release` | the `try`, and its `finally` with the end of the lock's block |
| `StoreError`, `Crash`, `Clear` | a raising transaction, a dying process, `clear_cache` |

A provider is external: it answers, fails with a `GatewayError` or a
`ValueError`, or raises something else; the three leave the query in different
ways. Not in the model: queries with invalid parameters or without any key,
which touch nothing but the audit; the merging of a comma-separated query's
parts, each of which is a query; the nested calendar query of `cyq_chips`,
which is one before; and the content of versions, conflicts and audit rows.

`CachePromise` is the cache without services, locks, leases and the lookup
before a fetch: calls for a key do not overlap; an answer of a provider is
stored, over earlier ones only, or dropped; a query takes records that were
current at some time since it was asked, and is answered as a whole, refused or
lost. `MCReadThroughCache` maps the cache to it: a key is being called for while
some query is at `fetch` for it, an answer has arrived while one is at `write`
with it, and of a query its caller sees whether it is open, refused or answered,
and with which records (`SeenQuery`). Everything else a query does, its waits
for locks and leases among it, is a stutter.

### SectorMemberships

`rows` and `marked` are the two tables, for one trade date and the one supported
sector type; `request` has the locals of each request. Each read and each
transaction of the index holds its lock, so each is one action; so is each
provider call.

| Action | Code |
|---|---|
| `Ask` | the route's call of `memberships` |
| `ReadRows`, `ReadMarkers`, `ReadAgain` | the two reads before and after the scan, with the answers made of them |
| `ScanBoard`, `MissBoard`, `Expire` | the loop of `scan_sectors`: rows, an error, the deadline |
| `AskUniverse` | `_sector_universe` |
| `WriteRows`, `WriteMarkers`, `ReadError` | `_write_rows`, `_write_coverage_markers`, a raising transaction |

Which symbols are in which board is the constant `Members`; a board may answer
empty all the same. Boards have one name each, and the seeds are in the
universe. `broken` belongs to the properties: it records that a call failed
otherwise than by a timeout, or that a board answered empty. A call that times
out is abandoned and its thread's result dropped, so the thread changes nothing
and is not in the model. Of `limit_per_symbol` (`limit`) it matters whether it is
0, which the route accepts: then `_read_rows` finds no symbol. Any other limit
leaves rows of each symbol that has some. Unsupported sector types, which are
answered without a look at the tables, and the texts of reasons and warnings are
left out.

### FundData

For one fund. `profiles` and `holdings` hold, for every row of the two tables,
the number of the fetch it came with; `lookup` has the locals of each request.

| Action | Code |
|---|---|
| `AskFund`, `FundReturns` | the route's call of `profile` or `holdings`, and its return |
| `ReadFund`, `FundReadError` | `_read_profile`, `_read_holdings`, with the answer made of them unless forced |
| `FundAnswers`, `NextCandidate`, `GiveUp` | the calls of `_fetch_profile_rows` and `_fetch_holdings_rows`: Tushare under each code, then EastMoney |
| `FundDeadline` | `_run_with_timeout` once `deadline_at` has passed |
| `WriteFund` | `_write_profile`, `_write_holdings`: delete, insert, commit or raise |

A provider's answer is a report date and its stocks (`Reports`): older, newer or
corrected. The prefix and suffix variants of a fund code are `Candidates`. Of the
`limit` of holdings (`RowLimits`) it matters whether it is 0, which the route
accepts: then nothing stored is found, and what is fetched is written but not
answered (`Selected`). Which of the rows another limit leaves, and the conversion
of numbers and dates, which maps equal values to equal ones, are left out.

### SourceEvents

`events` is the table `source_events`, `registry` that of sources; `draft` is
the ledger as the one open write transaction sees it, `request` the locals of
each request. What identifies an event is given by `IdOf`, `UrlOf` and
`SourceOf`, so that an instance may have two items with one URL, or a URL that
is found under two queries; `DedupeKey` is what the code concatenates of these.
A key in `Keys` is a request: its route, query, limit and the sources it asks.
`limit` is an element of it because it is one of `request_key` in the code. It
may be 0: then a route of feeds asks no source, the rows of another route's
source are cut away, and the answer is empty and degraded.

| Action | Code |
|---|---|
| `AskEvents`, `EventsReturn` | a route's call of one of the seven public methods, and its return |
| `RegisterSeeds`, `ListRegistry` | `_write_official_source_registry`; `official_source_registry` |
| `ReadEvents`, `EventsReadError` | `_read_cached_events`, with the answer made of it |
| `SourceAnswers`, `SourceFails`, `EventsDeadline` | the loop over the sources of a route, or the one call |
| `BeginWrite`, `WriteRow`, `CommitWrite`, `RollBack` | `_write_source_events`, row by row, with `_find_existing_event` |
| `RecordRun` | `_write_fetch_run` |

`shown` and `rekeyed` belong to the properties: which events each request was
answered with last and still owns, and which dedupe keys known events have
changed to. Extraction, relevance labels, freshness and content versions
are functions of one row and left out.

### FetchSlots and Gateway

`FetchSlots` has the semaphore (`Acquire`, `Busy`, `Leave`: `_fetch_slot`) and
the dispatch of handlers (`Dispatch`). `POST /tushare` is `async` but blocks
(`tushare_facade`): while it waits for a slot or works, its thread is that of
the event loop, and `Dispatch` is disabled.

`Gateway` puts the handlers on top: `Arrive`, `TurnAway`, `CallFunds`,
`CallEvents`, `CollectMore` (the narrative route, several requests in one slot),
`CallQueries` and `Query` (routes that query a provider or the cache, once or
per symbol), `LeaveSlot`, and `RegistryRoute`, which takes no slot. Fund and
event steps are those of the modules, inside a slot. In each of its behaviours
the routes called are those of one service (`service`), for the services share
only the slots, and feeds and other event sources share no event since ids and
dedupe keys contain the source; this keeps the instance small and loses no
interleaving that two requests could notice.

### TushareClient

`client` is the field `TushareProvider._client`; `window` has the limiter's two
fields for each client that was built, since two first calls may build two.
Nothing is locked, so a thread may be interrupted between `LookAtWindow`,
`RollWindow`, `TestCount`, `WakeAfterFull`, `ReadCount` and `StoreCount`
(`_wait_for_rate_limit`). Two finer interruptions are left out: `LookAtWindow`
reads the clock and the window's start in one step, and `RollWindow` and
`WakeAfterFull` write both fields of the window in one. The other steps are `Fetch`, `BuildClient`, `CannotBuild`,
`UseClient` (`fetch`, `client`); `CallAnswers`, `CallFails`, `WakeAfterBackoff`
(`_call_tushare`). `Tick` lets time pass between any two; ages are counted up to
one window, which is all they are compared with.

## 3. Runs

| Run | Shows | Distinct states |
|---|---|---|
| `jobs_crash` | safety of jobs with crashes, torn ones included | 450,000 |
| `jobs_lifecycle` | liveness of threads, and that jobs implement `JobLifecycle`, its liveness included | 51,000 |
| `jobs_duplicate_rows` | finding: rows returned twice after a torn crash | – |
| `jobs_lost_rows` | finding: rows lost after a store error | – |
| `cache_one_service` | one service, with `clear_cache` | 110,000 |
| `cache_two_services` | two processes on one database, with crashes and store errors: they implement `CachePromise`, its liveness included | 197,000 |
| `cache_offline` | finding: a provider call in offline mode | – |
| `cache_stale_refresh` | finding: an old record reported as refreshed | – |
| `sector_requests` | two requests with every fault, some that want no rows | 278,000 |
| `sector_lost_membership` | finding: a failed scan answered as a success | – |
| `gateway_requests` | the routes of funds, events and queries behind the slots | 274,000 |
| `tushare_client` | two threads race on the limiter and retry | 146,000 |

**Bounds.** Two jobs are the fewest that compete for a queue of one. Two
symbols, one with rows and one without, are the fewest for which a run is
interrupted with something done and something left, and for every outcome of
`_finish`. Two generations are the fewest with a superseded worker beside the
current one; a third would add an older superseded worker, which has the same
guards. Liveness and refinement are checked with one symbol per job, where a
symbol can still be fetched by two runs at once. For the cache, two callers make
every race on a lock, an entry or a lease; two keys make partial and mixed
answers and fetches in sequence; three queries let a refresh follow a crash
that follows a miss. For the sectors, two requests interleave their scans, or
follow each other so that the second meets the first one's markers; one board
is a seed and one is only in the universe, with one symbol each, so that scans
stop early, stop half-way and run out. For the gateway, two threads share one
slot or have one each; a third request follows two that have overlapped. Two
report dates and two stocks give an older, a newer and a corrected report; of
the event sources two are feeds that are asked in turn, one is asked under two
queries for two items with one URL, and one is switched off or empty; limits of
one and two rows make answers that are cut, and limits of none are the boundary
that the routes accept, for funds and sectors beside one that cuts nothing. A
fund has two codes at Tushare: after the first has had no rows, a request goes on
as one with a single code does. For the limiter, a limit of one is
the fewest calls that wait, none switches it off, and a window of two ticks has
an inside; two attempts are the fewest with a retry. `MaxGeneration`,
`MaxQueries` and `MaxRequests` are bounds of the model and not of the code. Deadlock is not checked, because the systems may stop: all
jobs done, or all queries asked.

**Fairness.** A worker's next step is weakly fair: a thread is scheduled, and a
provider call returns or raises (clients have timeouts). `Restart` is weakly
fair because launchd has `KeepAlive`. A query's or a request's next step is
weakly fair as a worker's is; `_run_with_timeout` cuts off the calls of the
services, and the semaphore is waited for with a timeout. So `HandlerStep` needs
no more than weak fairness: a handler that waits can always be turned away.
`Tick` is weakly fair because time passes. Nothing is assumed of clients,
crashes, failures or the administrator.
Under these, jobs leave the queue (the fairness of `JobLifecycle`) and
`WorkersExit` holds, with crashes, which are bounded only by the number of runs
a job may have; the first needs transactions not to raise,
since an exception in `create_job`, `_mark_current_symbol`,
`_record_symbol_failure` or `_finish` leaves an active job without a thread.

**Faults and properties.** `SavedBeforeShown`, `OneResultPerSymbol`,
`CancellationSticks`, `FinishedIsFinal` and `CompletedRowsStored` do not hold
when a transaction raises: memory is changed before the database.
`SingleFlight`, `NeverBackwards` and `AnswerInWindow` do not hold when an
administrator clears the lease of a fetch under way in another process;
`LeaseIsHeld` and `RefreshIsFresh` do not hold when a process dies during a
fetch, which is the finding of `cache_stale_refresh`; nor does `RefreshIsFresh`
with two services, where a refresh that finds the other's lease returns the
record there is, stored before the call if it comes just before the release.
`KeepsPromise` needs the administrator to keep away as well, since an entry that
is deleted goes back; `LockIsHeld`, `QueriesAdvance` and `AnswerIsComplete` hold
with every fault, and so does `WorkersAdvance`. `NeverBackwards` and
`AnswerIsComplete` are theorems and not in a run, where `KeepsPromise` says as
much.
`MissIsReal` holds with timeouts and store errors (`TimeoutsLeaveNoMark`) but
not when a call fails, the finding of `sector_lost_membership`, nor when a board
answers empty, which the code takes for a fact; of requests that scan only the
seeds it is claimed for the seeds only, although their markers also answer wider
requests.

**What is not promised.** Some statements one might expect are not properties
of this code, nor does it or its documents claim them:

* One caller of the limiter makes at most twice `rate_limit_per_minute` calls in
  any window's length, because windows are fixed. Callers that race make more:
  a stale count is written back, every sleeper resets the window it wakes in,
  and two clients have two windows. In the instance, up to eight calls with a
  limit of one. So `PaceRestored` is about the time after a race.
* `CachedAnswerIsWhole` excepts events that another request has taken over; the
  narrative route changes its limit from page to page, and with it its key, so
  its pages do take each other's events.
* `NothingHidden` and `ScanIsAnswered` are about requests with a
  `limit_per_symbol` above 0. With 0, every symbol is in `missing_symbols`,
  stored or not, and a scan that has found them all still answers `ok`; nothing
  is taken from the cache but what has a marker. `FundNotForgotten` is, of
  holdings, about a `limit` above 0: with 0 the answer is always empty.
* `OneEventPerKey` excepts events whose key changed. `GDELT` and news ids do not
  contain the query while their dedupe keys do, so this happens.
* Cached events are served whatever their age, and an answer that was degraded
  when it was fetched is served from the cache as `ok`.
* With concurrent writers an event's `last_seen_at` may precede its
  `first_seen_at`.
* The slots bound handlers and not provider calls: a call that timed out goes on
  in its thread. Only some routes look at their deadline, between queries.

## 4. Findings

1. *Duplicate rows.* `_record_symbol_success` commits rows and job state in two
   transactions; a crash in between makes the retry append the rows again.
2. *Lost rows.* A symbol is completed in memory before its rows are stored. If
   storing them raises, the recorded failure saves the symbol as completed;
   after a restart its rows are gone and the retry skips it.
3. *Offline mode calls providers.* Only queries with missing records are
   refused; a forced refresh of cached ones is carried out.
4. *A lease is for ever.* After a crash during a fetch, a forced refresh of the
   key returns the old record as `external_refresh`, each time.

5. *A failed scan becomes an empty success.* If a board or the universe cannot
   be read and another board has rows, the symbols not seen are marked missing;
   the next request is answered from the marker, with status ok.

The documents these disagree with are quoted in `PROJECT.json`.

## 5. Proofs

The theorems hold for any finite set of jobs, any numbers of symbols, runs,
callers, services, keys, queries, boards, reports, events, clients, slots and
threads, any limit and any length of the limiter's window,
under the assumptions the modules state of their constants: `JobConstants`,
`CacheConstants`, `SectorConstants`, `RequestConstants`, `FundConstants`,
`EventConstants`, `SlotConstants`, `GatewayConstants` and `TushareConstants`. TLC
evaluates each of them in a run.

*Jobs, with every fault.* `IInv` of `DailyBarsJobs` is inductive; from it
follow `TypeOK`, `ActiveJobsBounded` and `OutcomeIsHonest`. The last is not
inductive as it stands: that `_finish` finds every symbol dealt with depends on
what the worker has passed. `OwnerOK` says it: all symbols before the worker's
position are completed or failed, none from it on has failed, and those from it
on are completed exactly if the worker's snapshot says so, which holds although
the snapshot is not checked against the generation. `StateOK` holds of memory
and disk alike, so that it survives `Restart`.

*Jobs, as long as no transaction raises* (`Reliable`). `CleanInv` adds that
memory and disk agree. From it follow `SavedBeforeShown` and
`OneResultPerSymbol`, and, step by step, the action properties
`CancellationSticks` and `FinishedIsFinal`, crashes included.
`ActiveJobHasWorker` is inductive beside it: a worker leaves a job only when the
job is another run's, or no longer active. `Growth` sums up what a step can do
to the tables of a job: nothing, a new symbol with its rows, or the rows alone
if the process dies between the two transactions. `CompletedRowsStored` and
`ProgressKept` follow, and `NoDuplicateRows` as long as no result is torn.

*Job life cycle*, under the same assumption. `ImplementsJobLifecycle` maps every
step of the manager to a step of `JobLifecycle` or a stutter. `OwnerOK` is what
it needs: a symbol that gets its result, or fails, had neither, and a run that
finishes has dealt with all. A crash is `WithdrawAll` although it writes
nothing, since a client will see every active job interrupted.

*Workers advance*, with every fault. `StepsToExit` counts the steps a worker can
still take, and each of its steps makes it smaller (`WorkerAdvances`), also for a
worker of a superseded run, of which `OwnerOK` says nothing: `Placed` keeps its
position within the request. That nobody else moves a worker needs `IInv`: the
generation a run is launched with is later than that of every live worker of
its job, so no thread is lost. It is the safety half of `WorkersExit`.

*Cache.* `TypeOK` is proved with every fault. Without `"clear"`, `IInv` is
inductive: `FlightOK`, whoever fetches a key holds its lease and nobody else
does; and `VersionsOK`, every record of a query lies between the entry at the
call and the current one, and what is about to be written is later than the
current entry. The second needs the first: it is the lease that keeps an answer
from being overtaken. `SingleFlight`, `AnswerInWindow` and `NeverBackwards`
follow. `AnswerIsComplete` holds with every fault; `Complete` says which records
a query holds at each of its steps. `LeaseIsHeld` and `RefreshIsFresh` need that
no process dies and no transaction raises; they stand an administrator who
clears the cache. `RefreshIsFresh` is proved for one service: there, whoever
holds the lock of a key (`Locked`) finds its lease free, so a forced refresh
does not fall back on an older record. `Locked` holds with every fault, and
gives `SingleFlight` back for one service when an administrator deletes leases
(`OneFetchPerService`). `LockIsHeld` is its converse: each lock that is held is
held by a query inside its block. Such a query waits for no other lock, so
there is no circle of waiting, and none waits for a lock left behind.
`QueriesAdvance` adds that a query goes round no circle of its own: `StepsLeft`
counts at most nine steps for each key that was asked for and three more, each
step of the query makes it smaller, and no step of another's makes it larger
(`QueriesGoForward`). The set of keys is assumed finite, since a count of an
infinite set is none. These two are the safety half of `QueriesEnd`; that steps
which can be taken are taken is the half that stays with TLC.

*The promise of the cache.* `ImplementsPromise` maps every step of the cache,
crashes and failing transactions included, to a step of `CachePromise` or a
stutter, without `"clear"`. `PromiseInv` is what it takes: `IInv`, `Complete`,
and that a query deals only with what it was asked for. That calls do not
overlap is `FlightOK`; that an answer is stored over earlier ones only, and that
each record taken is one that was current since the call, is `VersionsOK`; that
the record of a finished fetch is the current one is its clause for `release`,
which holds because the lease keeps others from storing until then; that an
answer is whole is `Complete`. There is one lemma per action.

*Sectors.* `SectorInv` is inductive with every fault. `RequestOK` says what a
request knows of the table of rows: rows are never deleted, so what it read or
found stays, and what it answers as missing it has looked up after its scan,
unless its limit is 0. `NothingHidden` and `ScanIsAnswered`, of the other
requests, follow. `ScanOK` speaks of scans cut off by
timeouts, as long as no call failed otherwise (`broken`): a request has seen
every member of the boards it has passed. From it follows
`TimeoutsLeaveNoMark`.

*Funds.* `FundInv`, with every fault: a stored report, the rows a request has
read and those it answers are each of one fetch; what was known at the call can
still be read; and a request that has yet to ask a provider still has the rows it
may need to fall back on, if it wants any (`WantsRows`). `ReportIsWhole`, `FundNotForgotten` and `HoldingsNeverBack`
follow.

*Source events.* `EventsInv`, with every fault: who holds the lock, and that
`draft` differs from `events` only as rows of the open transaction may change it
– known events stay known with their dates, and a dedupe key has one event
unless it is in `rekeyed`. `FirstSeenKept`, `OneEventPerKey` and
`SourcesRegistered` follow; the last needs that a request for feeds has
registered the seeds before it writes.

*Repeated answers.* `CachedAnswerIsWhole` compares two numbers of events: what a
cached read returns, the newest rows of a request up to its limit, and what is
left of the request's last answer. `WholeInv` is inductive beside `EventsInv`:
what is left of an answer is stored under its key and there is room for it in
an answer (`ShownIn`); a writer has changed the events of its own answer only,
and owns them (`WholeWrite`); and until a request is answered it has room for
the rows it still has to write, each of which becomes at most one event
(`WholeRequest`), so that what it stores last stays within the limit. The step
from these to the property is about ranks: of a finite ordered set of events,
those with fewer than `limit` before them are all of it, or no fewer than `limit`
(`FirstOnes`: of the others take one with the fewest before it; all before it
are among the first).

*Gateway.* `SlotsInv` counts: the free slots and the handlers inside add up.
`SlotsBound` and `GatewayTypeOK` follow. `GatewayImplementsFunds` and
`GatewayImplementsEvents` show that each step of the gateway is a step, or a
stutter, of the service's own specification; hence what is proved of the
services holds behind the routes (`FundsBehindSlots`, `EventsBehindSlots`).

*Limiter.* `PaceInv` is inductive for every limit, window and number of threads
and retries. `ClientInv` has the types, and that a thread uses a client that was
built. `CalmInv` speaks of the time since calls last overlapped: then one call at
most is under way, the window's count is no less than the calls sent since the
window began, and with those before it there are at most the limit more
(`Covers`). Neither half suffices alone: whatever count a race has left behind,
a calm thread begins a new window only when the old one is over, or has slept
until it is (`StepOK`), and what was sent before that has been counted in the old
one. Nothing is known of a window before calls have stopped overlapping, so
`Covers` looks back for that time only; once it is a whole window, `PaceRestored`
follows. `sent` is cumulative, so that this needs no sum. `BackoffIsTime`, beside
`TushareConstants`, says that a sleep between attempts is a number of ticks: the
prover knows no powers. `TypeOK`, which bounds the attempts of a call, is proved
with it.

*Only model-checked:* liveness, that of `JobLifecycle` and `CachePromise`
included, which the prover does not cover. Every invariant and every action
property of a run that passes is the subject of a theorem; those that need a
kind of fault to be absent name it, and the runs show the smallest instances.

## 6. What is left

* The lazily created services and job manager (`main.py`): two first requests
  may create two, each with its own locks. For the query service this is the two
  services of `cache_two_services`; for the job manager it is not modelled.
* The `ttl` of empty cache entries, which the code stores but does not read.
* Variants, as `StepsLeft` is one for queries and `StepsToExit` for workers, for
  requests and calls of the limiter. What follows from a variant under fairness cannot be
  proved here.
* Abstract specifications of the sector index and of the event ledger, which now
  are held to invariants.
* The job routes, which only call the manager.

## 7. Not modelled

Provider adapters and the clients of EastMoney, AkShare, GDELT, SEC and the rest
(stateless translations of HTTP answers: a provider is an answer or a failure in
the modules that call it), parsing and formatting, capability and governance
tables, settings, redaction, value types, acceptance scripts, statistics, and
the threads of calls that timed out, whose results are dropped.
