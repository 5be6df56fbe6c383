# A TLA+ verification of the media metadata service

This directory models the service under `src/` in TLA+, checks the models with
TLC on small instances, and proves the most important of their properties with
TLAPS for all instances. Paths below are relative to `src/`; `adapters/…`,
`application/…` and the like are below `src/src/`.

The service answers lookups of movies and TV shows (`GET
/api/v1/media/{kind}/{identifierType}/{identifier}`) and searches
(`GET /api/v1/media/search`) from Redis where it can, and from TMDB or IMDb
where it must. Any number of API processes run over one Redis. Worker processes
refresh records in the background, from jobs that the API processes put into
BullMQ queues. Nothing but Redis is shared, and almost nothing is a
transaction: every guarantee has to come out of single Redis commands, issued in
some order by code that may stop between any two of them.

Contents: [1 the system](#1-the-system) · [2 the models](#2-the-models) ·
[3 the runs](#3-the-runs) · [4 fairness](#4-fairness) · [5 the proofs](#5-the-proofs) ·
[6 findings](#6-findings) · [7 what is not modelled](#7-what-is-not-modelled) ·
[8 plan](#8-plan)

## 1 The system

| Component | State | Operations | What makes it correct |
|---|---|---|---|
| **Media lookup service** `application/lookup/media-lookup-service.ts` | none of its own; one lease object per request | `execute`: authenticate, consume, read the store, acquire / wait / acquire, fetch, put, serve stale and enqueue a refresh, release | the lease is released on every path; a stale answer has its refresh; every request ends; one provider call at a time |
| **Lookup coordinator** `adapters/coordination/redis-lookup-coordinator.ts` | one Redis key per title: the holder's token, with an expiry | `tryAcquire` (SET NX EX), `waitForAvailability` (polls until a deadline), `release` (GET, DEL) | one holder; no holder loses a lease it has time left of; nobody waits for ever; a dead holder's lease goes |
| **Freshness** `application/lookup/media-lookup-helpers.ts`, `config/env.ts` | none | `computeFreshness`, the three predicates, the check of the TTLs in `loadConfig` | a record is fresh, then servable, then expired, without gap or overlap; Redis keeps it as long as it is servable |
| **Snapshot store: records and pointers** `adapters/redis-store/redis-media-snapshot-store.ts` | a record per mediaId; per identifier a hot and a canonical pointer, with different expiries | `getLookup`, `putSnapshot`, `promoteRecord`, `cleanupDerivedState` | what was stored is found by every identifier until it may no longer be served |
| **Snapshot store: search index** same file | a document per title, a set of mediaIds per token, all with expiries | `upsertSearchIndexItems`, `cleanupDerivedState` | a document is listed under its tokens and not outlived by its sets; what a crash leaves heals |
| **Search service** `application/search/media-search-service.ts`, `media-search-helpers.ts` | search snapshots per request fingerprint | `execute`: snapshot, local index, provider; index and keep the provider's page | answers are no older than the layers' lives add up to; the provider is asked again; a page is a page |
| **Rate limiter** `adapters/rate-limit/redis-rate-limiter.ts` | one counter with an expiry per principal and route | `consume` (SET NX EX, INCR, TTL, EXPIRE) | the limit holds per window; no counter stays for ever |
| **Refresh queue** `adapters/refresh/bullmq-refresh-queue.ts` | BullMQ jobs, with ids made of tenant, kind and mediaId | `enqueueRecordRefresh` (getJob, then add) | one job per record; refreshes do not stop for good |
| **Refresh worker** `application/refresh/media-refresh-service.ts`, `adapters/refresh/create-bullmq-refresh-worker.ts`, `bootstrap/create-worker-runtime.ts` | jobs in progress | `execute`: read, fetch, merge, put; retries with backoff | one attempt at a time per record; every job settles; a budget of provider calls |
| **Cleanup and warmup jobs** `application/refresh/cache-cleanup-service.ts`, `hot-record-warmup-service.ts` | none | a cleanup; a promotion or a put | they take nothing away that was promised |
| **Auth validation** `adapters/auth-http/http-auth-validation-adapter.ts` | cached contexts with an expiry | `validateToken`: GET, DEL of what cannot be parsed, fetch with a timer, SETEX | no context outlives its token; a revocation takes hold; every call ends |
| **Providers** `adapters/providers-composite`, `provider-tmdb`, `provider-imdb` | exchanges in progress, each with a timer | `lookupByIdentifier`, `search`: up to three exchanges, fallback, enrichment | a failure is not taken for an absence; a record keeps its source; a call ends in time |
| **Redis schemas** `adapters/redis-store/redis-schemas.ts` | none | parse what is read back | what is stored can be read back |
| **Process lifecycle** `main.ts`, `worker.ts`, `bootstrap/shutdown.ts`, `create-runtime.ts`, `create-worker-runtime.ts` | servers, connections, timers | signal, stages with a timeout each, exit | shutdown is bounded, closes nothing under running work, and says 0 only if all went well |
| **HTTP surface, readiness, metrics, logging, OpenAPI** | none between requests | – | – |

How they interact: `MediaLookupService.execute` calls the auth adapter, the rate
limiter, the store, the coordinator, the provider and the refresh queue, in this
order, and awaits each. `MediaSearchService.execute` calls the auth adapter, the
rate limiter, the store and the provider. `MediaRefreshService.execute` runs in
the worker, reads and writes the same store and calls the same provider without
the coordinator's lease. The store's `putSnapshot` and `promoteRecord` also write
the search index, so that lookups, refreshes and warmups all feed what searches
read.

What is hard to test here, line by line, is the list `hazards` of `PROJECT.json`.
It comes down to six kinds: commands of concurrent callers interleave between
the commands of one operation (coordinator, rate limiter, index, pointers, queue,
auth cache); keys expire between two commands; a process dies, is told to shut down,
or a command fails half way; a call made of several exchanges outlasts a wait, a
lease or a token; several layers with TTLs of their own hand data on to one another;
and two layers disagree about what a record is (its names, its schema).

## 2 The models

One tick is the unit of time of all modules. Dates are replaced by ages (theorem
`AgeAbstraction` shows that nothing is lost). Keys carry the ticks they have left.
A Redis command is a step; what lies between two awaits is part of the step before.

```
Freshness ──┬── MediaLookup ── LookupCoordinator ── (implements) Lease
            ├── MediaRefresh
            ├── SnapshotStore        Providers ── (implements) ProviderCall
            └── SearchService            └── MCRepeatedLookup
RateLimiter    SearchIndex    AuthCache    Shutdown
```

**Freshness** – `ComputeFreshness`, the predicates and the classification
`LookupState` as pure operators over instants; `StateAtAge` and `ServableFor` are
what the other modules use. `LoadConfigAccepts` is the check of `loadConfig`.

**LookupCoordinator** – one key. `Grant`/`Refuse` are the answers of SET NX EX,
`StartWait`/`EndWait` the polling loop (a poll that finds the key changes nothing
and is no step), `ReleaseRead`/`ReleaseDelete` the GET and the DEL, between which
ticks and other callers come in. `CommandFails` is a command that throws, executed
or not; `CallerCrashes` is the death of a process. `RedisPrompt` says whether Redis
answers within a tick. `StrayDelete` names the step in which a DEL removes the key of
somebody else, who was granted the lease since the GET.

**Lease** – what the coordinator promises: a lease that is nobody's or one caller's, taken
only when it is nobody's, and given up in the end. `LookupCoordinator!Mutex` is the
refinement mapping: the holders are the requests that have time left of what they were
granted and have not released it. `ImplementsLease` states the refinement.

**MediaLookup** – composes `execute` with the coordinator (by `EXTENDS`; each call is
one joint action), for one title and any number of requests. `pc` names the await a
request is in: `Admit` (auth and rate limit), `ReadCache`, `TryAcquire`,
`WaitForAvailability`, `ReadAgain`, `TryAgain`, `ProviderAnswers`, `PutSnapshot`,
`Fallback` (the catch block), `EnqueueRefresh`, `Release` (the finally block). The
paths that throw are `CallFails` (store, queue) and `CoordinatorFails`; a failing
release in the finally block replaces the answer, as in the code. The store is what it
holds under the name asked for: the age of a record, `Refused`, a record that
`cachedMediaRecordSchema` will not parse, or nothing. `PutLeaves` is what a put makes of
it: the record, a refused one, or nothing new, if the provider's record lacks the name
that was asked for (a movie found by an imdbId its details do not have). A read that meets
a refused record deletes it by a command of its own (`ReadRefused`, then `Miss`).
`OtherWriterPuts` is the refresh worker or a lookup by another identifier. The second
`tryAcquire` goes on to the fetch whatever it is answered, as line 152 does. A provider
call is one await of at most `ProviderTimeout` ticks, which is what ProviderCall promises.
`smooth` is a history variable: it is true until something has failed or died, a record
that was put could not be read back under the name asked for, a Redis command has taken
a tick (`RedisLate`), or a provider call as long as a wait or a lease (`ProviderLate`).

**RateLimiter** – the four commands of `consume`, each with the key gone or changed
since the one before. `MCRateLimiter` adds a history of the last window.

**SnapshotStore** – `putSnapshot`, `promoteRecord`, the pointers of
`cleanupDerivedState` and `getLookup`, command by command, for a title with two
records: `buildMediaId` hashes provider and identifier, so the IMDb fallback's record
has another mediaId than the TMDB record and shares the imdbId's pointers with it.
`BeginPutUnderOldId` is the put of a refresh (`mergeRefreshedRecord`) or of a warmup
whose record has expired (`mergeRecordIdentity`): by then TMDB knows the title, and the
record keeps the mediaId of the fallback but gets the tmdbId too; `names` are the
identifiers each record has at the time. What TMDB gives is stored unparsed and may be a
record that the schema refuses (`refused`); a lookup that reads one deletes it and the
pointer that led there (`EvictRecord`), leaving the other pointers to it dangling. Time may
pass between any two commands. `promised`, `sure` and `overtaken` are history: for how long
the last put of an identifier's canonical pointer has promised a record, the lookups that
must find it, and the lookups whose next DEL will hit a key that has been written since
they read it. Such a DEL takes the promise back, as a put of a refused record does.

**SearchIndex** – the upserts and cleanups of one title, command by command, under
changing titles; `OtherTitles` is what the upserts of others do to shared sets.

**SearchService** – `MediaSearchService.execute` above the index: `ReadSnapshot`,
`ReadMembers` and `ReadDocuments` (`searchLocalIndex`), `FromIndex` (the decision
of line 92), `ProviderAnswers`, the upsert of a page item by item (`Unlist`, `Write`,
`List`), `PutSearchSnapshot`. `IndexRecord` is any other service that indexes a record.
Documents carry the age of their data, snapshots and answers the ages of theirs. A
query is the set of titles that share a token with it; scores are a fixed order. The
removal from and addition to the sets of one title are one step each here, the single
commands are in SearchIndex.

**MediaRefresh** – the job of one record: `Ask`/`Add` (getJob, add), `Take`,
`ReadCurrent`, `ProviderAnswers`, `WriteRecord`/`WriteRest` (`putSnapshot`), `Complete`,
`AttemptFails`, `Crash`; BullMQ's part (`Retry`, `Remove`, stalled jobs) is external
and modelled from the options in `bootstrap/create-runtime.ts`: attempts, backoff,
`removeOnComplete.age`, ten times that for `removeOnFail.age`. BullMQ removes by age only
when another job of the queue ends, so `Remove` is a step that nothing obliges to happen.
`missing` is what `getJob` answers for an id it does not know, fixed at the start: null, with
which the code compares and the tests mock it, or undefined, which the BullMQ of the lock
file returns and which the code takes for a job. A record is its age.
`MCMediaRefresh` adds a history of the attempts of the last deduplication period.

**ProviderCall** – what lookups and refreshes suppose of a provider: a call begins, and
within a known time it is answered or has failed.

**Providers** – one call of the port, for each kind and each way of asking, exchange by
exchange: TMDB's `find`, `details`, `externalIds` (the last two side by side for a TV show)
and `search`, and IMDb's query, which comes after a miss (fallback) or a find
(enrichment). `Begin` sends the first exchanges; the `...Answer` actions choose what the
response holds and send the next one or return; `ExchangeFails` is a network error, an
abort, a bad status or a body the schema refuses; `LateExchangeSettles` is an exchange
whose call has thrown already. `composite` is the choice of `createMetadataProvider`.
Of a title it keeps its kind, its imdbId, whose rating it has and a description that
may be empty. `AsCall` is the refinement mapping to ProviderCall.

**MCRepeatedLookup** – Providers below a cache that never expires and whose schema is
that of `redis-schemas.ts`.

**AuthCache** – `validateToken` for one token and concurrent calls, await by await: GET, the
DEL of an unreadable context, the fetch (the service's verdict and its arrival are two
steps), SETEX with whole seconds. The token expires or is revoked at any moment.

**Shutdown** – API and worker process from the first signal to the exit. Every signal runs a
shutdown of its own (`Receive`), whose stages are races of the work with a timer: `Drain`
(server.close, worker.close), `CloseConnection` (queue events, queue, Redis), `CloseFails`,
`StageTimesOut`, `Exit`. Requests and jobs may hang; clients may hang up and leave their
handler running (`HangUp`), or keep their connection for a next request, which the server
serves even after `server.close` if the connection was busy then.

Operators whose comment begins with "A slip" are plausible mistakes of the code. No
specification uses them; put in the place of the operator they follow or precede, they
make TLC find the property violated that `PROJECT.json` names with them.

## 3 The runs

| Run | Instance | Checks |
|---|---|---|
| `MCLookupCoordinator` | 3 requests, 2 may fail or die, TTL 2, wait 2, prompt Redis | `LeaseHasOwner`, `ImplementsLease` (refinement), `WaitEnds`, `AbandonedLeaseExpires` |
| `MCMediaLookup` | 3 requests, all provider outcomes in up to 2 ticks, readable and refused records, 1 store or queue failure, 1 coordinator failure or crash, TTL 2, wait 2, prompt Redis | `ReleasedOnEveryPath`, `StaleServedIsRefreshed`, `SingleFlight`, `FollowersAreServed`, `EveryRequestEnds` |
| `MCRateLimiter` | 3 callers, limit 2, window 2, 1 abort | `WindowBudget`, `SlidingBudget`, `WindowReopens` |
| `MCSearchIndex` | 2 processes, 2 tokens, 2 wordings of a title, TTL 2, 1 crash | `DocumentIsListed`, `SetOutlivesDocument`, `IndexHeals` |
| `MCSnapshotStore` | 2 processes, 4 operations, 2 records, one of which may be refused, 2 identifiers, crashes without bound | types, `PromiseKept`, `LookupFindsPromised` |
| `MCMediaRefresh` | 3 lookups, 2 slots, 3 attempts, 2 crashes, failing adds without bound, deduplication 2, `getJob` with null or undefined | `OneAttempt`, `RefreshBudget`, `JobSettles`, `RefreshesGoOn` |
| `MCSearchService` | 2 processes, 2 titles, 1 page of both, index TTL 2, failing calls without bound | `AnswersAreRecent`, `ProviderIsAskedAgain` |
| `MCProviders` | every kind and way of asking, with and without IMDb; TMDB timeout 2, IMDb timeout 1 | `AnswersAreEarned`, `CallEndsInTime` (refinement), `OnlyRatingIsOverridden`, `ExchangesEnd` |
| `MCAuthCache` | 2 calls, 2 ticks a second, cache TTL 2 s, timeout 2 ticks, a token with up to 7 ticks left, 1 failing command | types, `NoHitAfterExpiry`, `RevocationTakesHold`, `CallsEnd` |
| `MCShutdown` | API or worker, 3 requests, with kept-alive connections, or jobs, 3 signals, 1 failing close, stages of 2 ticks | types, `ZeroIsGraceful`, `WorkHasItsConnections`, `OnlyTimeoutCutsOff`, `ShutdownEnds` |
| `MCFreshFallback` | 3 requests, lease 10, wait 1, provider timeout 10: the default settings with a tick of 500 ms; failing provider | `FreshIsServed` is violated |
| `MCRepeatedLookup` | one TV show, nothing expires | `ProviderIsHitOnce` is violated |

The type invariants of the other modules are proved (section 5), not run. So are
`OneHolder`, `HolderKeepsLease`, `ImmortalKeyIsRepaired` and `ImmortalSetIsRepaired`.
`StoreInv`, `FlightInv`, `ShutdownInv`, the invariants of AuthCache and both `LatelyInv` of
section 5 were checked with TLC on instances of the same size before they were proved.

**Why the bounds are enough.** Each hazard involves the interleaving of two operations
and at most one bystander: a holder, a waiter and a third who takes an expired lease; two
upserts; two pairs of getJob and add and the worker; a late verdict and a new call. The
instances have these actors and one more where time allows. TTLs of 1 to 3 ticks let
every key be renewed, half expired and expired relative to every other; larger ones
repeat those cases. AuthCache has two ticks to the second, so that rounding loses one,
and tokens that live longer than the cache TTL as well as shorter. One fault, or two
where a second adds something (a retry that fails, two dead holders), leaves every
intermediate state behind. Counters saturate where the code no longer tells values
apart (`Bump` in RateLimiter). Four operations of SnapshotStore are two puts, which may
be of the two records or of one, and two lookups or cleanups among them: a lookup that
reads, is overtaken and deletes, and another that looks for what was there. In
MCMediaLookup a provider call may take as long as the wait and the lease, so that all
disturbances of `smooth` occur except a late Redis, which `RedisPrompt` keeps out of the run
and not out of the proofs. `MaxLost`, `MaxFaults`, `MaxAborts`, `MaxCrashes`, `MaxOperations`,
`MaxLife`, `MaxCloseFaults` and the set `Signal` are bounds of the models; the proofs hold
for every value of theirs. Symmetry is used in runs without liveness only (`MCSnapshotStore`,
`MCFreshFallback`).

Some requirements hold under a proviso, which is then part of the instance or of the
property:

* `ImplementsLease` and `WaitEnds` are run with `RedisPrompt` (a GET and its DEL fall within
  the lease's time). Without it the lease is not exclusive; the theorems of section 5 do not
  suppose it, and say that a `StrayDelete` is the only reason.
* `SingleFlight` and `FollowersAreServed` say what it takes to break them: they hold while
  `smooth` does. The defaults (lease 5 s, wait 500 ms, TMDB timeout 5 s) and what TMDB
  sends do not guarantee that it does; see section 6.
* `PromiseKept` speaks of what the last put has promised, and names what takes it back: a
  put of the same record that the schema will refuse, and a DEL of a lookup whose key has
  been written after that lookup read it.
* `RefreshesGoOn` has three hypotheses: `getJob` answers null for an unknown id, adds do not
  fail for ever, and a job past its age is removed, that is, other jobs of the queue end.
* `DocumentIsListed` and `SetOutlivesDocument` speak of histories without crashes;
  `IndexHeals` covers those with. The first two also need `RedisPrompt`: the SADD and the
  EXPIRE of a set fall within one tick.
* `NoHitAfterExpiry` needs `RedisPrompt`: the SETEX is executed in the tick in which the
  TTL was computed.
* `WorkHasItsConnections` is about requests whose client is still there; a handler whose
  client has hung up is unknown to the server and may lose its connections.
* `ProviderIsAskedAgain` supposes that other services stop indexing titles of the query
  and that store calls stop failing. Without the first it is false: an index that
  looked-up titles keep filling answers for ever.

## 4 Fairness

Weak fairness on the steps of a begun operation: each awaits a Redis command (the
client is configured with `maxRetriesPerRequest: 1`, so it answers or throws) or a
provider call (aborted at its timeout by an `AbortController`). Beginning an operation
is never fair: nobody has to ask. BullMQ takes waiting jobs and promotes delayed ones; that
it removes ended ones is not supposed, because it does so only when another job ends.
`Tick` is strongly fair, because steps that take no time can
disable it over and over without disabling time. Crashes and faults are never fair.
`RefreshesGoOn` states what it needs beyond that as its premise: lookups that find the
record stale go on asking and adding, and other jobs end so that an aged one is removed.

What answers from outside is not supposed to: in Providers only `Tick`, the abort at the
end of a timer and the immediate answer to a mediaId are fair; in AuthCache only Redis
commands, the abort and `Tick`; in Shutdown only `Tick`, the end of a stage and the exit,
since timers fire while the event loop runs. So a provider, the auth service, a request
or a connection may hang for ever, and the calls and the process end nonetheless.
`MediaLookup` may therefore suppose that its provider call is answered in time: that is
`CallEndsInTime`, whose ProviderCall has weak fairness on the answer.

## 5 The proofs

All are proved with TLAPS for every value of the constants that satisfies the named
assumptions. **Every invariant and every action property that a passing run checks is
the statement of a theorem**; of the two refinements, the safety part is.

| Module | Theorems | Argument |
|---|---|---|
| `SnapshotStore_proofs` | `AgeAbstraction`, `StateByAge`, `RefreshDueBeforeStale`, `RecordOutlivesServing` (Freshness) | arithmetic from `ConfigAssumption`; the boundaries of the three states, and that `CANONICAL_RECORD_TTL_SECONDS` covers the servable time |
| | `StoreTypeCorrect` (`TypeOK`), `PromiseIsKept` (`PromiseKept`), `LookupMissesNothing` (`LookupFindsPromised`) | `StoreInv`, see below |
| `MediaLookup_proofs` | `LeaseAlwaysOwned` (`LeaseHasOwner`), `OnlyStrayDeletesBreakExclusion` (`OneHolder`, `HolderKeepsLease`), `LeaseImplemented` (the safety part of `ImplementsLease`) (LookupCoordinator) | `CoordInv` adds that the clock of a holder and the ttl of its key agree (`GrantMatchesKey`). The second and the third theorem speak of every behaviour up to its first `StrayDelete`, however slow Redis is: `ExclusionInv` adds `HolderKeepsLease`, which only such a DEL can disturb; with it, every other step of the coordinator is a step of Lease or changes no holder |
| | `TypeCorrect`, `LeaseReleased` (`ReleasedOnEveryPath`), `StaleIsRefreshed` (`StaleServedIsRefreshed`) | for the release, `LookupInv`: a request is "leased" only in the awaits of the try and in "release", "waiting" only in "wait", "deleting" only in "delete", so "done" is reached without a lease. For the refresh: an answer becomes stale only in the step that enqueues it (`StaleAfterEnqueue`) |
| | `OneFlight` (`SingleFlight`), `FollowersNeverFetch` (`FollowersAreServed`); under `RecordOutlivesWait` | `FlightInv`, see below |
| `RateLimiter_proofs` | `RateTypeCorrect`, `BudgetHolds` (`WindowBudget`), `ImmortalKeyRepaired` | `BudgetInv`: the calls a key has let through are at most its count while the count is within the limit, and a key that is absent has let none through |
| | `SlidingBudgetHolds` (`SlidingBudget`) | `LatelyInv`: a key with `ttl` ticks left has been there for `WindowSeconds - ttl`, and what those ticks have let through is its own; further back there is one other key at most |
| `SearchIndex_proofs` | `IndexTypeCorrect`, `ImmortalSetRepaired`, `IndexStaysConsistent` (`DocumentIsListed`, `SetOutlivesDocument`; under `RedisPrompt`), `SetsOutliveDocuments` | `DocumentIsListed` alone does not survive a tick, in which a set may expire before the document it lists; with `SetOutlivesDocument` it does, and the two carry each other through every other step |
| `MediaRefresh_proofs` | `RefreshTypeCorrect`, `RefreshedOnceAtATime` (`OneAttempt`) | `JobInv`: a slot is at work exactly if the job is active, and a job that has not failed has an attempt left |
| | `RefreshBudgetHolds` (`RefreshBudget`) | `LatelyInv`: all attempts of the period are those of the present job, namely the failed ones, the one under way or completed, and one per dead worker; since the job ended there has been none, so that there is none in the period once its id is free |
| `SearchService_proofs` | `SearchAnswersAreRecent` (`AnswersAreRecent`), `IndexNeverRefusesAPage` | the age and the remaining ttl of a document add up to at most `DocLimit`, of a snapshot to at most `SnapLimit`; a tick moves one unit from ttl to age. Processes carry ages that fit where they are going to be written |
| `Providers_proofs` | `ProviderTypeCorrect`, `AnswersEarned` (`AnswersAreEarned`), `RatingOnly` (`OnlyRatingIsOverridden`), `CallInTime` (the safety part of `CallEndsInTime`) | what is open and what has been found says where the call is: IMDb is asked when TMDB has answered with one record or with none; the ticks elapsed and the timers of the open exchanges stay within what the exchanges begun so far may take |
| `AuthAndShutdown_proofs` | `AuthTypeCorrect` (`TypeOK`), `CachedWithinExpiry` (`NoHitAfterExpiry`), `RevocationIsBounded` (`RevocationTakesHold`); the last two under `RedisPrompt` | `WithinExpiry`: neither what is stored nor what a SETEX is about to store outlives the token. `RevocationCatchesUp`: what a revoked token can still live on is an entry whose ttl shrinks as the time since the revocation grows, or a verdict that was on its way before it |
| | `ShutdownTypeCorrect` (`ShutdownTypeOK`), `ExitZeroIsGraceful` (`ZeroIsGraceful`), `ConnectionsOutliveWork` (`WorkHasItsConnections`), `WorkHasItsTime` (`OnlyTimeoutCutsOff`) | `ShutdownInv`, see below |

The third column names what each invariant has to be strengthened with; `LeaseHasOwner`
and the two `Immortal...IsRepaired` need the type invariant only. Four arguments are
longer than a line:

* **`StoreInv`** (the promise of a put). `PromiseKept` says that *some* pointer leads to a
  servable record, and is not inductive: the hot pointer may be all there is, and expire.
  `PromisesBacked` says that it is the canonical one, and that it and its record have as long
  as the promise. Against the lookups, which delete, it needs `ReadersInv`: a lookup that nobody
  has overtaken and that is about to delete has under its hands what carries no promise, a
  pointer to a record that is gone or a record that is refused; and one that is sure, with the
  canonical pointer read, has the record that keeps the promise. Puts keep both, because what
  they write under a reader's hands they mark as overtaken.
* **`FlightInv`** (one provider call). As long as the history is smooth, the request that flies owns
  the lease, whose ttl and the time of the call add up to the TTL (`HolderFlies`): it is never as
  long at the provider as the lease lasts, so that nobody else acquires; whoever holds the lease
  without flying has left a readable record in the store, and whoever looks finds it
  (`LandedWithRecord`); a waiter has either more time left than the flight may take, or a record
  that was stored within its wait (`WaitIsForHolder`), so it never times out over a miss.
* **`ShutdownInv`** (the end of the process). Each stage means that what came before it is done
  (`StagesInOrder`); a timer tells how long its stage has run (`TimersTell`); and the shutdown
  of the *first* signal bounds the time of all (`FirstSignalBounds`), the others having started
  later.
* The two **histories** keep totals, `lately[a]` being what has happened since `a` ticks ago, and
  not counts per tick: a statement about a sum of counts would take an induction over the
  length of the period.

The assumptions are those the modules declare: `SecondAssumption`, `ConfigAssumption` (what
`loadConfig` accepts), `CoordinatorAssumption`, `LookupAssumption`, `RateAssumption`,
`IndexAssumption`, `StoreAssumption`, `RefreshAssumption`, `SearchAssumption`,
`ProviderAssumption`, `AuthAssumption`, `ShutdownAssumption`: positive TTLs, timeouts and
limits, and null values that are not values. Hypotheses are stated by the theorems that
need them, and not by the modules, because the code does not guarantee them: `RedisPrompt` by
those on SearchIndex and AuthCache, that no tick passes within the operations named in
section 3; `RecordOutlivesWait` by the two on single flight, that a record can be served for
longer than a follower waits (the defaults have days against half a second); and by the two on
the lease, that no DEL has been a `StrayDelete`, which is what they are about. All hold of the
instances of the runs.

Only model-checked: all liveness (`WaitEnds`, `AbandonedLeaseExpires`, `EveryRequestEnds`,
`WindowReopens`, `IndexHeals`, `JobSettles`, `RefreshesGoOn`, `ProviderIsAskedAgain`,
`ExchangesEnd`, `CallsEnd`, `ShutdownEnds`), and with it the fairness parts of the
refinements `ImplementsLease` and `CallEndsInTime`: what a fair action has to do depends on
when it is `ENABLED`, which TLAPS cannot reason about. The type invariant of SearchService is neither run nor proved:
its sequences are built by `SelectSeq`, a recursive definition about which nothing can be
proved by induction here, and what the proofs need of it, that records have their fields
and ages are numbers, is part of `RecentInv`.

## 6 Findings

Each is a run whose property TLC finds violated; `PROJECT.json` quotes the sentence that
says otherwise.

1. `MCFreshFallback`: the catch block ignores a *fresh* record, which somebody else has
   stored while the provider call was failing, and rethrows
   (`media-lookup-service.ts:207`).
2. `MCRepeatedLookup`: what the TMDB schemas accept is refused by
   `cachedMediaRecordSchema` when it is read back, if it holds an empty string: in TLC's
   trace the imdb_id of the external ids; an empty overview does the same. A lookup of such a
   title calls the provider every time (`redis-schemas.ts:10`).

Seen while modelling, and kept in the models as the code has it, without a run of their
own:

* `enqueueValidatedJob` adds a job only if `getJob` answers null
  (`bullmq-refresh-queue.ts:67-70`). The queue of the tests answers null for an unknown id
  (`tests/adapters/bullmq-refresh-queue.test.ts:13`), BullMQ 5.56.1 (`package-lock.json:3554`)
  answers undefined. With it every enqueue reports `enqueued: false` and no refresh is ever
  begun: the behaviours of MediaRefresh with `missing = "undefined"`, which `RefreshesGoOn`
  excludes by its premise. A job that has ended also keeps its id past its age until
  another job ends the same way; with only failed jobs retained, and none failing, for ever.
* The GET and the DEL of `release` are not atomic; with a lease that expires in between,
  the DEL removes somebody else's. `RedisPrompt` keeps this out of the runs; without it
  `ImplementsLease` and `OneHolder` fail, and `OnlyStrayDeletesBreakExclusion` proves that
  nothing else makes them fail.
* Retrieval is not single-flight without proviso, as `.ai/04-architecture-overview.md:46` has
  it. Under the default settings a waiter gives up after 500 ms and fetches without a lease
  (`media-lookup-service.ts:152`) while the holder's call may take 5 s per exchange, as long as
  its lease; a call that takes three exchanges outlasts the lease as well. And if the record
  the holder stored is one the schema refuses, or lacks the name that was asked for, all
  followers miss together and fetch together, however fast the provider is. The definition of
  `smooth` lists what breaks it, and `OneFlight` proves the list complete.
* A lookup that meets a refused record deletes it and one of its pointers by their keys
  (`redis-media-snapshot-store.ts:347-350`). Its other pointers, canonical ones too, are left
  dangling until a lookup by them deletes those; and if a put has renewed the record between the
  read and the DEL, what is deleted is the new record. The DEL of a dangling pointer
  (lines 321-324) can likewise hit a pointer just renewed. `PromiseIsKept` proves that nothing
  else takes away what a put has stored.
* The cache is not read again after the lease has been granted, so a request that acquires
  right after the holder's release fetches again; after a fetch that failed every waiter
  fetches in turn.
* A failing `enqueueRecordRefresh` turns an available stale answer into an error (lines
  105, 208), a failing `release` replaces a good answer.
* An enrichment that fails hides the record TMDB has just given
  (`composite-metadata-provider.ts`); an IMDb payload that its schema refuses leaves as a
  `ZodError`, not as the 502 of `.ai/22-api-contracts.md:80`.
* A failing SETEX in `validateToken` refuses a token that the auth service has just
  accepted; a failing GET or DEL leaves as a raw Redis error.
* A second signal to the API makes its own shutdown fail, and the process exit with 1,
  although nothing went wrong; it never cuts off a request.
* Pages of a search are not deterministic (`.ai/31-acceptance-criteria.md:15`): the provider
  is not told the page size and its pages are returned uncut, while the index cuts what it
  happens to hold. `canServePageFromLocalIndex` never refuses a page of a non-empty index
  (theorem `IndexNeverRefusesAPage`), so a page past the few titles that lookups have
  indexed is answered empty and kept for `SEARCH_CACHE_TTL_SECONDS`; the index is shared by
  all languages.

## 7 What is not modelled

* The HTTP surface (`create-app.ts`, routes): a handler awaits one service call, maps errors
  to statuses and keeps no state. Readiness (two pings), metrics, logging and the OpenAPI
  document (574 lines of literals) likewise.
* Payload mapping beyond what Providers keeps: URLs, images, dates, genres, hashes.
* Corrupt payloads in the store: what Redis holds is what this service wrote, and every
  reader deletes what it cannot parse and treats it as absent; SnapshotStore, MediaLookup,
  MCRepeatedLookup and AuthCache model that for records and auth contexts. A pointer is what
  the service wrote and parses. Of the Redis schemas, those of search snapshots and documents, which refuse
  empty strings in the same way, are left out.
* Auth and rate limiting inside lookups and searches: one step that admits or refuses.
  The two adapters have modules of their own.
* Scores and tokens: a query's matches are a set, their order is given.
* The content of records beyond age and identifiers: what a merge does to fields other than
  identifiers is not visible in SnapshotStore and MediaRefresh.
* `toLocaleCode`, the content hash and the branding helpers of `media-lookup-helpers.ts`:
  pure and without properties that a model would tell apart.
* The early return of the refresh for records without a provider identifier
  (`media-refresh-service.ts:35`): every record the providers produce has one.
* BullMQ 5.56 itself is external. Its details that the code relies on, and the models with
  it: a custom job id may contain the separators the code uses; `add` with an existing
  id adds nothing; an old worker of a stalled job is really dead.
  Node's `server.close`, on which Shutdown relies, closes idle connections at once and calls
  every callback when the last connection has gone, with an error if the server was closed
  already.
* `enqueueExpiredCacheCleanup` and `enqueueHotRecordWarmup` have no callers; what the jobs
  would do to the store is in SnapshotStore and SearchIndex (`Cleanup`, `BeginPromote`,
  `BeginPut`, `BeginPutUnderOldId`, `BeginCleanup`).
* Of the configuration, everything but the TTLs and timeouts the models use.

## 8 Plan

Done, in this order: Freshness, LookupCoordinator, MediaLookup, RateLimiter,
SearchIndex, SnapshotStore, MediaRefresh, SearchService; then Lease, ProviderCall,
Providers, MCRepeatedLookup, AuthCache, Shutdown, and the merged records of
SnapshotStore; with the proofs above.

Next, most important first:

1. **An abstract store** – one map from identifiers to records that SnapshotStore implements
   for completed operations, and that MediaLookup's `cache` is a view of.
2. **MediaRefresh with contents** – records that carry the fetch they stem from, so that two
   lookups' puts that arrive in another order than their fetches can be told apart.
3. **The extent of a disturbance** – how many calls at once the default settings allow, and
   how much of a promise an overtaken DEL can lose, as theorems with the bound as a parameter.
4. **The half-written document** – the document a cleanup deletes under an upsert, and the
   answers a search gives meanwhile, with the queries and pages of more than one instance.

The number of runs is to stay what it is: a new question is put to a run that exists
where its instance can answer it.
