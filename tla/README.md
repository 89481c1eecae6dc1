# DashCache: a TLA+ verification development

DialCache (the library in `src/` of this repository) is a read-through cache
for Node.js. A *cached function* is served through four layers

    request-local memo -> process-local LRU -> Redis -> the function itself (the loader, or fallback)

inside an `enable()` scope only. Concurrent calls of one key share a flight, a
loader may have a deadline, tracked Redis entries can be invalidated remotely
through a *watermark*, and every failure of a cache layer must leave the call to
its loader. The modules here state what the code promises about that, check it
with TLC on small instances, and prove all of it but liveness with TLAPS for every
value of the constants.

File names and line numbers below are relative to the repository's `src/`
directory (`dialcache.ts` is `src/dialcache.ts`).

## The system

| part | state it keeps | operations | what makes it correct |
| --- | --- | --- | --- |
| Redis scripts, `internal/redis-scripts.ts` | value keys (frames with a creation time and an expiry), one watermark key per (keyType, id) | read, tracked read, write, tracked write, invalidate; each atomic at one reading of Redis TIME | a tracked value is readable only if created after every invalidation's window; the watermark outlives the values it guards; a malformed one fails closed |
| Redis layer and client contract, `internal/redis-cache.ts`, `redis-client.ts`, the adapters `node-redis.ts`, `valkey-glide.ts` | the watermark TTL floor; script handles and a counter of invocations (GLIDE) | get, put, invalidate; invoke, dispose | failures surface as such; a timed-out write may still execute; tracked reads go to the primary; no released handle is used |
| Instance, `dialcache.ts` | `processFlights`, `activeProcessFollowers`, the local cache, registered use cases | `cached`, `getOrLoad`, `invalidateRemote`, `getCoalescingState` | caching never decides whether a call succeeds; one chain per key; no stale or refused value stays in the local cache; exact coalescing state; every call settles |
| Fallback deadline, `dialcache.ts:825-910` | start time, timer, settled flag | race of the loader and a timer | never early, never late, one answer, no timer left behind |
| Request scope, `context.ts` | AsyncLocalStorage stores, request holders with a memo | `enable`, `disable`, memo read/set/close | enabled exactly while the request runs; one memo per request; detached work is pass-through |
| Process-local cache, `internal/local-cache.ts` | one LRU with a TTL per entry | get, put | bounded; expires at the boundary |
| Runtime config, `internal/runtime-config.ts`, `config.ts` | none of its own; provider and sampler are the application's | fetch and merge, resolve a layer, ramp sampling | one policy per call; the kill switch; rollouts only grow |
| Keys, `key.ts`; use cases, `dialcache.ts:656-668` | the registered use cases of an instance | URN, hash tag, watermark key; registration | different identities never collide; a name is taken exactly when its function exists |
| Metrics, `metrics.ts`, `prometheus.ts`, `datadog.ts` | collectors of a registry (Prometheus) | construction; one method per sample | cannot affect the cache; every call counted once, no sample lost; construction all or nothing |
| Serializers, logger | none the cache depends on | conversion, messages | cannot affect the cache |

How they interact: a call's async context (scope) decides whether it is served
at all; then it awaits the config provider, may enter a request-local flight,
awaits the local layer's resolution, joins or leads a process flight, awaits the
remote layer's resolution, Redis, the loader and Redis again, and publishes into
the local cache and the memo. Between any two awaits other calls, timers, the
end of the request, invalidations from anywhere and Redis expiry may run. The
hard behaviours are these interleavings, clocks (Redis's, the local one, Node's
timers against `performance.now`), ambiguous or delayed Redis commands, and
failover to a primary with another clock. `PROJECT.json` lists each hazard at
its line with the properties that cover it.

## Modules

| module | models | run | proofs |
| --- | --- | --- | --- |
| `RedisScripts` | the five Lua scripts as functions | | |
| `FencedStore` | abstract: what the scripts promise | | |
| `WatermarkStore` | all interleavings of the scripts on one hash slot; implements `FencedStore` | `WatermarkStore` | `WatermarkStoreProofs` |
| `TrackedInvalidation` | invalidation end to end: source of truth, slow fallbacks, failover | `TrackedInvalidation` | `InvalidationProofs` |
| `InstanceCaches` | the local caches of several instances, and a replica, around that slot | `InstanceCaches` | `InvalidationProofs` |
| `ReadThrough`, `MCReadThrough` | one instance serving concurrent calls; its Redis is `FencedStore` | `ReadThrough` | `ReadThroughProofs` |
| `ReadThroughMetrics` | `ReadThrough` with the samples each step reports | `ReadThroughMetrics` | `ReadThroughProofs` |
| `Deadline` | abstract: what a fallback timeout promises | | |
| `FallbackDeadline` | `withFallbackTimeout`; implements `Deadline` | `FallbackDeadline` | `RequestProofs` |
| `RequestScope`, `MCRequestScope` | `DialCacheContext` and `RequestLocalCache` | `RequestScope` | `RequestProofs` |
| `RuntimeConfig`, `MCRuntimeConfig` | defaults, overlays, ramps, samplers | `RuntimeConfig` | `RuntimeConfigProofs` |
| `LocalLru` | the process-local cache with its clock | `LocalLru` | `LocalLruProofs` |
| `CacheIdentity`, `MCCacheIdentity` | keys, watermark keys, registration of use cases | `CacheIdentity` | `CacheIdentityProofs` |
| `GlideAdapter` | the GLIDE adapter's script handles | `GlideAdapter` | `AdapterProofs` |
| `PrometheusCollectors` | the Prometheus adapter on a shared registry | `PrometheusCollectors` | `AdapterProofs` |

Composition: `WatermarkStore` and `TrackedInvalidation` are built from the same
script functions. `ReadThrough` takes its Redis from `FencedStore` (an `INSTANCE`
whose effects are conjuncts of its own actions), so what `WatermarkStore` is
shown to implement is what `ReadThrough` relies on. `ReadThrough` uses the
request scope as an open or closed set of scopes and the deadline as the outcome
`timedOut`; `RequestScope` and `FallbackDeadline` model how those come about.
The outcomes of layer resolution, which `RuntimeConfig` computes, are choices in
`ReadThrough`, and its local cache may lose an entry at any time; `LocalLru` says
when the code does. `InstanceCaches` extends `TrackedInvalidation`, and
`ReadThroughMetrics` extends `ReadThrough`: their steps are steps of the module
they extend with what they add.

Some definitions come in pairs, the second marked `faulty variant`: a plausible
bug in the code the definition models. No specification uses a variant; each is
there to show, by putting it in the place of its original, that the property it
is paired with in `PROJECT.json` fails.

### RedisScripts, FencedStore, WatermarkStore

`RedisScripts` translates the Lua: `TrackedReadable` is the condition of
`READ_TRACKED_CACHE_SCRIPT`, `TrackedWriteReply` the refusals of
`WRITE_TRACKED_CACHE_SCRIPT`, `NewFrame` its SET, `WatermarkAfterWrite` and
`WatermarkAfterInvalidate` what the two scripts leave in the watermark key,
deadlines included (PTTL -1 is `Persistent`, PEXPIRE only extends). A frame's
payload is opaque; its version byte and encoding are left out. Watermarks are
integers or `Malformed`: a fractional watermark, which no script writes, is not
distinguished.

`WatermarkStore` runs them on one slot with value keys of tracked and untracked
use cases. `now` is Redis TIME. `Tick` moves it and deletes what has expired;
`Persist` and `Corrupt` are what an operator or a foreign writer may do to the
watermark, for which the scripts have branches. `Corrupt` takes the future buffer
of earlier invalidations with it, but what they have hidden so far has to stay
hidden through the corruption and its repair. The variable `fence` remembers
the furthest time an invalidation has reached. Checked:

- `GuardOutlivesValues`: a live tracked value has a watermark that lives at least
  as long. Otherwise the next tracked write would recreate the watermark as 0 and
  reveal a value that had been invalidated.
- `Fenced`: a readable tracked value was created after `fence`.
- `AcceptedOutsideFence`: a tracked write is accepted only past `fence`.
- `ImplementsFencedStore`: the slot refines `FencedStore`, where a hidden value
  never comes back, a block ends only with time, and replies agree with content.

Bounds: two tracked keys and one untracked, margin 1 ms, TTLs 1 and 3, floor 2,
buffers 0 and 2, clock to 6. A TTL above the floor and one below, a buffer
longer than the margin, and time for a value to be written, hidden, outlived and
rewritten are all in there; more payloads would only rename. The proofs do not
depend on these bounds.

### TrackedInvalidation

The claim behind `invalidateRemote`'s documentation (`dialcache.ts:366-395`): if
the buffer covers clock skew, the lag with which the source shows a commit, and
the time a fallback's value takes to reach Redis, then after the invalidation no
tracked read is a hit on an older version (`NoStaleHit`) and Redis accepts no
older version (`NoStaleAcceptance`, on which filling the local cache depends).
`Mutate` commits versions, `ReadSource` may see any version the lag allows,
`Publish` is the tracked write of such a value, `Failover` changes the clock
offset, so TIME can go back by up to `Skew`, and expired keys are deleted at any
later time (`ExpireValue`, `ExpireWatermark`): with a slower clock an expired
value that is still stored is alive again, and only the watermark TTL's margin
keeps its watermark alive with it. The assumptions, in `TimingAssumption`, are
the documented ones plus that the skew is within the margin (60 s in the code).
Replication is assumed to lose nothing.

Bounds: two keys, one fallback at a time, offsets 0 and 1, skew = lag = work = 1,
buffer 3 (the smallest allowed), TTLs 1 and 5, floor 1, one mutation, time to 7.
Deadlock is checked: a failover is always possible.

### ReadThrough

Each action is what JavaScript runs between two awaits, whole. A call has a
program counter `pc`, `req` (key and scope), `plan` (what its chain has learned:
local consulted, remote missed, failed or off), `got` (a Redis answer on its way)
and `res`. Shared state: `flight` (`processFlights` with follower counts),
`active` (`activeProcessFollowers`), `local`, `memo` and `memoFlight` per scope,
and the store (`content`, `blocked`).

| code | actions |
| --- | --- |
| `executeCacheOperation` | `Invoke`, `Bypass`, `SkipMemo`, `RawSettled` |
| `getThroughRequestLocal`, `singleFlightRequestLocal` | `EnterMemo`, `Memoize`, `ClearMemoFlight`, `ResumeMemo` |
| `getThroughSharedLayers`, `getThroughActiveLocal`, `singleFlightProcess` | `LocalOn`, `LocalOff`, `RemoteOn`, `RemoteOff`, `ClearFlight`, `ResumeShared` |
| `RedisCache.getWithResolvedConfig` | `ReadExecuted`, then `ReadHit` or `ReadMissed` |
| `finishLocalOnly`, `finishRedisChain`, `callFallback` | `Resolved`, `LoadFailed`, `Written` |
| `RedisCache.put` | `WriteExecuted`, `WriteFailed`, and `LateWrite` for a command whose client gave up |
| `runOutermost` | `CloseScope` |
| `invalidateRemote`, elsewhere or here | `InvalidateRemote` |
| LRU eviction, local TTL | `DropLocal` |

Reading or writing Redis is two steps, the execution in Redis and the reaction to
the answer, so that invalidations and other writers come in between; the answer
may be an error although the command was executed. A call is used once and its
loader's value is named after it, so that values can be traced. The in-memory
lookup of the local cache and its put do not fail in the model (they do not throw
on the keys and values they are given).

Properties: `FlightsAreLed`, `FollowerAccounting`, `LoaderDecides`,
`OnlyTimelyLoadsCached`, `RequestConsistency`, `ClosedScopeStaysEmpty`,
`LocalBackedByStore`; each is explained above its definition.

The run `ReadThrough` has three calls of one tracked key, one scope (open, closed,
or the call outside any), instances with and without Redis, the memo on or off,
and every outcome of the layers, of Redis and of the loaders. Three calls are a
leader, a follower that joins before the flight settles and one that joins between
settling and clearing, or a leader, a follower and a later call that finds what
they left behind. One key is enough, as calls of different keys share nothing but
the store, whose keys `WatermarkStore` covers together; the proofs cover any
number of keys, requests and calls. Calls are interchangeable, so the run uses
symmetry. Deadlock checking is off because calls are used once: when all are done
the system may stop.

### ReadThroughMetrics

Every action of `ReadThrough` with the counters it hands to the adapter
(`ReportInvoke`, `ReportBypass`, `ReportStep`). Observations of durations and
sizes, and the errors that no property needs, are left out. Checked, when no call
is under way:

- `EachCallCountedOnce`: hits (requests without a miss), coalesced calls, observed
  fallbacks and calls outside `enable()` add up to the calls, however they were
  interleaved, joined, failed or detached.
- `FallbackAttribution`: the fallbacks of the remote layer are its misses, its
  failed reads and its failed resolutions.
- `EveryCallSettles`, the liveness of `ReadThrough`.

A read of Redis that fails is an error and no request, in the code and here; the
table in `README.md:614` reads as if it were one.

Two calls, one with and one without a deadline, of one untracked key, whose
entries expire but are not invalidated; no symmetry, because of liveness.

Fairness (`FairSpec`, and `MetricsFairSpec` for the run) is weak fairness of every
step of a call that DialCache, the config provider, the ramp sampler, the Redis client or a timer owes it. The code
documents that these settle (`config.ts:19-21`, `93-95`, `redis-client.ts:79-80`).
There is no fairness for a loader, for the end of a scope or for new calls.
`EveryCallSettles` then says that a call settles unless a loader without deadline
holds its key for good; re-entrant loaders, which wait for their own flight, are
loaders that never settle.

### InstanceCaches

Nothing tells a local cache about an invalidation. `ReadHit` and `WriteThrough` are
a tracked read that hits and a tracked write that Redis answers; the answer is
under way (`answer`) until `Arrive` fills the local cache, for up to `Delivery`,
or `Lose`. `LoadUnfenced` is a load whose remote layer is off by policy, which
fills the local cache without asking Redis. `Replicate` makes the replica a copy
of the primary, at any time; `ReadNodes` is where a tracked read may be sent:
`node-redis.ts:81-82` declares it not read-only, so the primary alone.
`fencedAt` remembers when each version was first invalidated for. Checked:
`LocalStalenessBounded`, the time for which an outdated local entry can live: its
TTL and its delivery (or the source's lag and the loader's time, for an unfenced
load), from the invalidation on. One key, one instance, one invalidation, times
of 1, and time for fill, invalidation, delivery and expiry in any order (to 6).
Deadlock is checked.

### LocalLru

`lru-cache` 11 as `local-cache.ts` configures it: whole milliseconds from
`floor(performance.now()) + 1`, an entry stale when its age is greater than its
TTL, zero meaning never, and TTLs of `ttlSec * 1000 - 1`. Time runs in halves of a
millisecond (`Fraction`), two milliseconds to the second (`Second`). `rivals` and
`last` are history: the keys used since a key was, and its last put. Checked:
`Bounded` (list and entries agree, within `maxSize`), `ServedInTime` (a hit is the
last put, younger than its TTL in real time), `NotLostEarly` (an entry is not lost
more than a millisecond early unless `maxSize` other keys were used). Three keys,
sizes 0 to 2, TTLs of one and two seconds, time for two lifetimes. Deadlock
checking is off: the clock is bounded.

### CacheIdentity

Texts are sequences of characters, escapes included, as these properties are about
the conversion: `encodeComponent` is `encodeURIComponent`, `normalizeArgs` drops
undefined arguments and sorts the rest, `urn`, `redisKey` and `redisWatermarkKey`
put them together, `Slot` is what Redis Cluster hashes. `Cached` registers a use
case, with valid or invalid options. Checked: `KeysIdentify` (two calls share a
key exactly when they mean the same), `WatermarksGuard` (no value key is a
watermark key, and a tracked value shares the slot of exactly its own watermark),
`OneWrapperEach`. The components contain delimiters, an escape written out, braces
or nothing; the two hex digits of an escape count as one character. The namespace
has one value, as it goes through the same encoding as the key type. Deadlock
checking is off, since every operation is always possible.

### GlideAdapter

`Create` constructs the five handles, or fails after some; `Invoke` is `invoke()`
up to its await, `Settle` the answer, `Return` the `finally` block, which runs
later; `Dispose` releases the handles one by one, and may fail half way; `Drain`
is an application that stops using the adapter. Checked: `CountExact` (the counter
that `dispose()` trusts is the number of invocations in flight), `HandlesHeld` (no
invocation uses a released handle) and `DrainEnds` (a drained adapter gets
disposed of), under weak fairness of `Settle` (GLIDE has a request timeout),
`Return` (microtasks run) and of `Dispose` while draining (the application disposes
of the adapter once its operations have finished, as `README.md:371-373` tells it
to). Two adapters and two invocations,
which are used again: two invocations of one adapter, or one of each. Deadlock
checking is off: disposed adapters may be all there is.

### PrometheusCollectors

`Construct` validates the collectors that exist under a prefix and then registers
the missing ones; `RegisterForeign` is other code, or another release, that
registers a collector first, of the same schema or of one that differs in help,
type, labels, buckets or exemplar mode; `Sample` is a method of the adapter.
`compatible` is the schema check of `validateExistingCollectors`; its comparison of
names always holds, as a collector is looked up by its name. `prom-client` is modelled
from its use (`Records`): it throws on a method or a label that the collector does
not have, and a collector in exemplar mode takes its labels otherwise and misses
those of the adapter; DialCache swallows what an adapter throws. Checked:
`AllOrNothing` (a constructor that throws leaves nothing behind) and `NothingLost`
(every sample is recorded under its labels by the collector of its metric, whoever
registered it). Two adapters on one prefix, a counter, a labelled counter and a
histogram that other code may take, one sample of each metric. Deadlock checking
is off: adapters are used once and samples are bounded.

### Deadline, FallbackDeadline

`performance.now()` runs in ticks, `Res` to the millisecond. `setTimeout` takes
whole milliseconds (`DueAt` rounds up), may fire up to `Early` ticks early, and
arbitrarily late. `LoaderSeen` is the reaction to the loader's promise, which runs
before a later timer (microtasks first). `Refuse` is the RangeError for an unusable
timeout. Checked: `ArmedWhileWaiting`, the refinement `ImplementsDeadline`, and,
with weak fairness of the event loop (the synchronous part of a loader returns,
due timers and reactions run, time passes), `BoundedCallAnswers`. Timeouts 0 to 4
ms, with 3 as the longest a timer supports, null and absent; two ticks to the
millisecond; a timer may be a whole millisecond early, so it is armed again and
again. The bound on the clock lets every deadline be reached; deadlock checking is
off because the one call ends.

### RequestScope

A task is one asynchronous activity with the AsyncLocalStorage store it was
started with. `Enable`, `Disable` and `Spawn` start a task inside another, which
need not await it; `Settle` ends one, and closes the holder if the task is the
callback of the outermost `enable()`. `Acquire` and `Memoize` are a memoizing call
getting hold of the request's cache and storing into it later. `ancestors` is a
history variable that the properties use to say what *around* means. Four tasks
below the root give enable inside disable inside enable with detached work, or two
concurrent requests with a child each. Tasks other than the root are
interchangeable. Deadlock checking is off: all tasks may have settled.

### RuntimeConfig

One use case and key, with the deterministic sampler or one of the application's
(`stable`, chosen in `Init`). `Register` is the validation of the default
(`snapshotDefaultConfig`; what it refuses is an exception and leaves no state),
`Publish` an operator changing what the provider reads, `Fetched` the provider's
answer (anything that was in force since it was asked) merged with the default,
`Resolve` a layer's resolution with the ramp's sample. `window`, a history
variable, holds the overlays in force while the call asked. Checked:
`OneSnapshot`, `RolloutOnlyGrows` with the deterministic sampler (a fixed bucket
per layer, tried in every position; its hash is not modelled), and
`KillSwitchStops`, `InvalidFromProvider` with a sampler that may answer anything or
throw. 100 percent is 3, so partial ramps are 1 and 2; TTLs are 0, 1, 2 and an
unsafe 3; two changes of policy during two calls. Deadlock checking is off: calls
are used once and the changes are bounded.

## Proofs

Proved for all values of the constants that satisfy the named assumptions:

- `WatermarkStoreProofs`: `TypeCorrect`, `GuardsHold`, `FenceHolds`,
  `AcceptanceHolds` and `Refinement`, from `MarginAssumption`,
  `SentinelAssumption`, `SlotAssumption`, `NilAssumption`. `Fenced` is not
  inductive: a write could create a watermark of 0 under an older hidden value. The
  inductive invariant adds that the guard outlives the values, that stored values
  have not expired and that the mark, where there is one, has reached the fence as
  long as anything depends on it; under a malformed mark the fence lies in the past.
- `InvalidationProofs`: `TypeCorrect`, `StaleNeverHit`, `StaleNeverAccepted` about
  `TrackedInvalidation`, from `TimingAssumption` in addition. The invariant is built
  from: no commit, source read or stored frame is later than the clocks allow
  (`History`); a pending fallback saw what the lag allows (`ReadsInTime`); while a
  stale value can still be under way the mark is ahead of every eligible clock and
  the watermark is alive (`WindowHolds`); a stored value's watermark survives it
  even on the slowest clock (`ValuesGuarded`); a stale value is at or below the
  mark (`StaleHidden`). And `CachesTypeCorrect` and `StalenessEnds` about
  `InstanceCaches`, from `CachesAssumption` too: Redis gives no outdated answer after
  the invalidation, so an outdated one under way was given before
  (`AnswersInTime`); a version is committed before it is invalidated for
  (`CommittedFirst`), so a loader that missed it read its source soon after the
  commit.
- `ReadThroughProofs`: every safety property of `ReadThrough` (`TypeCorrect`,
  `FlightsHold`, `CountHolds`, `ClosedStaysEmpty`, `OnlyTimelyHolds`,
  `LocalBackedHolds`, `LoaderDecidesHolds`, `RequestConsistencyHolds`), from
  `ReadThroughAssumption`: the calls are finitely many, and the marks for nothing,
  failure and the answers of Redis are none of the calls. And of
  `ReadThroughMetrics`: `CountedOnceHolds`, `AttributionHolds`. That the observed chain
  is the chain holds by construction (the lemma `MetricsChangeNothing`); an adapter
  that throws, and the wrapper around it, are not part of the model. See below.
- `RequestProofs`: `TypeCorrect`, `TimersHold` and `Refinement` about
  `FallbackDeadline`, from `DeadlineAssumption`. Its invariant adds to the armed
  timer what is known before a loader runs (`Quiet`). And `ScopeTypeCorrect`,
  `EnabledExactly`, `OneRequest`, `MemoIsolated`, `EnableAlwaysEnables` about
  `RequestScope`, from `TaskAssumption`. That invariant ties `ancestors` to `store`: a
  task's holder is an outermost task that is itself or an ancestor and is closed
  exactly when it has settled.
- `RuntimeConfigProofs`: `TypeCorrect`, `OneSnapshotHolds`, `RolloutHolds`,
  `KillSwitchHolds`, `InvalidHolds`, from `ConfigAssumption`. The properties speak
  of what a layer was told; the invariant says that a call's config is what one
  overlay of its window made of the default (`FromWindow`) and that each decision is
  the verdict on that config or the sampler's answer to it (`Decided`).
- `LocalLruProofs`: `BoundedHolds`, `ServedInTimeHolds`, `NotLostEarlyHolds`, from
  `LruAssumption`, for keys of any number, any TTLs and any fineness of the clock.
  The two about time compare what the code computes, in whole milliseconds, with
  real ages, so the rounding is a lemma of its own (`Rounding`). `NotLostEarly`
  counts rivals, the list orders keys: the invariant says that whoever stands after
  a key in the list is a rival of every key before it (`YoungerRivals`), that a
  key that is gone had its rivals or its time (`GoneFairly`), and that entries,
  list and the history of puts agree (`Sized`, `Written`).
- `CacheIdentityProofs`: `KeysIdentifyHolds`, `WatermarksGuardHolds`,
  `OneWrapperEachHolds`, from `IdentityAssumption`, for texts of any length over any
  alphabet and argument objects of any size. See below.
- `AdapterProofs`: `TypeCorrect`, `CountHolds`, `HandlesHold`, `DisposedHolds` about
  `GlideAdapter`, from `CallAssumption`: only a ready adapter has invocations, and
  a ready one holds all its handles. And `AllOrNothingHolds`, `NothingLostHolds` about
  `PrometheusCollectors`, from `RegistryAssumption`, for any metrics, prefixes and
  foreign collectors: an adapter that is there has validated each collector of its
  prefix (`MadeValidated`), and none is ever replaced.

The invariant of `ReadThroughProofs` comes in layers, each used by the next:

| layer | says | for |
| --- | --- | --- |
| `Base` | types; a registered flight has a leader at work on its key; follower counts are exact; who waits for a flight waits for a chain of its key that is registered or over | `TypeOK`, `FlightsAreLed`, `FollowerAccounting` |
| `Phases` | what a call can have learned where it is | the layers below |
| `MemoKeyed` | request-local flights are led by calls of their request | `ClosedScopeStaysEmpty`, `RequestConsistency` |
| `Timely` | what is cached, on its way to Redis or returned was loaded for its key, in time | `OnlyTimelyLoadsCached` |
| `Backed` | what Redis and its answers hold was accepted | `LocalBackedByStore` |
| `Chained` | a call is answered through two others at most, with what the last one's loader says | `LoaderDecides` |
| `Led` | of the leaders of one key in a request at most one is unfinished, and it leads because all others failed | `RequestConsistency` |

None of the properties is inductive alone. A follower may join after its flight
settled, so the counts need the flight's leader to be known as finished; what a
follower returns is its leader's answer, which itself may be a follower's of a
process flight.

The counters of `ReadThroughMetrics` are sums over a history, so their invariant
(`MetricsInv`) is a set of balances: each total is the number of calls that are past
the step that reports it (`Balanced`), a number that changes with one call at a time
(`OneMoves`), and what a call has reported fits where it is (`CallsFit`). When no
call is under way these balances are the two properties.

`CacheIdentityProofs` is about sequences. Escaping is shown to be injective, and what
it yields to contain no delimiter (`EncodeTyped`, `EncodeInjective`); so a text that is
put together from escaped parts and delimiters can be taken apart at its first
(`SplitFirst`) or last delimiter (`SplitLast`): `JoinInjective` for the three
components, `ArgsInjective` for an argument list of any length, `PrefixInjective` for
the hash tag. `Normalized` says that the sorted list and the set of defined arguments
determine each other. `KeysTellApart` combines them, and `WatermarkSlots` adds what
Redis Cluster hashes (`SlotOf`). `KeysIdentify` and `WatermarksGuard` are then true in
any state of the right types; `OneWrapperEach` is an invariant.

These proofs need induction over lists. `FlattenSeq` is a fold of the community
modules, defined through a recursive function, and the induction theorems of the
library, which take a predicate, cannot be used; `Induction` and `ListInduction` are
their forms for a set in the place of the predicate, proved from the theorem that
every nonempty set has a minimal element under a well-founded relation. For the
same reason `normalizeArgs` states what the sorted list is instead of sorting.

The step lemma of each module goes action by action, or, in `ReadThroughProofs`, by
the ways in which a step can touch the variables a layer is about; temporal steps
are by PTL.

Every invariant and every refinement that a run checks is stated by a theorem. Only
model-checked: liveness (`EveryCallSettles`, `BoundedCallAnswers`, `DrainEnds`), which
is out of the prover's reach. No module uses a recursive operator.

## Not modelled

- `datadog.ts`: it keeps no state; each method forwards to one DogStatsD call.
- `serializer.ts`, payload bytes (`internal/redis-payload.ts`), script text, SHA and
  EVALSHA fallback: data and client concerns; a failing serializer is a failing
  read or write in `ReadThrough`.
- The logger, and the age that `getCoalescingState` reports.
- Adapters whose methods throw inside the chain, and the wrapper that swallows it
  (`safeMetrics`): `PrometheusCollectors` has the lost sample, not the chain's side.
- An order of the writes of one key: the code has none. A delayed write may replace a
  newer value; an invalidation, for tracked keys, or the TTL ends that.
- The validation of the constructor's options, and methods of the layers that
  DialCache does not call (`LocalCache.get`, `RedisCache.get` and `getResult`).
- The limit on `ttlSec * 1000` in `redis-cache.ts:132`: one of the failures of a
  write in `ReadThrough`.
- Eviction of a watermark by Redis under memory pressure, and loss of writes by
  replication at a failover: outside what the protocol tolerates.
- When, within its leader's deadline, a late follower is answered: documented.
- The hash of `stablePercent`; texts with lone surrogates, on which
  `encodeURIComponent` throws.
- `index.ts` (re-exports), `scripts/`, benchmarks and package tests: nothing of them
  runs in a program that uses DialCache.

## What is left

In order of what it would tell:

1. An abstract specification of one cached call (a value that was loaded in time, or
   the loader's error) that `ReadThrough` refines; `LoaderDecides` and
   `OnlyTimelyLoadsCached` say the same as invariants.
2. Instances with different watermark floors and local TTLs in one `InstanceCaches`
   run, which has one instance; the proof covers any number.
