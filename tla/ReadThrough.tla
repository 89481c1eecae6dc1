---------------------------- MODULE ReadThrough -----------------------------
(***************************************************************************)
(* One DialCache instance (src/dialcache.ts) serving concurrent calls of   *)
(* cached functions through its layers:                                    *)
(*                                                                         *)
(*   request-local memo  -  process-local cache  -  Redis  -  the loader   *)
(*                                                                         *)
(* An action is what JavaScript runs between two awaits, so a call's       *)
(* continuation interleaves with the other calls, with Redis, with the     *)
(* timers and with the end of the request exactly where the code awaits.   *)
(* A call is an element of Calls and is used once; the value its loader    *)
(* produces is identified by the call itself.                              *)
(*                                                                         *)
(* Redis is the abstract store of FencedStore, which WatermarkStore        *)
(* implements; the client may also fail a command, before or after Redis   *)
(* has executed it (src/redis-client.ts).                                  *)
(***************************************************************************)
EXTENDS Integers, FiniteSets

CONSTANTS Calls, Keys, Tracked, Scopes,
          Nil,
          Fail,            \* a rejected promise
          Outside,         \* no enable() around the call
          Bounded,         \* calls with a fallback timeout
          RedisChoices,    \* whether the instance has a redis config
          MemoChoices,     \* requestLocal of the key configs: subset of BOOLEAN
          LocalChoices,    \* what resolving the local layer answers
          RemoteChoices    \* what resolving the remote layer answers

ASSUME ReadThroughAssumption ==
  /\ Tracked \subseteq Keys
  /\ Bounded \subseteq Calls
  /\ RedisChoices \subseteq BOOLEAN
  /\ MemoChoices \subseteq BOOLEAN
  /\ LocalChoices \subseteq {"on", "off"}
  /\ RemoteChoices \subseteq {"on", "off", "configError"}
  /\ IsFiniteSet(Calls)
  /\ Nil \notin Calls /\ Fail \notin Calls /\ Nil # Fail /\ Outside \notin Scopes
  /\ Calls \cap {"stored", "refused", "error"} = {} /\ Nil \notin {"stored", "refused", "error"}
  /\ Nil \notin [key : Keys, scope : Scopes \cup {Outside}]
  /\ Nil \notin [leader : Calls, followers : Nat]

VARIABLES
  pc,         \* where each call is
  req,        \* its key and the scope it was made in
  memoRole,   \* its part in a request-local flight
  by,         \* the call whose flight it waits for, or itself
  plan,       \* what its chain learned of the layers
  got,        \* the Redis answer on its way to it
  load,       \* what became of its loader
  res,        \* its answer
  hasRedis,   \* redisCache is not null
  flight,     \* processFlights
  active,     \* activeProcessFollowers
  local,      \* the process-local cache
  open,       \* the scopes whose enable() callback has not settled
  memo,       \* RequestLocalCache.values
  memoFlight, \* RequestLocalCache.inFlight
  content,    \* the Redis values a read would return
  blocked,    \* tracked Redis writes are being rejected
  late,       \* writes whose client gave up but which Redis may still execute
  accepted    \* history: the values Redis accepted

callVars  == <<pc, req, memoRole, by, plan, got, load, res>>
shared    == <<hasRedis, flight, active, local>>
scopeVars == <<open, memo, memoFlight>>
redisVars == <<content, blocked, late, accepted>>
vars      == <<callVars, shared, scopeVars, redisVars>>

Store == INSTANCE FencedStore WITH Payloads <- Calls, reply <- Nil

\* The cache key a call is served under: key.urn, one per use case and
\* arguments.
key(c)   == req[c].key
scope(c) == req[c].scope

NoPlan == [local |-> "none", remote |-> "none"]

Init ==
  /\ pc = [c \in Calls |-> "idle"]
  /\ req = [c \in Calls |-> Nil]
  /\ memoRole = [c \in Calls |-> "none"]
  /\ by = [c \in Calls |-> c]
  /\ plan = [c \in Calls |-> NoPlan]
  /\ got = [c \in Calls |-> Nil]
  /\ load = [c \in Calls |-> "none"]
  /\ res = [c \in Calls |-> Nil]
  /\ hasRedis \in RedisChoices
  /\ flight = [k \in Keys |-> Nil]
  /\ active = 0
  /\ local = [k \in Keys |-> Nil]
  /\ open = Scopes
  /\ memo = [s \in Scopes |-> [k \in Keys |-> Nil]]
  /\ memoFlight = [s \in Scopes |-> [k \in Keys |-> Nil]]
  /\ Store!StoreInit
  /\ late = {}
  /\ accepted = {}

-----------------------------------------------------------------------------
Goto(c, p) == pc' = [pc EXCEPT ![c] = p]

\* DialCacheContext.isEnabled, in the async context of the call.
Enabled(s) == s \in open

Leads(c) == flight[key(c)] # Nil /\ flight[key(c)].leader = c

\* The shared layers have answered a call that does not lead a flight.
AfterShared(c) == IF memoRole[c] = "leader" THEN "chained" ELSE "done"

StartLoad(c) == Goto(c, "load") /\ load' = [load EXCEPT ![c] = "running"]

\* singleFlightProcess registers a flight, or joins the one it finds.
NewFlightLate(c) == flight' = flight                       \* faulty variant
NewFlight(c) == flight' = [flight EXCEPT ![key(c)] = [leader |-> c, followers |-> 0]]

JoinProcess(c) ==
  LET k == key(c) IN
  /\ flight' = [flight EXCEPT ![k].followers = @ + 1]
  /\ active' = active + 1
  /\ by' = [by EXCEPT ![c] = flight[k].leader]
  /\ Goto(c, "waitShared")

\* The chain of a flight's leader ends with v; its promise settles, and the
\* reactions to it run later.
SettleFlightClosed(c, v) ==                                \* faulty variant
  /\ res' = [res EXCEPT ![c] = IF got[c] = "error" THEN Fail ELSE v]
  /\ Goto(c, "settled")

SettleFlight(c, v) ==
  /\ res' = [res EXCEPT ![c] = v]
  /\ Goto(c, "settled")

FillLocal(c, v, fill) ==
  local' = IF fill THEN [local EXCEPT ![key(c)] = v] ELSE local

\* finishRedisChain: the chain must not publish what it loads.
SkipsWrite(c) ==
  /\ key(c) \in Tracked
  /\ plan[c].remote \in {"readError", "configError"}

\* remoteWriteConfig is defined.
WritesRemote(c) == plan[c].remote \in {"miss", "readError"}

\* What the outcome of the Redis write says about filling the local cache.
SuppressedByRefusal(c, r) == r = "refused"                 \* faulty variant
SuppressedBy(c, r) == r = "refused" \/ (r = "error" /\ key(c) \in Tracked)

-----------------------------------------------------------------------------
\* executeCacheOperation up to its first await.
Invoke(c, k, s) ==
  /\ pc[c] = "idle"
  /\ req' = [req EXCEPT ![c] = [key |-> k, scope |-> s]]
  /\ IF Enabled(s)
       THEN \/ Goto(c, "config") /\ UNCHANGED load
            \/ StartLoad(c)                        \* the key could not be built
       ELSE Goto(c, "raw") /\ load' = [load EXCEPT ![c] = "running"]
  /\ UNCHANGED <<memoRole, by, plan, got, res, shared, scopeVars, redisVars>>

\* The config provider failed, or the scope has closed meanwhile.
Bypass(c) ==
  /\ pc[c] = "config"
  /\ StartLoad(c)
  /\ UNCHANGED <<req, memoRole, by, plan, got, res, shared, scopeVars, redisVars>>

\* The config does not ask for request-local memoization.
SkipMemo(c) ==
  /\ pc[c] = "config"
  /\ Enabled(scope(c))
  /\ FALSE \in MemoChoices
  /\ Goto(c, "localConfig")
  /\ UNCHANGED <<req, memoRole, by, plan, got, load, res, shared, scopeVars, redisVars>>

\* getThroughRequestLocal and singleFlightRequestLocal.
EnterMemo(c) ==
  LET s == scope(c)
      k == key(c)
  IN
  /\ pc[c] = "config"
  /\ Enabled(s)
  /\ TRUE \in MemoChoices
  /\ IF memoFlight[s][k] # Nil
       THEN /\ memoRole' = [memoRole EXCEPT ![c] = "joined"]
            /\ by' = [by EXCEPT ![c] = memoFlight[s][k]]
            /\ Goto(c, "waitMemo")
            /\ UNCHANGED <<res, memoFlight>>
       ELSE /\ memoRole' = [memoRole EXCEPT ![c] = "leader"]
            /\ memoFlight' = [memoFlight EXCEPT ![s][k] = c]
            /\ IF memo[s][k] # Nil
                 THEN res' = [res EXCEPT ![c] = memo[s][k]] /\ Goto(c, "memoSettled")
                 ELSE Goto(c, "localConfig") /\ UNCHANGED res
            /\ UNCHANGED by
  /\ UNCHANGED <<req, plan, got, load, shared, open, memo, redisVars>>

-----------------------------------------------------------------------------
\* getThroughSharedLayers, the local layer resolved as enabled: join the
\* flight of the key, or lead one and look into the local cache.  The lookup
\* itself, in memory, does not throw.
LocalOn(c) ==
  LET k == key(c) IN
  /\ pc[c] = "localConfig"
  /\ "on" \in LocalChoices
  /\ IF flight[k] # Nil
       THEN JoinProcess(c) /\ UNCHANGED <<plan, load, res>>
       ELSE /\ NewFlight(c)
            /\ IF local[k] # Nil
                 THEN SettleFlight(c, local[k]) /\ UNCHANGED <<plan, load>>
                 ELSE /\ plan' = [plan EXCEPT ![c].local = "miss"]
                      /\ IF hasRedis THEN Goto(c, "remoteConfig") /\ UNCHANGED load
                                     ELSE StartLoad(c)
                      /\ UNCHANGED res
            /\ UNCHANGED <<by, active>>
  /\ UNCHANGED <<req, memoRole, got, hasRedis, local, scopeVars, redisVars>>

\* Disabled by policy or ramp, or its resolution threw.
LocalOff(c) ==
  /\ pc[c] = "localConfig"
  /\ "off" \in LocalChoices
  /\ IF hasRedis THEN Goto(c, "remoteConfig") /\ UNCHANGED load
                 ELSE StartLoad(c)
  /\ UNCHANGED <<req, memoRole, by, plan, got, res, shared, scopeVars, redisVars>>

\* The remote layer resolved as enabled.  A leader reads Redis at once; a
\* call that skipped the local layer joins or leads a flight first.
RemoteOn(c) ==
  /\ pc[c] = "remoteConfig"
  /\ "on" \in RemoteChoices
  /\ IF Leads(c)
       THEN Goto(c, "read") /\ UNCHANGED <<flight, active, by>>
       ELSE IF flight[key(c)] # Nil
              THEN JoinProcess(c)
              ELSE NewFlight(c) /\ Goto(c, "read") /\ UNCHANGED <<active, by>>
  /\ UNCHANGED <<req, memoRole, plan, got, load, res, hasRedis, local, scopeVars, redisVars>>

\* Disabled, or its resolution threw: the loader is next, in the flight the
\* call leads or outside of any.
RemoteOff(c, why) ==
  /\ pc[c] = "remoteConfig"
  /\ why \in {"off", "configError"} \cap RemoteChoices
  /\ plan' = [plan EXCEPT ![c].remote = why]
  /\ StartLoad(c)
  /\ UNCHANGED <<req, memoRole, by, got, res, shared, scopeVars, redisVars>>

-----------------------------------------------------------------------------
\* Redis executes the read; the payload may then fail to deserialize, or the
\* client may fail.
ReadExecuted(c) ==
  /\ pc[c] = "read"
  /\ got' \in {[got EXCEPT ![c] = a] : a \in {content[key(c)], Nil, "error"}}
  /\ Goto(c, "readBack")
  /\ UNCHANGED <<req, memoRole, by, plan, load, res, shared, scopeVars, redisVars>>

\* A hit ends the chain, filling the local cache if that was consulted.
ReadHit(c) ==
  /\ pc[c] = "readBack"
  /\ got[c] \in Calls
  /\ FillLocal(c, got[c], plan[c].local = "miss")
  /\ SettleFlight(c, got[c])
  /\ got' = [got EXCEPT ![c] = Nil]
  /\ UNCHANGED <<req, memoRole, by, plan, load, hasRedis, flight, active, scopeVars, redisVars>>

ReadMissed(c) ==
  /\ pc[c] = "readBack"
  /\ got[c] \notin Calls
  /\ plan' = [plan EXCEPT ![c].remote = IF got[c] = Nil THEN "miss" ELSE "readError"]
  /\ StartLoad(c)
  /\ got' = [got EXCEPT ![c] = Nil]
  /\ UNCHANGED <<req, memoRole, by, res, shared, scopeVars, redisVars>>

-----------------------------------------------------------------------------
\* The loader of a call resolved in time.  A flight's leader publishes what
\* it got; any other call only returns it.
Resolved(c) ==
  /\ pc[c] = "load"
  /\ load' = [load EXCEPT ![c] = "resolved"]
  /\ IF ~ Leads(c)
       THEN res' = [res EXCEPT ![c] = c] /\ Goto(c, AfterShared(c)) /\ UNCHANGED local
     ELSE IF WritesRemote(c) /\ ~ SkipsWrite(c)
       THEN Goto(c, "write") /\ UNCHANGED <<res, local>>
       ELSE /\ SettleFlight(c, c)
            /\ FillLocal(c, c, plan[c].local = "miss" /\ ~ SkipsWrite(c))
  /\ UNCHANGED <<req, memoRole, by, plan, got, hasRedis, flight, active, scopeVars, redisVars>>

\* withFallbackTimeout wraps the loader of every call made inside enable(),
\* in a flight or not.
HasDeadlineLeader(c) == c \in Bounded /\ Leads(c)          \* faulty variant
HasDeadline(c) == c \in Bounded

\* It rejected, or its deadline passed first (withFallbackTimeout): from then
\* on the loader may do what it likes, nothing it returns is used.
LoadFailed(c, how) ==
  /\ pc[c] = "load"
  /\ how \in {"rejected"} \cup (IF HasDeadline(c) THEN {"timedOut"} ELSE {})
  /\ load' = [load EXCEPT ![c] = how]
  /\ IF Leads(c) THEN SettleFlight(c, Fail)
                 ELSE res' = [res EXCEPT ![c] = Fail] /\ Goto(c, AfterShared(c))
  /\ UNCHANGED <<req, memoRole, by, plan, got, shared, scopeVars, redisVars>>

\* Outside enable() the loader's outcome is the answer.
RawSettled(c, how) ==
  /\ pc[c] = "raw"
  /\ how \in {"resolved", "rejected"}
  /\ load' = [load EXCEPT ![c] = how]
  /\ res' = [res EXCEPT ![c] = IF how = "resolved" THEN c ELSE Fail]
  /\ Goto(c, "done")
  /\ UNCHANGED <<req, memoRole, by, plan, got, shared, scopeVars, redisVars>>

-----------------------------------------------------------------------------
StoreWrite(c, r) ==
  /\ Store!WriteEffect(key(c), c, r)
  /\ accepted' = IF r = "stored" THEN accepted \cup {c} ELSE accepted

\* Redis executes the write; the answer may be lost on the way back.
WriteExecuted(c) ==
  /\ pc[c] = "write"
  /\ \E r \in {"stored", "refused", "error"} :
       /\ StoreWrite(c, r)
       /\ got' \in {[got EXCEPT ![c] = a] : a \in {r, "error"}}
  /\ Goto(c, "writeBack")
  /\ UNCHANGED <<req, memoRole, by, plan, load, res, shared, scopeVars, late>>

\* The client gives up, or serializing failed; a command that was already
\* dispatched may be executed later.
WriteFailed(c) ==
  /\ pc[c] = "write"
  /\ got' = [got EXCEPT ![c] = "error"]
  /\ late' \in {late, late \cup {c}}
  /\ Goto(c, "writeBack")
  /\ UNCHANGED <<req, memoRole, by, plan, load, res, shared, scopeVars, content, blocked, accepted>>

LateWrite(c) ==
  /\ c \in late
  /\ \E r \in {"stored", "refused", "error"} : StoreWrite(c, r)
  /\ late' = late \ {c}
  /\ UNCHANGED <<callVars, shared, scopeVars>>

Written(c) ==
  /\ pc[c] = "writeBack"
  /\ FillLocal(c, c, plan[c].local = "miss" /\ ~ SuppressedBy(c, got[c]))
  /\ SettleFlight(c, c)
  /\ got' = [got EXCEPT ![c] = Nil]
  /\ UNCHANGED <<req, memoRole, by, plan, load, hasRedis, flight, active, scopeVars, redisVars>>

-----------------------------------------------------------------------------
\* Faulty variants of ActiveAfterClear.
ActiveAfterClearOne(k) == active - 1
ActiveAfterClearLeader(k) == active - (flight[k].followers + 1)

ActiveAfterClear(k) == active - flight[k].followers

\* The first reaction to a settled process flight unregisters it.
ClearFlight(c) ==
  /\ pc[c] = "settled"
  /\ active' = ActiveAfterClear(key(c))
  /\ flight' = [flight EXCEPT ![key(c)] = Nil]
  /\ Goto(c, AfterShared(c))
  /\ UNCHANGED <<req, memoRole, by, plan, got, load, res, hasRedis, local, scopeVars, redisVars>>

\* The followers' reactions come after it.
ResumeShared(c) ==
  /\ pc[c] = "waitShared"
  /\ pc[by[c]] \in {"chained", "memoSettled", "done"}
  /\ res' = [res EXCEPT ![c] = res[by[c]]]
  /\ Goto(c, AfterShared(c))
  /\ UNCHANGED <<req, memoRole, by, plan, got, load, shared, scopeVars, redisVars>>

\* Faulty variants of Memoizes: a rejection is memoized too; the scope is
\* not asked whether it has closed; only what the call itself loaded counts.
MemoizesRejection(c) == scope(c) \in open
MemoizesDetached(c) == res[c] # Fail
MemoizesOwnLoad(c) == res[c] = c /\ scope(c) \in open

\* The leader of a request-local flight memoizes what the shared layers
\* answered, unless the scope has closed.
Memoizes(c) == res[c] # Fail /\ scope(c) \in open

Memoize(c) ==
  /\ pc[c] = "chained"
  /\ memo' = IF Memoizes(c) THEN [memo EXCEPT ![scope(c)][key(c)] = res[c]] ELSE memo
  /\ Goto(c, "memoSettled")
  /\ UNCHANGED <<req, memoRole, by, plan, got, load, res, shared, open, memoFlight, redisVars>>

ClearMemoFlight(c) ==
  LET s == scope(c)
      k == key(c)
  IN
  /\ pc[c] = "memoSettled"
  /\ memoFlight' = IF memoFlight[s][k] = c THEN [memoFlight EXCEPT ![s][k] = Nil] ELSE memoFlight
  /\ Goto(c, "done")
  /\ UNCHANGED <<req, memoRole, by, plan, got, load, res, shared, open, memo, redisVars>>

ResumeMemo(c) ==
  /\ pc[c] = "waitMemo"
  /\ pc[by[c]] = "done"
  /\ res' = [res EXCEPT ![c] = res[by[c]]]
  /\ Goto(c, "done")
  /\ UNCHANGED <<req, memoRole, by, plan, got, load, shared, scopeVars, redisVars>>

-----------------------------------------------------------------------------
NoEntries == [k \in Keys |-> Nil]

\* The outermost enable() callback has settled: runOutermost closes the
\* holder and the RequestLocalCache.  Calls it did not await go on.
CloseScope(s) ==
  /\ s \in open
  /\ open' = open \ {s}
  /\ memo' = [memo EXCEPT ![s] = NoEntries]
  /\ memoFlight' = [memoFlight EXCEPT ![s] = NoEntries]
  /\ UNCHANGED <<callVars, shared, redisVars>>

\* A local entry expires or is evicted.
DropLocal(k) ==
  /\ local[k] # Nil
  /\ local' = [local EXCEPT ![k] = Nil]
  /\ UNCHANGED <<callVars, hasRedis, flight, active, scopeVars, redisVars>>

\* invalidateRemote, from this or another process.
InvalidateRemote ==
  /\ hasRedis
  /\ Store!InvalidateEffect
  /\ UNCHANGED <<callVars, shared, scopeVars, late, accepted>>

RedisElapse ==
  /\ hasRedis
  /\ Store!ElapseEffect
  /\ UNCHANGED <<callVars, shared, scopeVars, late, accepted>>

-----------------------------------------------------------------------------
\* What a call does without its loader: the steps DialCache, the provider
\* and the Redis client owe it.
Step(c) ==
  \/ Bypass(c) \/ SkipMemo(c) \/ EnterMemo(c)
  \/ LocalOn(c) \/ LocalOff(c) \/ RemoteOn(c)
  \/ \E why \in {"off", "configError"} : RemoteOff(c, why)
  \/ ReadExecuted(c) \/ ReadHit(c) \/ ReadMissed(c)
  \/ WriteExecuted(c) \/ WriteFailed(c) \/ Written(c)
  \/ LoadFailed(c, "timedOut")
  \/ ClearFlight(c) \/ ResumeShared(c)
  \/ Memoize(c) \/ ClearMemoFlight(c) \/ ResumeMemo(c)

Loader(c) ==
  \/ Resolved(c)
  \/ LoadFailed(c, "rejected")
  \/ \E how \in {"resolved", "rejected"} : RawSettled(c, how)

Next ==
  \/ \E c \in Calls, k \in Keys, s \in Scopes \cup {Outside} : Invoke(c, k, s)
  \/ \E c \in Calls : Step(c) \/ Loader(c) \/ LateWrite(c)
  \/ \E s \in Scopes : CloseScope(s)
  \/ \E k \in Keys : DropLocal(k)
  \/ InvalidateRemote
  \/ RedisElapse

Spec == Init /\ [][Next]_vars

\* The provider, the ramp sampler and the Redis client settle (config.ts:19-21,
\* 93-95; redis-client.ts:79-80) and timers fire.  Nothing obliges a loader
\* to settle, a scope to close or anyone to call.
FairSpec == Spec /\ \A c \in Calls : WF_vars(Step(c))

-----------------------------------------------------------------------------
Places == {"idle", "raw", "config", "localConfig", "remoteConfig", "read", "readBack", "load",
           "write", "writeBack", "settled", "chained", "waitShared", "waitMemo",
           "memoSettled", "done"}

TypeOK ==
  /\ pc \in [Calls -> Places]
  /\ req \in [Calls -> [key : Keys, scope : Scopes \cup {Outside}] \cup {Nil}]
  /\ memoRole \in [Calls -> {"none", "leader", "joined"}]
  /\ by \in [Calls -> Calls]
  /\ plan \in [Calls -> [local : {"none", "miss"},
                        remote : {"none", "off", "miss", "readError", "configError"}]]
  /\ got \in [Calls -> Calls \cup {Nil, "stored", "refused", "error"}]
  /\ load \in [Calls -> {"none", "running", "resolved", "rejected", "timedOut"}]
  /\ res \in [Calls -> Calls \cup {Nil, Fail}]
  /\ hasRedis \in BOOLEAN
  /\ flight \in [Keys -> [leader : Calls, followers : Nat] \cup {Nil}]
  /\ active \in Nat
  /\ local \in [Keys -> Calls \cup {Nil}]
  /\ open \subseteq Scopes
  /\ memo \in [Scopes -> [Keys -> Calls \cup {Nil}]]
  /\ memoFlight \in [Scopes -> [Keys -> Calls \cup {Nil}]]
  /\ Store!StoreTypeOK
  /\ late \subseteq Calls
  /\ accepted \subseteq Calls

-----------------------------------------------------------------------------
\* A chain that talks to Redis or publishes leads the flight of its key, so
\* there is one such chain per key at any moment; and a registered flight has
\* a leader still at work on that key: none is left behind for later callers
\* to wait on (singleFlightProcess, dialcache.ts:715-756).
FlightsAreLed ==
  /\ \A c \in Calls : pc[c] \in {"read", "readBack", "write", "writeBack", "settled"} => Leads(c)
  /\ \A k \in Keys : flight[k] # Nil =>
       LET c == flight[k].leader IN
       /\ req[c] # Nil /\ key(c) = k
       /\ pc[c] \in {"remoteConfig", "read", "readBack", "load", "write", "writeBack", "settled"}

\* getCoalescingState is exact: activeProcessFollowers counts the callers
\* waiting on a registered flight, each once, also between a flight settling
\* and its being cleared, when more may join (dialcache.ts:721-722, 748-753).
FollowerAccounting ==
  /\ active = Cardinality({c \in Calls : pc[c] = "waitShared" /\ flight[key(c)] # Nil
                                         /\ flight[key(c)].leader = by[c]})
  /\ \A k \in Keys : flight[k] # Nil =>
       flight[k].followers = Cardinality({c \in Calls : pc[c] = "waitShared"
                                                        /\ by[c] = flight[k].leader})

\* The call whose chain answered c, through a request-local and a process
\* flight at most.
Root(c) == by[by[c]]

\* Caching never decides whether a call succeeds: a call rejects only if the
\* loader of the chain it was served by rejected or timed out, and returns
\* what that loader returned whenever it did so in time, whatever Redis, the
\* provider or the local cache did (dialcache.ts:337-346, 505-538, 599-626).
LoaderDecides ==
  \A c \in Calls : pc[c] = "done" =>
    LET r == Root(c) IN
    CASE load[r] = "resolved"                -> res[c] = r
      [] load[r] \in {"rejected", "timedOut"} -> res[c] = Fail
      [] OTHER                               -> res[c] \in Calls

\* Every value a cache holds, or a delayed write may still bring to Redis,
\* was loaded for that key by a loader that resolved before its deadline:
\* a rejection, a late result or another key's value is in no layer.
OnlyTimelyLoadsCached ==
  LET Timely(v, k) == v \in Calls /\ load[v] = "resolved" /\ req[v].key = k IN
  \A k \in Keys :
    /\ local[k] # Nil => Timely(local[k], k)
    /\ content[k] # Nil => Timely(content[k], k)
    /\ \A s \in Scopes : memo[s][k] # Nil => Timely(memo[s][k], k)
    /\ \A v \in late : key(v) = k => Timely(v, k)

\* Within a request, all memoizing calls of a key that succeed agree: no
\* interleaving of flights, expiry and invalidation shows a request two
\* values (dialcache.ts:420-440, 688-713).
RequestConsistency ==
  \A c, d \in Calls :
    /\ memoRole[c] # "none" /\ memoRole[d] # "none"
    /\ pc[c] \in {"memoSettled", "done"} /\ pc[d] \in {"memoSettled", "done"}
    /\ req[c] = req[d]
    /\ res[c] \in Calls /\ res[d] \in Calls
    => res[c] = res[d]

\* Detached work of a closed request neither revives its memo nor leaves a
\* flight in it (context.ts:24-28, dialcache.ts:348-357, 437).
ClosedScopeStaysEmpty ==
  \A s \in Scopes \ open : memo[s] = NoEntries /\ memoFlight[s] = NoEntries

\* For a tracked key whose chain used Redis, the local cache holds only what
\* Redis accepted: a value refused by a watermark, or whose write failed in
\* any way, does not stay behind locally (dialcache.ts:524-537).
LocalBackedByStore ==
  hasRedis => \A k \in Tracked : local[k] # Nil =>
    local[k] \in accepted \/ plan[local[k]].remote = "off"

\* A loader of the call's key that has no deadline is running.
HeldUp(c) ==
  req[c] # Nil /\ \E d \in Calls \ Bounded : pc[d] = "load" /\ key(d) = key(c)

\* Every call made inside enable() settles, although loaders, other calls and
\* scopes need not: with a deadline on every loader nobody waits forever, not
\* even callers of a flight whose loader waits for that flight itself; what
\* may hold a call up for good is an unbounded loader of its key, and only
\* that (dialcache.ts:322, 715-756, 839-910).
EveryCallSettles ==
  \A c \in Calls :
    pc[c] \notin {"idle", "raw", "done"} ~> (pc[c] = "done" \/ []HeldUp(c))
=============================================================================
