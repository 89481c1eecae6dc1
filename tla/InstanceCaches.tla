--------------------------- MODULE InstanceCaches ---------------------------
(***************************************************************************)
(* The process-local caches of the instances that share the Redis slot of  *)
(* TrackedInvalidation.  A local cache is filled from a tracked read that  *)
(* hit, from a tracked write that Redis accepted, or from a loader whose   *)
(* remote layer is off (finishRedisChain in src/dialcache.ts); the first   *)
(* two are answers under way from Redis, overtaken or not by invalidations *)
(* that nobody tells the local caches about.                               *)
(*                                                                         *)
(* Redis has a replica.  Whether a command may go to it is decided by the  *)
(* IS_READ_ONLY of its script (src/node-redis.ts).                         *)
(***************************************************************************)
EXTENDS TrackedInvalidation

CONSTANTS Instances,   \* processes, each with one flight per key
          Delivery,    \* a Redis answer takes effect within so long, or never
          LocalTtl     \* of the local layer

ASSUME CachesAssumption == Delivery \in Nat /\ LocalTtl \in Nat

VARIABLES answer,      \* per instance and key: Nil or [payload, since] under way
          local,       \* per instance and key: Nil or [payload, from, until]
          replica,     \* what the replica holds, a past state of the primary
          fencedAt     \* history: when each version was first invalidated for

cacheVars == <<answer, local, replica, fencedAt>>

Answers == [payload : Versions, since : Nat]
LocalEntries == [payload : Versions, from : {"redis", "loader"}, until : Nat]

ASSUME NoAnswerAssumption == Nil \notin Answers /\ Nil \notin LocalEntries

CachesTypeOK ==
  /\ answer \in [Instances -> [Keys -> Answers \cup {Nil}]]
  /\ local \in [Instances -> [Keys -> LocalEntries \cup {Nil}]]
  /\ replica \in [value : [Keys -> Frames \cup {Nil}],
                  watermark : [mark : Nat, expiresAt : Nat] \cup {Nil}]
  /\ fencedAt \in [Versions -> Nat]

CachesInit ==
  /\ Init
  /\ answer = [i \in Instances |-> [k \in Keys |-> Nil]]
  /\ local = [i \in Instances |-> [k \in Keys |-> Nil]]
  /\ replica = [value |-> value, watermark |-> watermark]
  /\ fencedAt = [w \in Versions |-> 0]

-----------------------------------------------------------------------------
\* Everything TrackedInvalidation does, the tracked writes of clients without
\* a local layer included.
SlotStep ==
  /\ Next
  /\ fencedAt' = [w \in Versions |-> IF invalidated < w /\ w <= invalidated' THEN real
                                     ELSE fencedAt[w]]
  /\ UNCHANGED <<answer, local, replica>>

Replicate ==
  /\ replica' = [value |-> value, watermark |-> watermark]
  /\ UNCHANGED <<vars, answer, local, fencedAt>>

\* The tracked read declares itself a writer, so it is never sent to a
\* replica.  Faulty variant: it does not.
ReadNodesAny == {[value |-> value, watermark |-> watermark], replica}
ReadNodes == {[value |-> value, watermark |-> watermark]}

\* A tracked read is a hit.
ReadHit(i, k) ==
  /\ answer[i][k] = Nil
  /\ \E node \in ReadNodes :
       /\ TrackedReadable(Live(node.value[k]), Live(node.watermark))
       /\ answer' = [answer EXCEPT ![i][k] = [payload |-> node.value[k].payload, since |-> real]]
  /\ UNCHANGED <<vars, local, replica, fencedAt>>

\* What the answer to a tracked write brings to the local cache: nothing
\* when it is refused.
FillAfterWrite(i, k, f) ==
  answer' = IF TrackedWriteReply(Live(watermark), clock) = "stored"
              THEN [answer EXCEPT ![i][k] = [payload |-> fill[f].saw, since |-> real]]
              ELSE answer

WriteThrough(i, f, k, ttl, floor) ==
  /\ answer[i][k] = Nil
  /\ Publish(f, k, ttl, floor)
  /\ FillAfterWrite(i, k, f)
  /\ UNCHANGED <<local, replica, fencedAt>>

\* The TTL of an entry starts when it is put.
Entry(payload, from) == [payload |-> payload, from |-> from, until |-> real + LocalTtl]

Arrive(i, k) ==
  /\ answer[i][k] # Nil
  /\ real <= answer[i][k].since + Delivery
  /\ local' = [local EXCEPT ![i][k] = Entry(answer[i][k].payload, "redis")]
  /\ answer' = [answer EXCEPT ![i][k] = Nil]
  /\ UNCHANGED <<vars, replica, fencedAt>>

Lose(i, k) ==
  /\ answer[i][k] # Nil
  /\ answer' = [answer EXCEPT ![i][k] = Nil]
  /\ UNCHANGED <<vars, local, replica, fencedAt>>

\* The remote layer is off: the loader's value is put without asking Redis.
LoadUnfenced(i, f, k) ==
  /\ Abandon(f)
  /\ real <= fill[f].readAt + Work
  /\ local' = [local EXCEPT ![i][k] = Entry(fill[f].saw, "loader")]
  /\ UNCHANGED <<answer, replica, fencedAt>>

\* Expired or evicted.
Drop(i, k) ==
  /\ local[i][k] # Nil
  /\ local' = [local EXCEPT ![i][k] = Nil]
  /\ UNCHANGED <<vars, answer, replica, fencedAt>>

CachesNext ==
  \/ SlotStep
  \/ Replicate
  \/ \E i \in Instances, k \in Keys :
       \/ ReadHit(i, k) \/ Arrive(i, k) \/ Lose(i, k) \/ Drop(i, k)
       \/ \E f \in Fills : LoadUnfenced(i, f, k)
       \/ \E f \in Fills, ttl \in Ttls, floor \in Floors : WriteThrough(i, f, k, ttl, floor)

CachesSpec == CachesInit /\ [][CachesNext]_<<vars, cacheVars>>

-----------------------------------------------------------------------------
\* How long an outdated value can take to get into a local cache.
Slack(from) == IF from = "redis" THEN Delivery ELSE Lag + Work

\* No invalidation reaches the local caches, yet none serves an outdated
\* version for longer than its TTL and the time of the answer that brought
\* it, counted from the first invalidation made for a newer version: neither
\* a hit nor an acceptance that an invalidation overtook on its way back, nor
\* a replica that has not seen the watermark, adds to that; a loader whose
\* remote layer is off adds its own lag (dialcache.ts:505-538,
\* node-redis.ts:81-82).
LocalStalenessBounded ==
  \A i \in Instances, k \in Keys, w \in Versions :
    /\ local[i][k] # Nil
    /\ local[i][k].payload < w /\ w <= invalidated
    => local[i][k].until <= fencedAt[w] + Slack(local[i][k].from) + LocalTtl
=============================================================================
