--------------------------- MODULE WatermarkStore ---------------------------
(***************************************************************************)
(* One Redis hash slot of DialCache: the watermark key of a (keyType, id)  *)
(* and the value keys that share its hash tag, under any interleaving of   *)
(* the scripts of src/internal/redis-scripts.ts as RedisCache invokes them *)
(* (src/internal/redis-cache.ts), the passing of Redis time and key        *)
(* expiry.  Keys in Tracked belong to use cases with trackForInvalidation; *)
(* the others use the scripts without a watermark.                         *)
(*                                                                         *)
(* The clock never runs backwards here: one primary, no failover.          *)
(***************************************************************************)
EXTENDS RedisScripts

CONSTANTS Keys,       \* value keys of the slot
          Tracked,    \* those with a watermark
          Payloads,   \* what may be stored
          Ttls,       \* cache TTLs, cacheTtlMs of a write
          Buffers,    \* futureBufferMs of an invalidation
          Floors,     \* watermarkTtlFloorMs, per DialCache instance
          MaxTime     \* bound on the clock, for model checking

ASSUME SlotAssumption ==
  /\ Tracked \subseteq Keys
  /\ Ttls \subseteq Nat \ {0}
  /\ Buffers \subseteq Nat
  /\ Floors \subseteq Nat \ {0}
  /\ MaxTime \in Nat \ {0}

VARIABLES now,        \* TIME
          value,      \* value keys: Nil or a frame
          watermark,  \* watermark key: Nil or [mark, expiresAt]
          reply,      \* the answer to the last command
          fence       \* history: the latest time an invalidation reached

vars == <<now, value, watermark, reply, fence>>

Frames == [payload : Payloads, created : Nat, expiresAt : Nat]
Watermarks == [mark : Nat \cup {Malformed}, expiresAt : Nat \cup {Persistent}]

Smaller(a, b) == IF a <= b THEN a ELSE b

Replies == [op  : {"none", "read", "write", "invalidate"},
            key : Keys \cup {Nil},
            out : Payloads \cup {Nil, "stored", "refused", "error"}]

ASSUME NilAssumption == Nil \notin Frames /\ Nil \notin Watermarks /\ Nil \notin Payloads

TypeOK ==
  /\ now \in Nat \ {0}
  /\ value \in [Keys -> Frames \cup {Nil}]
  /\ watermark \in Watermarks \cup {Nil}
  /\ reply \in Replies
  /\ fence \in Nat

Readable(k) ==
  IF k \in Tracked THEN TrackedReadable(value[k], watermark)
                   ELSE UntrackedReadable(value[k])

Shown(k) == IF Readable(k) THEN value[k].payload ELSE Nil

Answer(op, k, out) == [op |-> op, key |-> k, out |-> out]

Init ==
  /\ now = 1
  /\ value = [k \in Keys |-> Nil]
  /\ watermark = Nil
  /\ reply = Answer("none", Nil, Nil)
  /\ fence = 0

-----------------------------------------------------------------------------
Read(k) ==
  /\ reply' = Answer("read", k, Shown(k))
  /\ UNCHANGED <<now, value, watermark, fence>>

WriteUntracked(k, p, ttl) ==
  /\ k \notin Tracked
  /\ value' = [value EXCEPT ![k] = NewFrame(p, ttl, now)]
  /\ reply' = Answer("write", k, "stored")
  /\ UNCHANGED <<now, watermark, fence>>

WriteTracked(k, p, ttl, floor) ==
  /\ k \in Tracked
  /\ LET r == TrackedWriteReply(watermark, now) IN
       /\ reply' = Answer("write", k, r)
       /\ IF r = "stored"
            THEN /\ value' = [value EXCEPT ![k] = NewFrame(p, ttl, now)]
                 /\ watermark' = WatermarkAfterWrite(watermark, floor, ttl, now)
            ELSE UNCHANGED <<value, watermark>>
  /\ UNCHANGED <<now, fence>>

Invalidate(buffer, floor) ==
  /\ watermark' = WatermarkAfterInvalidate(watermark, floor, buffer, now)
  /\ reply' = Answer("invalidate", Nil, Nil)
  /\ fence' = Larger(fence, now + buffer)
  /\ UNCHANGED <<now, value>>

-----------------------------------------------------------------------------
\* The environment: time passes and expired keys go, an operator persists
\* the watermark key or overwrites it with something else.
Tick(d) ==
  /\ now + d <= MaxTime
  /\ now' = now + d
  /\ value' = [k \in Keys |->
                 IF value[k] # Nil /\ Alive(value[k], now + d) THEN value[k] ELSE Nil]
  /\ watermark' = IF watermark # Nil /\ Alive(watermark, now + d) THEN watermark ELSE Nil
  /\ UNCHANGED <<reply, fence>>

Persist ==
  /\ watermark # Nil
  /\ watermark' = [watermark EXCEPT !.expiresAt = Persistent]
  /\ UNCHANGED <<now, value, reply, fence>>

\* What an invalidation promised for the time to come is forgotten with its
\* mark; what it has hidden so far stays hidden.
Corrupt ==
  /\ \/ watermark' = [mark |-> Malformed, expiresAt |-> Persistent]
     \/ watermark # Nil /\ watermark' = [watermark EXCEPT !.mark = Malformed]
  /\ fence' = Smaller(fence, now)
  /\ UNCHANGED <<now, value, reply>>

Next ==
  \/ \E k \in Keys : Read(k)
  \/ \E k \in Keys, p \in Payloads, ttl \in Ttls : WriteUntracked(k, p, ttl)
  \/ \E k \in Keys, p \in Payloads, ttl \in Ttls, floor \in Floors :
       WriteTracked(k, p, ttl, floor)
  \/ \E buffer \in Buffers, floor \in Floors : Invalidate(buffer, floor)
  \/ \E d \in 1 .. MaxTime : Tick(d)
  \/ Persist
  \/ Corrupt

Spec == Init /\ [][Next]_vars

-----------------------------------------------------------------------------
\* Every live tracked value has a watermark that lives at least as long, so
\* a later tracked write never recreates the watermark as "0" under a value
\* an invalidation had hidden (redis-scripts.ts:107-117, 149-163).
GuardOutlivesValues ==
  \A k \in Tracked : value[k] # Nil =>
    /\ watermark # Nil
    /\ NoEarlier(watermark.expiresAt, value[k].expiresAt)

\* A tracked value that a read would return was created after the moment
\* every earlier invalidation reached, its future buffer included, however
\* often keys expired, were rewritten, corrupted or repaired in between.
Fenced ==
  \A k \in Tracked : Readable(k) => value[k].created > fence

\* A tracked write is never accepted inside the window of an invalidation:
\* the caller would take the acceptance as leave to fill its local cache
\* (dialcache.ts:526-537).
AcceptedOutsideFence ==
  \A k \in Tracked : reply = Answer("write", k, "stored") => now > fence

-----------------------------------------------------------------------------
\* The slot implements the abstract store.
Store == INSTANCE FencedStore WITH
  content <- [k \in Keys |-> Shown(k)],
  blocked <- watermark # Nil /\ TrackedWriteReply(watermark, now) # "stored"

\* Every script, every expiry and every outside interference with the
\* watermark is a step of the abstract store or none: hidden values stay
\* hidden, a block ends only with time, replies agree with what is stored.
ImplementsFencedStore == Store!Spec
=============================================================================
