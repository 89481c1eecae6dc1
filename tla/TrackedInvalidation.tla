------------------------- MODULE TrackedInvalidation ------------------------
(***************************************************************************)
(* Invalidation end to end: a source of truth that mutates, fallbacks that *)
(* read it, the tracked writes that bring what they read to Redis, and     *)
(* invalidateRemote after a mutation, for one (keyType, id) with several   *)
(* value keys.  Redis may fail over to a primary whose clock differs by at *)
(* most Skew, so its TIME can go backwards; it keeps an expired key until  *)
(* it gets round to deleting it, and a slower clock then finds the key     *)
(* alive again.                                                            *)
(*                                                                         *)
(* The application keeps its side of src/dialcache.ts:366-395: the buffer  *)
(* covers Skew, the lag with which the source shows a mutation and the     *)
(* time a fallback's value can take to reach Redis.  Replication loses     *)
(* nothing at a failover.                                                  *)
(***************************************************************************)
EXTENDS RedisScripts

CONSTANTS Keys,        \* tracked value keys of the slot
          Fills,       \* fallbacks at work
          Offsets,     \* clocks of the nodes eligible for primary, less the real time
          Skew,        \* how far two of them may differ
          Lag,         \* the source may hide a mutation for so long
          Work,        \* from reading the source to the write's execution
          Ttls, Buffers, Floors,
          MaxVersion,  \* bound on the mutations
          MaxTime      \* bound on the real time, for model checking

ASSUME TimingAssumption ==
  /\ Offsets \subseteq Nat
  /\ Skew \in Nat /\ Lag \in Nat /\ Work \in Nat
  /\ \A a, b \in Offsets : a <= b + Skew
  /\ Skew <= Margin
  /\ Ttls \subseteq Nat \ {0}
  /\ Floors \subseteq Nat \ {0}
  /\ Buffers \subseteq Nat
  /\ \A b \in Buffers : b >= Skew + Lag + Work
  /\ MaxVersion \in Nat /\ MaxTime \in Nat

VARIABLES real,        \* the real time
          offset,      \* of the current primary's clock
          value,       \* value keys: Nil or a frame whose payload is a version
          watermark,   \* watermark key: Nil or [mark, expiresAt]
          committed,   \* when each version of the source was committed
          version,     \* the source's current version
          fill,        \* Nil, or what a fallback saw and when
          invalidated  \* history: the version current at the last invalidation

vars == <<real, offset, value, watermark, committed, version, fill, invalidated>>

Versions == 0 .. MaxVersion

\* A frame of this module, which holds a version.
Frames == [payload : Versions, created : Nat, expiresAt : Nat]

ASSUME NoFrameAssumption ==
  /\ Nil \notin Frames
  /\ Nil \notin [mark : Nat, expiresAt : Nat]
  /\ Nil \notin [saw : Versions, readAt : Nat]

TypeOK ==
  /\ real \in Nat \ {0}
  /\ offset \in Offsets
  /\ value \in [Keys -> Frames \cup {Nil}]
  /\ watermark \in [mark : Nat, expiresAt : Nat] \cup {Nil}
  /\ committed \in [Versions -> Nat]
  /\ version \in Versions
  /\ fill \in [Fills -> [saw : Versions, readAt : Nat] \cup {Nil}]
  /\ invalidated \in Versions

\* TIME of the current primary.
clock == real + offset

\* What GET finds: a key past its deadline is gone, deleted or not.
Live(entry) == IF entry # Nil /\ Alive(entry, clock) THEN entry ELSE Nil

Init ==
  /\ real = 1
  /\ offset \in Offsets
  /\ value = [k \in Keys |-> Nil]
  /\ watermark = Nil
  /\ committed = [v \in Versions |-> 0]
  /\ version = 0
  /\ fill = [f \in Fills |-> Nil]
  /\ invalidated = 0

-----------------------------------------------------------------------------
\* The source of truth and the fallbacks reading it.
Mutate ==
  /\ version < MaxVersion
  /\ version' = version + 1
  /\ committed' = [committed EXCEPT ![version + 1] = real]
  /\ UNCHANGED <<real, offset, value, watermark, fill, invalidated>>

\* A mutation older than Lag shows.
Visible(v) == \A w \in Versions : w <= version /\ committed[w] + Lag < real => w <= v

ReadSource(f, v) ==
  /\ fill[f] = Nil
  /\ v <= version
  /\ Visible(v)
  /\ fill' = [fill EXCEPT ![f] = [saw |-> v, readAt |-> real]]
  /\ UNCHANGED <<real, offset, value, watermark, committed, version, invalidated>>

\* A fallback that fails or times out, or a write that is not dispatched.
Abandon(f) ==
  /\ fill[f] # Nil
  /\ fill' = [fill EXCEPT ![f] = Nil]
  /\ UNCHANGED <<real, offset, value, watermark, committed, version, invalidated>>

-----------------------------------------------------------------------------
\* The tracked write brings what the fallback saw to Redis, in time.
Publish(f, k, ttl, floor) ==
  /\ fill[f] # Nil
  /\ real <= fill[f].readAt + Work
  /\ fill' = [fill EXCEPT ![f] = Nil]
  /\ IF TrackedWriteReply(Live(watermark), clock) = "stored"
       THEN /\ value' = [value EXCEPT ![k] = NewFrame(fill[f].saw, ttl, clock)]
            /\ watermark' = WatermarkAfterWrite(Live(watermark), floor, ttl, clock)
       ELSE UNCHANGED <<value, watermark>>
  /\ UNCHANGED <<real, offset, committed, version, invalidated>>

\* invalidateRemote, called after every mutation made so far has committed.
InvalidateRemote(buffer, floor) ==
  /\ watermark' = WatermarkAfterInvalidate(Live(watermark), floor, buffer, clock)
  /\ invalidated' = version
  /\ UNCHANGED <<real, offset, value, committed, version, fill>>

-----------------------------------------------------------------------------
Tick(d) ==
  /\ real + d <= MaxTime
  /\ real' = real + d
  /\ UNCHANGED <<offset, value, watermark, committed, version, fill, invalidated>>

Failover(o) ==
  /\ offset' = o
  /\ UNCHANGED <<real, value, watermark, committed, version, fill, invalidated>>

\* Redis deletes what has expired when it pleases.
ExpireValue(k) ==
  /\ value[k] # Nil /\ ~ Alive(value[k], clock)
  /\ value' = [value EXCEPT ![k] = Nil]
  /\ UNCHANGED <<real, offset, watermark, committed, version, fill, invalidated>>

ExpireWatermark ==
  /\ watermark # Nil /\ ~ Alive(watermark, clock)
  /\ watermark' = Nil
  /\ UNCHANGED <<real, offset, value, committed, version, fill, invalidated>>

Next ==
  \/ Mutate
  \/ \E f \in Fills, v \in Versions : ReadSource(f, v)
  \/ \E f \in Fills : Abandon(f)
  \/ \E f \in Fills, k \in Keys, ttl \in Ttls, floor \in Floors : Publish(f, k, ttl, floor)
  \/ \E buffer \in Buffers, floor \in Floors : InvalidateRemote(buffer, floor)
  \/ \E d \in 1 .. MaxTime : Tick(d)
  \/ \E o \in Offsets : Failover(o)
  \/ \E k \in Keys : ExpireValue(k)
  \/ ExpireWatermark

Spec == Init /\ [][Next]_vars

-----------------------------------------------------------------------------
Readable(k) == TrackedReadable(Live(value[k]), Live(watermark))

\* Once an invalidation has executed, no tracked read is a hit on a version
\* older than the one it was made for: neither a value cached before it, nor
\* one a slow fallback brings after it, nor one that a failover to a slower
\* clock or the loss of the watermark would bring back.
NoStaleHit ==
  \A k \in Keys : Readable(k) => value[k].payload >= invalidated

\* The tracked write does not accept a version older than the last
\* invalidation either: its acceptance is what lets DialCache fill the local
\* cache (dialcache.ts:526-537), which no watermark guards afterwards.
NoStaleAcceptance ==
  \A f \in Fills :
    /\ fill[f] # Nil
    /\ real <= fill[f].readAt + Work
    /\ TrackedWriteReply(Live(watermark), clock) = "stored"
    => fill[f].saw >= invalidated
=============================================================================
