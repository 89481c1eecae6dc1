---------------------------- MODULE RedisScripts ----------------------------
(***************************************************************************)
(* What the five Lua scripts of src/internal/redis-scripts.ts compute.     *)
(* A script runs atomically in Redis, at one reading of the Redis clock,   *)
(* so each is a function of the keys it reads, of its arguments and of     *)
(* `now`.                                                                  *)
(*                                                                         *)
(* A value key holds Nil or a frame                                        *)
(*     [payload, created, expiresAt]                                       *)
(* and the watermark key of a (keyType, id) holds Nil or                   *)
(*     [mark, expiresAt]                                                   *)
(* where mark is Malformed when parse_watermark rejects the stored text    *)
(* and expiresAt is Persistent when PTTL answers -1.  Times are            *)
(* milliseconds; PEXPIRE keeps a key up to and including its deadline.     *)
(***************************************************************************)
EXTENDS Integers

CONSTANTS Nil,          \* GET of an absent key
          Malformed,    \* the mark of a watermark parse_watermark rejects
          Persistent,   \* the deadline of a key without expiry
          Margin        \* WATERMARK_TTL_MARGIN_MS

ASSUME MarginAssumption == Margin \in Nat
ASSUME SentinelAssumption == Malformed \notin Nat /\ Persistent \notin Nat

Larger(a, b) == IF a >= b THEN a ELSE b

\* A deadline that has not passed: Redis drops a key once now > deadline.
Alive(entry, now) == entry.expiresAt = Persistent \/ now <= entry.expiresAt

\* The first deadline is no earlier than the second.
NoEarlier(d, e) == d = Persistent \/ (e # Persistent /\ d >= e)

-----------------------------------------------------------------------------
\* READ_CACHE_SCRIPT answers with the payload of any frame; a value in
\* another format counts as absent.
UntrackedReadable(frame) == frame # Nil

\* READ_TRACKED_CACHE_SCRIPT: without a well-formed watermark, or with a
\* frame created at or before the mark, the read is a miss.
HiddenByMarkStrict(frame, mark) == frame.created < mark   \* faulty variant
HiddenByMark(frame, mark) == frame.created <= mark

TrackedReadable(frame, watermark) ==
  /\ frame # Nil
  /\ watermark # Nil
  /\ watermark.mark # Malformed
  /\ ~ HiddenByMark(frame, watermark.mark)

-----------------------------------------------------------------------------
\* WRITE_TRACKED_CACHE_SCRIPT refuses while the mark has not been passed.
\* An absent watermark counts as 0.
MarkBlocksStrict(mark, now) == mark > now                 \* faulty variant
MarkBlocks(mark, now) == mark >= now

TrackedWriteReply(watermark, now) ==
  CASE watermark # Nil /\ watermark.mark = Malformed -> "error"
    [] watermark # Nil /\ watermark.mark # Malformed
         /\ MarkBlocks(watermark.mark, now)          -> "refused"
    [] OTHER                                         -> "stored"

\* Faulty variant of NewFrame: SET without PX.
NewFrameKept(payload, cacheTtl, now) ==
  [payload |-> payload, created |-> now, expiresAt |-> Persistent]

\* The frame either write script stores.
NewFrame(payload, cacheTtl, now) ==
  [payload |-> payload, created |-> now, expiresAt |-> now + cacheTtl]

\* The watermark must outlive the value it guards.  Faulty variants: without
\* the value's own time to live, or the margin.
WriteGuardTtlFloor(floor, cacheTtl) == floor
WriteGuardTtlBare(floor, cacheTtl) == Larger(floor, cacheTtl)
WriteGuardTtl(floor, cacheTtl) == Larger(floor, cacheTtl + Margin)

\* PEXPIRE only ever extends; a persistent key stays persistent.
ExtendedDeadlineAlways(watermark, deadline) == deadline   \* faulty variant
ExtendedDeadline(watermark, deadline) ==
  IF NoEarlier(watermark.expiresAt, deadline) THEN watermark.expiresAt ELSE deadline

WatermarkAfterWrite(watermark, floor, cacheTtl, now) ==
  LET deadline == now + WriteGuardTtl(floor, cacheTtl) IN
  IF watermark = Nil
    THEN [mark |-> 0, expiresAt |-> deadline]
    ELSE [watermark EXCEPT !.expiresAt = ExtendedDeadline(watermark, deadline)]

-----------------------------------------------------------------------------
\* INVALIDATE_CACHE_SCRIPT never lowers a well-formed mark and repairs a
\* malformed one.
MarkAfterInvalidate(watermark, buffer, now) ==
  IF watermark # Nil /\ watermark.mark # Malformed
    THEN Larger(watermark.mark, now + buffer)
    ELSE now + buffer

\* Its time to live covers the floor, the buffer and the mark itself.
InvalidateGuardTtl(floor, buffer, mark, now) ==
  Larger(floor, Larger(buffer + Margin, mark - now + Margin))

WatermarkAfterInvalidate(watermark, floor, buffer, now) ==
  LET mark     == MarkAfterInvalidate(watermark, buffer, now)
      deadline == now + InvalidateGuardTtl(floor, buffer, mark, now)
  IN  [mark |-> mark,
       expiresAt |-> IF watermark = Nil THEN deadline
                     ELSE ExtendedDeadline(watermark, deadline)]
=============================================================================
