------------------------ MODULE WatermarkStoreProofs ------------------------
(***************************************************************************)
(* For any keys, payloads, TTLs, buffers and floors: the invariants of     *)
(* WatermarkStore.  The scripts' arithmetic is dealt with once, in the     *)
(* lemmas about WatermarkAfterWrite and WatermarkAfterInvalidate; the      *)
(* theorems then need only what those lemmas say.                          *)
(***************************************************************************)
EXTENDS WatermarkStore, TLAPS

USE MarginAssumption, SentinelAssumption, SlotAssumption, NilAssumption

Deadlines == Nat \cup {Persistent}

-----------------------------------------------------------------------------
\* PEXPIRE as the scripts use it gives neither the old deadline nor the
\* requested one up.
LEMMA ExtendedDeadlineFacts ==
  ASSUME NEW w, w.expiresAt \in Deadlines, NEW d \in Nat
  PROVE  /\ ExtendedDeadline(w, d) \in Deadlines
         /\ NoEarlier(ExtendedDeadline(w, d), d)
         /\ NoEarlier(ExtendedDeadline(w, d), w.expiresAt)
  BY DEF ExtendedDeadline, NoEarlier, Deadlines

\* Deadlines are ordered.
LEMMA NoEarlierTransitive ==
  ASSUME NEW a \in Deadlines, NEW b \in Deadlines, NEW c \in Deadlines,
         NoEarlier(a, b), NoEarlier(b, c)
  PROVE  NoEarlier(a, c)
  BY DEF NoEarlier, Deadlines

WriteGuarded(w, after, valueDeadline) ==
  /\ after \in Watermarks
  /\ after.mark = IF w = Nil THEN 0 ELSE w.mark
  /\ NoEarlier(after.expiresAt, valueDeadline)
  /\ w # Nil => NoEarlier(after.expiresAt, w.expiresAt)

InvalidateGuarded(w, after, bufferEnd) ==
  /\ after \in Watermarks
  /\ after.mark \in Nat
  /\ after.mark >= bufferEnd
  /\ w # Nil /\ w.mark # Malformed => after.mark >= w.mark
  /\ NoEarlier(after.expiresAt, bufferEnd)
  /\ w # Nil => NoEarlier(after.expiresAt, w.expiresAt)

\* An accepted tracked write leaves a watermark with the old mark, or 0 if
\* there was none, that lives at least as long as the value and as before.
LEMMA WriteGuards ==
  ASSUME NEW w \in Watermarks \cup {Nil}, NEW floor \in Nat, NEW ttl \in Nat,
         NEW t \in Nat
  PROVE  WriteGuarded(w, WatermarkAfterWrite(w, floor, ttl, t), t + ttl)
<1> DEFINE deadline == t + WriteGuardTtl(floor, ttl)
           after == WatermarkAfterWrite(w, floor, ttl, t)
<1>1. deadline \in Nat /\ deadline >= t + ttl
  BY DEF WriteGuardTtl, Larger
<1>2. CASE w = Nil
  BY <1>1, <1>2 DEF WatermarkAfterWrite, Watermarks, NoEarlier, WriteGuarded
<1>3. CASE w # Nil
  <2>1. w \in Watermarks
    BY <1>3
  <2>2. w.expiresAt \in Deadlines
    BY <2>1 DEF Watermarks, Deadlines
  <2>3. /\ ExtendedDeadline(w, deadline) \in Deadlines
        /\ NoEarlier(ExtendedDeadline(w, deadline), deadline)
        /\ NoEarlier(ExtendedDeadline(w, deadline), w.expiresAt)
    BY <1>1, <2>2, ExtendedDeadlineFacts
  <2>4. after = [w EXCEPT !.expiresAt = ExtendedDeadline(w, deadline)]
    BY <1>3 DEF WatermarkAfterWrite
  <2>5. after \in Watermarks /\ after.mark = w.mark
        /\ after.expiresAt = ExtendedDeadline(w, deadline)
    BY <2>1, <2>3, <2>4 DEF Watermarks, Deadlines
  <2>6. NoEarlier(after.expiresAt, t + ttl)
    BY <1>1, <2>3, <2>5 DEF NoEarlier, Deadlines
  <2>7. QED BY <1>3, <2>3, <2>5, <2>6 DEF WriteGuarded
<1>4. QED BY <1>2, <1>3

\* An invalidation leaves a well-formed mark that reaches the buffer and is
\* not lower than before, and a watermark that outlives both the buffer and
\* the watermark it replaces.
LEMMA InvalidateGuards ==
  ASSUME NEW w \in Watermarks \cup {Nil}, NEW floor \in Nat, NEW buffer \in Nat,
         NEW t \in Nat
  PROVE  InvalidateGuarded(w, WatermarkAfterInvalidate(w, floor, buffer, t), t + buffer)
<1> DEFINE mark == MarkAfterInvalidate(w, buffer, t)
           deadline == t + InvalidateGuardTtl(floor, buffer, mark, t)
           after == WatermarkAfterInvalidate(w, floor, buffer, t)
<1>1. /\ mark \in Nat
      /\ mark >= t + buffer
      /\ w # Nil /\ w.mark # Malformed => mark >= w.mark
  <2>1. w # Nil /\ w.mark # Malformed => w.mark \in Nat
    BY DEF Watermarks
  <2>2. QED BY <2>1 DEF MarkAfterInvalidate, Larger
<1>2. deadline \in Nat /\ deadline >= t + buffer
  <2>1. /\ InvalidateGuardTtl(floor, buffer, mark, t) \in Int
        /\ InvalidateGuardTtl(floor, buffer, mark, t) >= buffer
    BY <1>1 DEF InvalidateGuardTtl, Larger
  <2>2. QED BY <2>1
<1>3. CASE w = Nil
  <2>1. after = [mark |-> mark, expiresAt |-> deadline]
    BY <1>3 DEF WatermarkAfterInvalidate
  <2>2. QED BY <1>1, <1>2, <1>3, <2>1 DEF Watermarks, NoEarlier, InvalidateGuarded
<1>4. CASE w # Nil
  <2>1. w.expiresAt \in Deadlines
    BY <1>4 DEF Watermarks, Deadlines
  <2>2. /\ ExtendedDeadline(w, deadline) \in Deadlines
        /\ NoEarlier(ExtendedDeadline(w, deadline), deadline)
        /\ NoEarlier(ExtendedDeadline(w, deadline), w.expiresAt)
    BY <1>2, <2>1, ExtendedDeadlineFacts
  <2>3. after = [mark |-> mark, expiresAt |-> ExtendedDeadline(w, deadline)]
    BY <1>4 DEF WatermarkAfterInvalidate
  <2>4. NoEarlier(after.expiresAt, t + buffer)
    BY <1>2, <2>2, <2>3 DEF NoEarlier, Deadlines
  <2>5. QED BY <1>1, <1>4, <2>2, <2>3, <2>4 DEF Watermarks, Deadlines, InvalidateGuarded
<1>5. QED BY <1>3, <1>4

-----------------------------------------------------------------------------
\* Every step of the slot keeps its variables typed: the scripts store only
\* frames with a finite deadline and watermarks with a well-formed mark.
THEOREM TypeCorrect == Spec => []TypeOK
<1> USE DEF TypeOK
<1>1. Init => TypeOK
  BY DEF Init, Answer, Replies
<1>2. TypeOK /\ [Next]_vars => TypeOK'
  <2> SUFFICES ASSUME TypeOK, [Next]_vars PROVE TypeOK'
    OBVIOUS
  <2>1. ASSUME NEW k \in Keys, Read(k) PROVE TypeOK'
    <3>1. Shown(k) \in Payloads \cup {Nil}
      BY DEF Shown, Readable, TrackedReadable, UntrackedReadable, Frames
    <3>2. QED BY <2>1, <3>1 DEF Read, Answer, Replies
  <2>2. ASSUME NEW k \in Keys, NEW p \in Payloads, NEW ttl \in Ttls, WriteUntracked(k, p, ttl)
        PROVE TypeOK'
    <3>1. NewFrame(p, ttl, now) \in Frames
      BY DEF NewFrame, Frames
    <3>2. QED BY <2>2, <3>1 DEF WriteUntracked, Answer, Replies
  <2>3. ASSUME NEW k \in Keys, NEW p \in Payloads, NEW ttl \in Ttls, NEW floor \in Floors,
               WriteTracked(k, p, ttl, floor)
        PROVE TypeOK'
    <3>1. TrackedWriteReply(watermark, now) \in {"stored", "refused", "error"}
      BY DEF TrackedWriteReply
    <3>2. reply' \in Replies
      BY <2>3, <3>1 DEF WriteTracked, Answer, Replies
    <3>3. NewFrame(p, ttl, now) \in Frames
      BY DEF NewFrame, Frames
    <3>4. WatermarkAfterWrite(watermark, floor, ttl, now) \in Watermarks
      BY WriteGuards DEF WriteGuarded
    <3>5. QED BY <2>3, <3>2, <3>3, <3>4 DEF WriteTracked
  <2>4. ASSUME NEW buffer \in Buffers, NEW floor \in Floors, Invalidate(buffer, floor)
        PROVE TypeOK'
    <3>1. WatermarkAfterInvalidate(watermark, floor, buffer, now) \in Watermarks
      BY InvalidateGuards DEF InvalidateGuarded
    <3>2. QED BY <2>4, <3>1 DEF Invalidate, Answer, Replies, Larger
  <2>5. ASSUME NEW d \in 1 .. MaxTime, Tick(d) PROVE TypeOK'
    BY <2>5 DEF Tick
  <2>6. CASE Persist
    BY <2>6 DEF Persist, Watermarks
  <2>7. CASE Corrupt
    BY <2>7 DEF Corrupt, Watermarks, Smaller
  <2>8. CASE UNCHANGED vars
    BY <2>8 DEF vars
  <2>9. QED
    BY <2>1, <2>2, <2>3, <2>4, <2>5, <2>6, <2>7, <2>8 DEF Next
<1>3. QED BY <1>1, <1>2, PTL DEF Spec

-----------------------------------------------------------------------------
(***************************************************************************)
(* The inductive invariant.  GuardOutlivesValues and Fenced are about      *)
(* values that are present; what makes them last is where the promise of   *)
(* the invalidations is kept at each moment:                               *)
(*   - in the mark, when it has reached the fence;                         *)
(*   - in the clock and the values, when the mark has expired since and    *)
(*     was recreated as 0: then the fence has passed and every value       *)
(*     present is younger;                                                 *)
(*   - in the past, when the mark is malformed: nothing is readable, and   *)
(*     what ends that, a new mark or the expiry of all, passes the fence.  *)
(* And the watermark does not expire before the fence.                     *)
(***************************************************************************)
FenceInMark == watermark.mark >= fence

FencePassed ==
  /\ fence < now
  /\ \A k \in Tracked : value[k] # Nil => value[k].created > fence

FenceHeld ==
  /\ watermark = Nil => fence < now
  /\ watermark # Nil /\ watermark.mark = Malformed => fence <= now
  /\ watermark # Nil /\ watermark.mark # Malformed =>
       /\ FenceInMark \/ FencePassed
       /\ NoEarlier(watermark.expiresAt, fence)

ValuesAlive == \A k \in Keys : value[k] # Nil => value[k].created <= now

IInv ==
  /\ TypeOK
  /\ ValuesAlive
  /\ GuardOutlivesValues
  /\ FenceHeld
  /\ AcceptedOutsideFence

\* What TypeOK says of a slot that holds something.
LEMMA SlotTypes ==
  ASSUME TypeOK
  PROVE  /\ now \in Nat /\ now >= 1 /\ fence \in Nat
         /\ watermark # Nil =>
              /\ watermark \in Watermarks
              /\ watermark.mark # Malformed => watermark.mark \in Nat
              /\ watermark.expiresAt \in Deadlines
         /\ \A k \in Keys : value[k] # Nil =>
              /\ value[k] \in Frames
              /\ value[k].created \in Nat
              /\ value[k].expiresAt \in Nat
  BY DEF TypeOK, Watermarks, Frames, Deadlines

LEMMA InitIInv == Init => IInv
  BY DEF Init, IInv, TypeOK, Answer, Replies, ValuesAlive, GuardOutlivesValues, FenceHeld,
         AcceptedOutsideFence

\* An accepted tracked write keeps the invariant: the value is younger than
\* the fence and its watermark outlives it.
LEMMA WriteTrackedIInv ==
  ASSUME IInv, TypeOK', NEW k \in Keys, NEW p \in Payloads, NEW ttl \in Ttls,
         NEW floor \in Floors, WriteTracked(k, p, ttl, floor)
  PROVE  IInv'
<1> DEFINE r == TrackedWriteReply(watermark, now)
           after == WatermarkAfterWrite(watermark, floor, ttl, now)
<1>0. TypeOK
  BY DEF IInv
<1>1. CASE r # "stored"
  <2>1. UNCHANGED <<now, value, watermark, fence>>
    BY <1>1 DEF WriteTracked
  <2>2. reply' = Answer("write", k, r)
    BY DEF WriteTracked
  <2>3. AcceptedOutsideFence'
    BY <1>1, <2>2 DEF AcceptedOutsideFence, Answer
  <2>4. ValuesAlive' /\ GuardOutlivesValues' /\ FenceHeld'
    BY <2>1 DEF IInv, ValuesAlive, GuardOutlivesValues, FenceHeld, FenceInMark, FencePassed
  <2>5. QED BY <2>3, <2>4 DEF IInv
<1>2. CASE r = "stored"
  <2>1. /\ value' = [value EXCEPT ![k] = NewFrame(p, ttl, now)]
        /\ watermark' = after
        /\ now' = now /\ fence' = fence
    BY <1>2 DEF WriteTracked
  <2>2. watermark # Nil => watermark.mark \in Nat /\ watermark.mark < now
    BY <1>0, <1>2, SlotTypes DEF TrackedWriteReply, MarkBlocks
  <2>3. fence < now
    BY <1>0, <2>2, SlotTypes DEF IInv, FenceHeld, FenceInMark, FencePassed
  <2>4. /\ after \in Watermarks
        /\ after.mark = IF watermark = Nil THEN 0 ELSE watermark.mark
        /\ NoEarlier(after.expiresAt, now + ttl)
        /\ watermark # Nil => NoEarlier(after.expiresAt, watermark.expiresAt)
    <3>1. /\ now \in Nat /\ watermark \in Watermarks \cup {Nil}
          /\ ttl \in Nat /\ floor \in Nat
      BY <1>0 DEF TypeOK
    <3>2. WriteGuarded(watermark, after, now + ttl)
      BY <3>1, WriteGuards
    <3>3. QED BY <3>2 DEF WriteGuarded
  <2>5. after # Nil /\ after.mark \in Nat /\ after.expiresAt \in Deadlines
    BY <2>2, <2>4 DEF Watermarks, Deadlines
  <2>6. value'[k] = NewFrame(p, ttl, now) /\ \A j \in Keys \ {k} : value'[j] = value[j]
    BY <1>0, <2>1 DEF TypeOK
  <2>7. ValuesAlive'
    BY <1>0, <2>1, <2>6, SlotTypes DEF IInv, ValuesAlive, NewFrame
  <2>8. GuardOutlivesValues'
    <3> SUFFICES ASSUME NEW j \in Tracked, value'[j] # Nil
                 PROVE  NoEarlier(after.expiresAt, value'[j].expiresAt)
      BY <2>1, <2>5 DEF GuardOutlivesValues
    <3>1. CASE j = k
      BY <2>4, <2>6, <3>1 DEF NewFrame
    <3>2. CASE j # k
      <4>1. value'[j] = value[j]
        BY <2>6, <3>2
      <4>2. watermark # Nil /\ NoEarlier(watermark.expiresAt, value[j].expiresAt)
        BY <4>1 DEF IInv, GuardOutlivesValues
      <4>3. value[j].expiresAt \in Deadlines /\ watermark.expiresAt \in Deadlines
        BY <1>0, <4>1, <4>2, SlotTypes DEF Deadlines
      <4>4. QED BY <2>4, <2>5, <4>1, <4>2, <4>3, NoEarlierTransitive
    <3>3. QED BY <3>1, <3>2
  <2>9. FenceHeld'
    <3>1. NoEarlier(after.expiresAt, fence)
      <4>1. CASE watermark = Nil
        BY <1>0, <2>3, <2>4, <2>5, SlotTypes DEF NoEarlier, Deadlines
      <4>2. CASE watermark # Nil
        <5>1. NoEarlier(watermark.expiresAt, fence)
          BY <2>2, <4>2 DEF IInv, FenceHeld
        <5>2. fence \in Deadlines /\ watermark.expiresAt \in Deadlines
          BY <1>0, <4>2, SlotTypes DEF Deadlines
        <5>3. QED BY <2>4, <2>5, <4>2, <5>1, <5>2, NoEarlierTransitive
      <4>3. QED BY <4>1, <4>2
    <3>2. after.mark >= fence \/ \A j \in Tracked : value'[j] # Nil => value'[j].created > fence
      <4>1. CASE watermark # Nil /\ FenceInMark
        BY <2>4, <4>1 DEF FenceInMark
      <4>2. CASE watermark # Nil /\ FencePassed
        BY <2>3, <2>6, <4>2 DEF FencePassed, NewFrame
      <4>3. CASE watermark = Nil
        BY <2>3, <2>6, <4>3 DEF IInv, GuardOutlivesValues, NewFrame
      <4>4. QED BY <2>2, <4>1, <4>2, <4>3 DEF IInv, FenceHeld
    <3>3. after.mark # Malformed
      BY <2>5
    <3>4. QED
      BY <2>1, <2>3, <2>5, <3>1, <3>2, <3>3 DEF FenceHeld, FenceInMark, FencePassed
  <2>10. AcceptedOutsideFence'
    BY <2>1, <2>3 DEF AcceptedOutsideFence
  <2>11. QED BY <2>7, <2>8, <2>9, <2>10 DEF IInv
<1>3. QED BY <1>1, <1>2

\* An invalidation keeps the invariant: the new mark reaches the new fence.
LEMMA InvalidateIInv ==
  ASSUME IInv, TypeOK', NEW buffer \in Buffers, NEW floor \in Floors,
         Invalidate(buffer, floor)
  PROVE  IInv'
<1> DEFINE after == WatermarkAfterInvalidate(watermark, floor, buffer, now)
<1>0. TypeOK
  BY DEF IInv
<1>1. /\ watermark' = after
      /\ reply' = Answer("invalidate", Nil, Nil)
      /\ fence' = Larger(fence, now + buffer)
      /\ now' = now /\ value' = value
  BY DEF Invalidate
<1>2. /\ after \in Watermarks
      /\ after.mark \in Nat
      /\ after.mark >= now + buffer
      /\ watermark # Nil /\ watermark.mark # Malformed => after.mark >= watermark.mark
      /\ NoEarlier(after.expiresAt, now + buffer)
      /\ watermark # Nil => NoEarlier(after.expiresAt, watermark.expiresAt)
  <2>1. /\ now \in Nat /\ watermark \in Watermarks \cup {Nil}
        /\ buffer \in Nat /\ floor \in Nat
    BY <1>0 DEF TypeOK
  <2>2. InvalidateGuarded(watermark, after, now + buffer)
    BY <2>1, InvalidateGuards
  <2>3. QED BY <2>2 DEF InvalidateGuarded
<1>3. after # Nil /\ after.mark # Malformed /\ after.expiresAt \in Deadlines
  BY <1>2 DEF Watermarks, Deadlines
<1>4. ValuesAlive'
  BY <1>1 DEF IInv, ValuesAlive
<1>5. GuardOutlivesValues'
  <2> SUFFICES ASSUME NEW j \in Tracked, value[j] # Nil
               PROVE  NoEarlier(after.expiresAt, value[j].expiresAt)
    BY <1>1, <1>3 DEF GuardOutlivesValues
  <2>1. watermark # Nil /\ NoEarlier(watermark.expiresAt, value[j].expiresAt)
    BY DEF IInv, GuardOutlivesValues
  <2>2. value[j].expiresAt \in Deadlines /\ watermark.expiresAt \in Deadlines
    BY <1>0, <2>1, SlotTypes DEF Deadlines
  <2>3. QED BY <1>2, <1>3, <2>1, <2>2, NoEarlierTransitive
<1>6. after.mark >= fence'
  BY <1>0, <1>1, <1>2, SlotTypes DEF IInv, FenceHeld, FenceInMark, FencePassed, Larger
<1>7. NoEarlier(after.expiresAt, fence')
  <2>1. CASE watermark # Nil /\ watermark.mark # Malformed
    <3>1. NoEarlier(watermark.expiresAt, fence)
      BY <2>1 DEF IInv, FenceHeld
    <3>2. fence \in Deadlines /\ watermark.expiresAt \in Deadlines
      BY <1>0, <2>1, SlotTypes DEF Deadlines
    <3>3. NoEarlier(after.expiresAt, fence)
      BY <1>2, <1>3, <2>1, <3>1, <3>2, NoEarlierTransitive
    <3>4. QED BY <1>1, <1>2, <3>3 DEF Larger
  <2>2. CASE ~ (watermark # Nil /\ watermark.mark # Malformed)
    <3>1. fence' = now + buffer
      BY <1>0, <1>1, <2>2, SlotTypes DEF IInv, FenceHeld, Larger
    <3>2. QED BY <1>2, <3>1
  <2>3. QED BY <2>1, <2>2
<1>8. FenceHeld'
  BY <1>1, <1>3, <1>6, <1>7 DEF FenceHeld, FenceInMark
<1>9. AcceptedOutsideFence'
  BY <1>1 DEF AcceptedOutsideFence, Answer
<1>10. QED BY <1>4, <1>5, <1>8, <1>9 DEF IInv

\* Time keeps the invariant: a watermark never expires before the values it
\* guards, nor before the fence.
LEMMA TickIInv ==
  ASSUME IInv, TypeOK', NEW d \in 1 .. MaxTime, Tick(d)
  PROVE  IInv'
<1>0. TypeOK
  BY DEF IInv
<1>1. /\ now' = now + d /\ fence' = fence /\ reply' = reply
      /\ \A k \in Keys : value'[k] # Nil =>
           value'[k] = value[k] /\ value[k] # Nil /\ Alive(value[k], now + d)
      /\ watermark # Nil /\ Alive(watermark, now + d) => watermark' = watermark
      /\ ~ (watermark # Nil /\ Alive(watermark, now + d)) => watermark' = Nil
  BY DEF Tick
<1>2. now' \in Nat /\ now < now'
  BY <1>0, <1>1, SlotTypes
<1>3. ValuesAlive'
  BY <1>0, <1>1, <1>2, SlotTypes DEF IInv, ValuesAlive
<1>4. GuardOutlivesValues'
  <2> SUFFICES ASSUME NEW j \in Tracked, value'[j] # Nil
               PROVE  /\ watermark' # Nil
                      /\ NoEarlier(watermark'.expiresAt, value'[j].expiresAt)
    BY DEF GuardOutlivesValues
  <2>1. value'[j] = value[j] /\ value[j] # Nil /\ Alive(value[j], now + d)
    BY <1>1
  <2>2. watermark # Nil /\ NoEarlier(watermark.expiresAt, value[j].expiresAt)
    BY <2>1 DEF IInv, GuardOutlivesValues
  <2>3. Alive(watermark, now + d)
    BY <1>0, <1>1, <1>2, <2>1, <2>2, SlotTypes DEF Alive, NoEarlier, Deadlines
  <2>4. QED BY <1>1, <2>1, <2>2, <2>3
<1>5. FenceHeld'
  <2>1. CASE watermark' = Nil
    <3>1. CASE watermark = Nil
      BY <1>0, <1>1, <1>2, <2>1, <3>1, SlotTypes DEF IInv, FenceHeld
    <3>2. CASE watermark # Nil /\ watermark.mark = Malformed
      BY <1>0, <1>1, <1>2, <2>1, <3>2, SlotTypes DEF IInv, FenceHeld
    <3>3. CASE watermark # Nil /\ watermark.mark # Malformed
      <4>1. NoEarlier(watermark.expiresAt, fence)
        BY <3>3 DEF IInv, FenceHeld
      <4>2. ~ Alive(watermark, now + d)
        BY <1>1, <2>1, <3>3
      <4>3. fence < now'
        BY <1>0, <1>1, <1>2, <3>3, <4>1, <4>2, SlotTypes DEF Alive, NoEarlier, Deadlines
      <4>4. QED BY <1>1, <2>1, <4>3 DEF FenceHeld
    <3>4. QED BY <3>1, <3>2, <3>3
  <2>2. CASE watermark' # Nil
    <3>1. watermark' = watermark /\ watermark # Nil
      BY <1>1, <2>2
    <3>2. FencePassed => FencePassed'
      BY <1>0, <1>1, <1>2, SlotTypes DEF FencePassed
    <3>3. fence <= now => fence' <= now'
      BY <1>0, <1>1, <1>2, SlotTypes
    <3>4. QED BY <1>1, <3>1, <3>2, <3>3 DEF IInv, FenceHeld, FenceInMark
  <2>3. QED BY <2>1, <2>2
<1>6. AcceptedOutsideFence'
  BY <1>0, <1>1, <1>2, SlotTypes DEF IInv, AcceptedOutsideFence
<1>7. QED BY <1>3, <1>4, <1>5, <1>6 DEF IInv

\* The steps that touch neither tracked values nor what a mark promises.
LEMMA OtherIInv ==
  ASSUME IInv, TypeOK',
         \/ \E k \in Keys : Read(k)
         \/ \E k \in Keys, p \in Payloads, ttl \in Ttls : WriteUntracked(k, p, ttl)
         \/ Persist
         \/ Corrupt
         \/ UNCHANGED vars
  PROVE  IInv'
<1>0. TypeOK
  BY DEF IInv
<1>1. ASSUME NEW k \in Keys, Read(k) PROVE IInv'
  BY <1>1 DEF Read, IInv, ValuesAlive, GuardOutlivesValues, FenceHeld, FenceInMark, FencePassed,
              AcceptedOutsideFence, Answer
<1>2. ASSUME NEW k \in Keys, NEW p \in Payloads, NEW ttl \in Ttls, WriteUntracked(k, p, ttl)
      PROVE  IInv'
  <2>1. /\ UNCHANGED <<now, watermark, fence>>
        /\ \A j \in Tracked : value'[j] = value[j]
    BY <1>0, <1>2 DEF WriteUntracked, TypeOK
  <2>2. ValuesAlive'
    BY <1>0, <1>2, SlotTypes DEF WriteUntracked, IInv, TypeOK, ValuesAlive, NewFrame
  <2>3. AcceptedOutsideFence'
    BY <1>2 DEF WriteUntracked, AcceptedOutsideFence, Answer
  <2>4. QED BY <2>1, <2>2, <2>3 DEF IInv, GuardOutlivesValues, FenceHeld, FenceInMark, FencePassed
<1>3. CASE Persist
  <2>1. /\ watermark # Nil /\ watermark' # Nil
        /\ watermark'.mark = watermark.mark /\ watermark'.expiresAt = Persistent
        /\ UNCHANGED <<now, value, reply, fence>>
    BY <1>0, <1>3, SlotTypes DEF Persist, TypeOK, Watermarks
  <2>2. GuardOutlivesValues' /\ FenceHeld'
    BY <2>1 DEF IInv, GuardOutlivesValues, FenceHeld, FenceInMark, FencePassed, NoEarlier
  <2>3. QED BY <2>1, <2>2 DEF IInv, ValuesAlive, AcceptedOutsideFence
<1>4. CASE Corrupt
  <2>1. /\ watermark' # Nil /\ watermark'.mark = Malformed
        /\ \/ watermark'.expiresAt = Persistent
           \/ watermark # Nil /\ watermark'.expiresAt = watermark.expiresAt
        /\ fence' = Smaller(fence, now) /\ UNCHANGED <<now, value, reply>>
    <3>1. CASE watermark' = [mark |-> Malformed, expiresAt |-> Persistent]
      <4>1. [mark |-> Malformed, expiresAt |-> Persistent] \in Watermarks
        BY DEF Watermarks
      <4>2. QED BY <1>4, <3>1, <4>1 DEF Corrupt
    <3>2. CASE watermark # Nil /\ watermark' = [watermark EXCEPT !.mark = Malformed]
      BY <1>0, <1>4, <3>2, SlotTypes DEF Corrupt, Watermarks
    <3>3. QED BY <1>4, <3>1, <3>2 DEF Corrupt
  <2>2. GuardOutlivesValues' /\ FenceHeld'
    BY <1>0, <2>1, SlotTypes DEF IInv, GuardOutlivesValues, FenceHeld, NoEarlier, Smaller
  <2>3. AcceptedOutsideFence'
    BY <1>0, <2>1, SlotTypes DEF IInv, AcceptedOutsideFence, Smaller
  <2>4. QED BY <2>1, <2>2, <2>3 DEF IInv, ValuesAlive
<1>5. CASE UNCHANGED vars
  BY <1>5 DEF vars, IInv, TypeOK, ValuesAlive, GuardOutlivesValues, FenceHeld, FenceInMark,
              FencePassed, AcceptedOutsideFence
<1>6. QED BY <1>1, <1>2, <1>3, <1>4, <1>5

\* The invariant is kept by every step.
LEMMA NextIInv == IInv /\ TypeOK' /\ [Next]_vars => IInv'
  BY WriteTrackedIInv, InvalidateIInv, TickIInv, OtherIInv DEF Next

\* The inductive invariant holds of every slot.
THEOREM InvariantHolds == Spec => []IInv
  BY InitIInv, NextIInv, TypeCorrect, PTL DEF Spec

\* redis-scripts.ts:107-117, 149-163: a watermark outlives every value it
\* guards, whatever TTLs and floors the writers and invalidators use.
THEOREM GuardsHold == Spec => []GuardOutlivesValues
<1>1. IInv => GuardOutlivesValues
  BY DEF IInv
<1>2. QED BY <1>1, InvariantHolds, PTL

\* redis-scripts.ts:57-75, 103-105: no read returns a tracked value created
\* at or before the moment an earlier invalidation reached.
THEOREM FenceHolds == Spec => []Fenced
<1>1. IInv => Fenced
  <2> SUFFICES ASSUME IInv, NEW k \in Tracked, Readable(k)
               PROVE  value[k].created > fence
    BY DEF Fenced
  <2>1. /\ value[k] # Nil /\ watermark # Nil /\ watermark.mark # Malformed
        /\ ~ (value[k].created <= watermark.mark)
    BY DEF Readable, TrackedReadable, HiddenByMark
  <2>2. FenceInMark \/ FencePassed
    BY <2>1 DEF IInv, FenceHeld
  <2>3. value[k].created \in Nat /\ watermark.mark \in Nat /\ fence \in Nat
    BY <2>1, SlotTypes DEF IInv
  <2>4. QED BY <2>1, <2>2, <2>3 DEF FenceInMark, FencePassed
<1>2. QED BY <1>1, InvariantHolds, PTL

\* redis-scripts.ts:103-105: a tracked write is accepted only once time has
\* passed every earlier invalidation and its buffer.
THEOREM AcceptanceHolds == Spec => []AcceptedOutsideFence
<1>1. IInv => AcceptedOutsideFence
  BY DEF IInv
<1>2. QED BY <1>1, InvariantHolds, PTL

-----------------------------------------------------------------------------
(***************************************************************************)
(* The slot implements FencedStore: content is what a read would show,     *)
(* blocked is whether a tracked write would be turned away.                *)
(***************************************************************************)
Content == [k \in Keys |-> Shown(k)]
Blocked == watermark # Nil /\ TrackedWriteReply(watermark, now) # "stored"

\* What is shown and what is blocked depend on the slot alone.
LEMMA ViewUnchanged ==
  ASSUME UNCHANGED <<now, value, watermark>>
  PROVE  UNCHANGED <<Content, Blocked>>
  BY DEF Content, Blocked, Shown, Readable

\* A tracked value is shown only under a well-formed mark it is younger than.
LEMMA ShownTracked ==
  ASSUME NEW k \in Tracked
  PROVE  IF /\ value[k] # Nil /\ watermark # Nil /\ watermark.mark # Malformed
            /\ ~ (value[k].created <= watermark.mark)
           THEN Shown(k) = value[k].payload
           ELSE Shown(k) = Nil
  BY DEF Shown, Readable, TrackedReadable, HiddenByMark

\* The same of the next state.
LEMMA ShownTrackedNext ==
  ASSUME NEW k \in Tracked
  PROVE  IF /\ value'[k] # Nil /\ watermark' # Nil /\ watermark'.mark # Malformed
            /\ ~ (value'[k].created <= watermark'.mark)
           THEN Shown(k)' = value'[k].payload
           ELSE Shown(k)' = Nil
  BY DEF Shown, Readable, TrackedReadable, HiddenByMark

LEMMA WriteUntrackedSimulates ==
  ASSUME TypeOK, NEW k \in Keys, NEW p \in Payloads, NEW ttl \in Ttls,
         WriteUntracked(k, p, ttl)
  PROVE  Store!Write(k, p)
<1>1. \A j \in Keys \ {k} : value'[j] = value[j]
  BY DEF WriteUntracked, TypeOK
<1>2. value'[k] # Nil /\ value'[k].payload = p
  <2>1. NewFrame(p, ttl, now) \in Frames
    BY DEF NewFrame, Frames, TypeOK
  <2>2. value'[k] = NewFrame(p, ttl, now)
    BY DEF WriteUntracked, TypeOK
  <2>3. QED BY <2>1, <2>2 DEF NewFrame
<1>3. \A j \in Keys \ {k} : Shown(j)' = Shown(j)
  BY <1>1 DEF WriteUntracked, Shown, Readable
<1>4. Shown(k)' = p
  BY <1>2 DEF WriteUntracked, Shown, Readable, UntrackedReadable
<1>5. Content' = [Content EXCEPT ![k] = p]
  BY <1>3, <1>4 DEF Content
<1>6. Blocked' = Blocked
  BY DEF WriteUntracked, Blocked
<1>7. reply' = Store!Answer("write", k, "stored")
  BY DEF WriteUntracked, Answer, Store!Answer
<1>8. k \notin Tracked
  BY DEF WriteUntracked
<1>9. QED
  BY <1>5, <1>6, <1>7, <1>8 DEF Store!Write, Store!WriteEffect, Content, Blocked

LEMMA WriteTrackedSimulates ==
  ASSUME IInv, NEW k \in Keys, NEW p \in Payloads, NEW ttl \in Ttls, NEW floor \in Floors,
         WriteTracked(k, p, ttl, floor)
  PROVE  Store!Write(k, p)
<1> DEFINE r == TrackedWriteReply(watermark, now)
           after == WatermarkAfterWrite(watermark, floor, ttl, now)
<1>0. TypeOK /\ k \in Tracked
  BY DEF IInv, WriteTracked
<1>00. /\ now \in Nat /\ now >= 1 /\ watermark \in Watermarks \cup {Nil}
       /\ ttl \in Nat /\ floor \in Nat
  BY <1>0 DEF TypeOK
<1>1. reply' = Store!Answer("write", k, r)
  BY DEF WriteTracked, Answer, Store!Answer
<1>2. CASE r # "stored"
  <2>1. watermark # Nil /\ r \in {"refused", "error"}
    BY <1>2 DEF TrackedWriteReply
  <2>2. UNCHANGED <<Content, Blocked>>
    BY <1>2, ViewUnchanged DEF WriteTracked
  <2>3. Blocked
    BY <1>2, <2>1 DEF Blocked
  <2>4. QED
    BY <1>0, <1>1, <2>1, <2>2, <2>3 DEF Store!Write, Store!WriteEffect, Content, Blocked
<1>3. CASE r = "stored"
  <2>1. /\ value' = [value EXCEPT ![k] = NewFrame(p, ttl, now)]
        /\ watermark' = after /\ now' = now
    BY <1>3 DEF WriteTracked
  <2>2. watermark # Nil => watermark.mark \in Nat /\ watermark.mark < now
    BY <1>0, <1>3, SlotTypes DEF TrackedWriteReply, MarkBlocks
  <2>3. /\ after # Nil /\ after.mark \in Nat /\ after.mark < now
        /\ after.mark = IF watermark = Nil THEN 0 ELSE watermark.mark
    <3>1. /\ after \in Watermarks
          /\ after.mark = IF watermark = Nil THEN 0 ELSE watermark.mark
          /\ NoEarlier(after.expiresAt, now + ttl)
          /\ watermark # Nil => NoEarlier(after.expiresAt, watermark.expiresAt)
      <4>1. WriteGuarded(watermark, after, now + ttl)
        BY <1>00, WriteGuards
      <4>2. QED BY <4>1 DEF WriteGuarded
    <3>2. after # Nil
      BY <3>1
    <3>3. QED BY <1>00, <2>2, <3>1, <3>2
  <2>4. ~ Blocked /\ ~ Blocked'
    <3>1. watermark'.mark # Malformed /\ ~ (watermark'.mark >= now')
      BY <1>0, <2>1, <2>3, SlotTypes
    <3>2. TrackedWriteReply(watermark, now)' = "stored"
      BY <3>1 DEF TrackedWriteReply, MarkBlocks
    <3>3. QED BY <1>3, <3>2 DEF Blocked
  <2>5. Shown(k)' = p
    <3>1. NewFrame(p, ttl, now) \in Frames
      BY <1>0 DEF NewFrame, Frames, TypeOK
    <3>2. value'[k] = NewFrame(p, ttl, now)
      BY <1>0, <2>1 DEF TypeOK
    <3>3. /\ value'[k] # Nil /\ value'[k].payload = p
          /\ ~ (value'[k].created <= watermark'.mark)
      BY <1>0, <2>1, <2>3, <3>1, <3>2 DEF NewFrame, TypeOK
    <3>4. QED BY <1>0, <2>1, <2>3, <3>3, ShownTrackedNext
  <2>6. ASSUME NEW j \in Keys \ {k} PROVE Shown(j)' = Shown(j)
    <3>1. value'[j] = value[j]
      BY <1>0, <2>1 DEF TypeOK
    <3>2. CASE j \notin Tracked
      BY <3>1, <3>2 DEF Shown, Readable
    <3>3. CASE j \in Tracked /\ watermark = Nil
      <4>1. value[j] = Nil
        BY <3>3 DEF IInv, GuardOutlivesValues
      <4>2. QED BY <3>1, <3>3, <4>1, ShownTracked, ShownTrackedNext
    <3>4. CASE j \in Tracked /\ watermark # Nil
      BY <2>1, <2>2, <2>3, <3>1, <3>4, ShownTracked, ShownTrackedNext
    <3>5. QED BY <3>2, <3>3, <3>4
  <2>7. Content' = [Content EXCEPT ![k] = p]
    BY <2>5, <2>6 DEF Content
  <2>8. QED
    BY <1>1, <1>3, <2>4, <2>7 DEF Store!Write, Store!WriteEffect, Content, Blocked
<1>4. QED BY <1>2, <1>3

\* Nothing tracked stays readable, and writes are turned away.
LEMMA InvalidateSimulates ==
  ASSUME IInv, NEW buffer \in Buffers, NEW floor \in Floors, Invalidate(buffer, floor)
  PROVE  Store!Invalidate
<1> DEFINE after == WatermarkAfterInvalidate(watermark, floor, buffer, now)
<1>0. TypeOK
  BY DEF IInv
<1>1. /\ watermark' = after /\ now' = now /\ value' = value
      /\ reply' = Store!Answer("invalidate", Nil, Nil)
  BY DEF Invalidate, Answer, Store!Answer
<1>2. after # Nil /\ after.mark \in Nat /\ after.mark >= now
  <2>1. /\ after \in Watermarks
        /\ after.mark \in Nat
        /\ after.mark >= now + buffer
        /\ watermark # Nil /\ watermark.mark # Malformed => after.mark >= watermark.mark
        /\ NoEarlier(after.expiresAt, now + buffer)
        /\ watermark # Nil => NoEarlier(after.expiresAt, watermark.expiresAt)
    <3>1. /\ now \in Nat /\ watermark \in Watermarks \cup {Nil}
          /\ buffer \in Nat /\ floor \in Nat
      BY <1>0 DEF TypeOK
    <3>2. InvalidateGuarded(watermark, after, now + buffer)
      BY <3>1, InvalidateGuards
    <3>3. QED BY <3>2 DEF InvalidateGuarded
  <2>2. now \in Nat /\ buffer \in Nat
    BY <1>0 DEF TypeOK
  <2>3. after # Nil
    BY <2>1
  <2>4. QED BY <2>1, <2>2, <2>3
<1>3. Blocked'
  BY <1>1, <1>2 DEF Blocked, TrackedWriteReply, MarkBlocks
<1>4. ASSUME NEW k \in Tracked PROVE Shown(k)' = Nil
  <2>1. value[k] # Nil => value[k].created <= after.mark
    BY <1>0, <1>2, SlotTypes DEF IInv, ValuesAlive
  <2>2. QED BY <1>1, <2>1, ShownTrackedNext
<1>5. ASSUME NEW k \in Keys \ Tracked PROVE Shown(k)' = Shown(k)
  BY <1>1 DEF Shown, Readable
<1>6. Content' = [k \in Keys |-> IF k \in Tracked THEN Nil ELSE Content[k]]
  BY <1>4, <1>5 DEF Content
<1>7. QED
  BY <1>1, <1>3, <1>6 DEF Store!Invalidate, Store!InvalidateEffect, Store!HideTracked, Content, Blocked

\* Time only drops values and only ends a block.
LEMMA TickSimulates ==
  ASSUME IInv, NEW d \in 1 .. MaxTime, Tick(d)
  PROVE  Store!Elapse
<1> DEFINE gone == {k \in Keys : Shown(k)' = Nil}
<1>0. TypeOK
  BY DEF IInv
<1>1. /\ now' = now + d /\ reply' = reply
      /\ \A k \in Keys : value'[k] # Nil => value'[k] = value[k]
      /\ watermark' # Nil => watermark' = watermark
  BY DEF Tick
<1>2. ASSUME NEW k \in Keys, k \notin gone PROVE Shown(k)' = Shown(k)
  <2>1. CASE k \in Tracked
    BY <1>1, <1>2, <2>1, ShownTracked, ShownTrackedNext
  <2>2. CASE k \notin Tracked
    BY <1>1, <1>2, <2>2 DEF Shown, Readable, UntrackedReadable
  <2>3. QED BY <2>1, <2>2
<1>3. Content' = [k \in Keys |-> IF k \in gone THEN Nil ELSE Content[k]]
  BY <1>2 DEF Content
<1>4. Blocked' => Blocked
  BY <1>0, <1>1, SlotTypes DEF Blocked, TrackedWriteReply, MarkBlocks
<1>5. Blocked' \in {Blocked, FALSE}
  BY <1>4 DEF Blocked
<1>6. QED
  BY <1>1, <1>3, <1>5 DEF Store!Elapse, Store!ElapseEffect, Content, Blocked

LEMMA CorruptSimulates ==
  ASSUME IInv, Corrupt
  PROVE  Store!LoseMark
<1>1. watermark' # Nil /\ watermark'.mark = Malformed
  <2>1. CASE watermark' = [mark |-> Malformed, expiresAt |-> Persistent]
    <3>1. [mark |-> Malformed, expiresAt |-> Persistent] \in Watermarks
      BY DEF Watermarks
    <3>2. QED BY <2>1, <3>1
  <2>2. CASE watermark # Nil /\ watermark' = [watermark EXCEPT !.mark = Malformed]
    BY <2>2, SlotTypes DEF IInv, Watermarks
  <2>3. QED BY <2>1, <2>2 DEF Corrupt
<1>2. UNCHANGED <<now, value, reply>>
  BY DEF Corrupt
<1>3. Blocked'
  BY <1>1 DEF Blocked, TrackedWriteReply
<1>4. ASSUME NEW k \in Tracked PROVE Shown(k)' = Nil
  BY <1>1, ShownTrackedNext
<1>5. ASSUME NEW k \in Keys \ Tracked PROVE Shown(k)' = Shown(k)
  BY <1>2 DEF Shown, Readable
<1>6. Content' = [k \in Keys |-> IF k \in Tracked THEN Nil ELSE Content[k]]
  BY <1>4, <1>5 DEF Content
<1>7. QED
  BY <1>2, <1>3, <1>6 DEF Store!LoseMark, Store!HideTracked, Content, Blocked

LEMMA PersistSimulates ==
  ASSUME IInv, Persist
  PROVE  UNCHANGED <<Content, Blocked, reply>>
<1>1. /\ watermark # Nil /\ watermark' # Nil /\ watermark'.mark = watermark.mark
      /\ UNCHANGED <<now, value, reply>>
  BY SlotTypes DEF Persist, IInv, Watermarks
<1>2. \A k \in Keys : Shown(k)' = Shown(k)
  BY <1>1 DEF Shown, Readable, TrackedReadable, UntrackedReadable
<1>3. QED BY <1>1, <1>2 DEF Content, Blocked, TrackedWriteReply

\* redis-scripts.ts as a whole: every behaviour of a slot is one of the
\* abstract store.  A value an invalidation hid never becomes readable
\* again, whichever way expiry, rewrites and repairs of the watermark are
\* interleaved with the invalidations.
THEOREM Refinement == Spec => ImplementsFencedStore
<1>1. Init => Store!Init
  BY DEF Init, Answer, Store!Init, Store!StoreInit, Store!Answer, Shown, Readable,
         TrackedReadable, UntrackedReadable
<1>2. IInv /\ [Next]_vars => [Store!Next]_<<Content, Blocked, reply>>
  <2> SUFFICES ASSUME IInv, [Next]_vars
               PROVE  [Store!Next]_<<Content, Blocked, reply>>
    OBVIOUS
  <2>1. ASSUME NEW k \in Keys, Read(k) PROVE Store!Read(k)
    <3>1. UNCHANGED <<Content, Blocked>>
      BY <2>1, ViewUnchanged DEF Read
    <3>2. reply' = Store!Answer("read", k, Content[k])
      BY <2>1 DEF Read, Answer, Store!Answer, Content
    <3>3. QED BY <3>1, <3>2 DEF Store!Read, Store!storeVars, Content, Blocked
  <2>2. ASSUME UNCHANGED vars PROVE UNCHANGED <<Content, Blocked, reply>>
    BY <2>2, ViewUnchanged DEF vars
  <2>3. QED
    BY <2>1, <2>2, WriteUntrackedSimulates, WriteTrackedSimulates, InvalidateSimulates,
       TickSimulates, CorruptSimulates, PersistSimulates DEF Next, Store!Next, IInv
<1>3. Spec => [][Store!Next]_<<Content, Blocked, reply>>
  BY <1>2, InvariantHolds, PTL DEF Spec
<1>4. QED
  BY <1>1, <1>3, PTL DEF Spec, ImplementsFencedStore, Store!Spec, Content, Blocked
=============================================================================
