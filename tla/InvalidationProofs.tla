------------------------- MODULE InvalidationProofs -------------------------
(***************************************************************************)
(* Proofs about TrackedInvalidation and InstanceCaches: that a sized       *)
(* invalidation buffer keeps stale values out of Redis, for any number of  *)
(* keys, fallbacks and mutations, any time to live, any lag and work time, *)
(* and clocks that differ by no more than the watermark margin; and that   *)
(* outdated versions leave the local caches in time, for any number of     *)
(* instances and any delivery time and TTL.                                *)
(*                                                                         *)
(* The first has two halves.  A fallback that saw an outdated version      *)
(* read the source no later than Lag after the mutation, so its write      *)
(* executes while the watermark, which outlives its own mark, still        *)
(* blocks (WindowHolds).  A value stored before the invalidation stays     *)
(* behind the mark for as long as any clock may find the value alive,      *)
(* because the watermark outlives it by Margin (ValuesGuarded,             *)
(* StaleHidden).                                                           *)
(*                                                                         *)
(* The second rests on it.  An answer under way that is outdated was given *)
(* before the invalidation that outdated it (AnswersInTime), because Redis *)
(* itself gives no outdated answer after it; and a loader that missed a    *)
(* version read its source soon after the commit, which no invalidation    *)
(* precedes (CommittedFirst).                                              *)
(***************************************************************************)
EXTENDS InstanceCaches, TLAPS

Marks == [mark : Nat, expiresAt : Nat]

\* Expired for good: on every clock that Redis may come to go by.
Dead(k) == \A o \in Offsets : real + o > value[k].expiresAt

History ==
  /\ invalidated <= version
  /\ \A v \in Versions : committed[v] <= real
  /\ \A f \in Fills : fill[f] # Nil => fill[f].readAt <= real
  /\ \A k \in Keys : value[k] # Nil => \E o \in Offsets : value[k].created <= real + o

\* A fallback that missed a version read the source soon after its commit.
ReadsInTime ==
  \A f \in Fills : fill[f] # Nil =>
    \A w \in Versions : w <= version /\ fill[f].saw < w => fill[f].readAt <= committed[w] + Lag

\* While such a fallback can still write, the watermark is there to refuse.
WindowHolds ==
  LET end == committed[invalidated] + Lag + Work IN
  invalidated > 0 /\ real <= end =>
    /\ watermark # Nil
    /\ \A o \in Offsets : watermark.mark >= end + o /\ watermark.expiresAt >= end + o

ValuesGuarded ==
  \A k \in Keys : value[k] # Nil =>
    \/ Dead(k)
    \/ watermark # Nil /\ watermark.expiresAt >= value[k].expiresAt + Margin

StaleHidden ==
  \A k \in Keys : value[k] # Nil /\ value[k].payload < invalidated =>
    \/ Dead(k)
    \/ watermark # Nil /\ watermark.mark >= value[k].created

\* The inductive invariant.
IInv == TypeOK /\ History /\ ReadsInTime /\ WindowHolds /\ ValuesGuarded /\ StaleHidden

-----------------------------------------------------------------------------
LEMMA Constants ==
  /\ Margin \in Nat /\ Skew \in Nat /\ Lag \in Nat /\ Work \in Nat
  /\ Skew <= Margin
  /\ Malformed \notin Nat /\ Persistent \notin Nat
  /\ Nil \notin Marks
  /\ Offsets \subseteq Nat
  /\ \A a, b \in Offsets : a <= b + Skew
  BY TimingAssumption, MarginAssumption, SentinelAssumption, NoFrameAssumption DEF Marks

\* m follows the watermark w when a value with this ttl is written at t ...
OutlivesWrite(m, w, ttl, t) ==
  /\ m \in Marks /\ m # Nil
  /\ m.expiresAt >= t + ttl + Margin
  /\ w # Nil => m.mark = w.mark /\ m.expiresAt >= w.expiresAt

\* ... or when an invalidation with this buffer executes at t.
Covers(m, w, buffer, t) ==
  /\ m \in Marks /\ m # Nil
  /\ m.mark >= t + buffer
  /\ m.expiresAt >= m.mark
  /\ w # Nil => m.mark >= w.mark /\ m.expiresAt >= w.expiresAt

\* The watermark a tracked write leaves keeps its mark, and outlives both the
\* value written and what it guarded before.
LEMMA MarkWritten ==
  ASSUME NEW w \in Marks \cup {Nil}, NEW floor \in Nat, NEW ttl \in Nat, NEW t \in Nat
  PROVE  OutlivesWrite(WatermarkAfterWrite(w, floor, ttl, t), w, ttl, t)
<1> DEFINE m == WatermarkAfterWrite(w, floor, ttl, t)
           d == t + WriteGuardTtl(floor, ttl)
<1> USE DEF OutlivesWrite
<1>1. d \in Nat /\ d >= t + ttl + Margin
  BY Constants DEF WriteGuardTtl, Larger
<1> HIDE DEF d
<1>2. CASE w = Nil
  <2>1. m = [mark |-> 0, expiresAt |-> d]
    BY <1>2 DEF WatermarkAfterWrite, d
  <2> QED
    BY <1>1, <1>2, <2>1, Constants DEF Marks
<1>3. CASE w # Nil
  <2>1. m = [w EXCEPT !.expiresAt = ExtendedDeadline(w, d)]
    BY <1>3 DEF WatermarkAfterWrite, d
  <2>2. w \in Marks
    BY <1>3
  <2>3. /\ ExtendedDeadline(w, d) \in Nat
        /\ ExtendedDeadline(w, d) >= d
        /\ ExtendedDeadline(w, d) >= w.expiresAt
    BY <1>1, <2>2, Constants DEF ExtendedDeadline, NoEarlier, Marks
  <2> QED
    BY <1>1, <2>1, <2>2, <2>3, Constants DEF Marks
<1> QED
  BY <1>2, <1>3

\* The watermark an invalidation leaves reaches past its buffer, outlives its
\* mark, and never falls behind what was there.
LEMMA MarkInvalidated ==
  ASSUME NEW w \in Marks \cup {Nil}, NEW floor \in Nat, NEW buffer \in Nat, NEW t \in Nat
  PROVE  Covers(WatermarkAfterInvalidate(w, floor, buffer, t), w, buffer, t)
<1> DEFINE m == WatermarkAfterInvalidate(w, floor, buffer, t)
           a == MarkAfterInvalidate(w, buffer, t)
           d == t + InvalidateGuardTtl(floor, buffer, a, t)
<1> USE DEF Covers
<1>1. a \in Nat /\ a >= t + buffer /\ (w # Nil => a >= w.mark)
  BY Constants DEF MarkAfterInvalidate, Larger, Marks
<1> HIDE DEF a
<1>2. d \in Nat /\ d >= a
  BY <1>1, Constants DEF InvalidateGuardTtl, Larger
<1> HIDE DEF d
<1>3. m = [mark |-> a, expiresAt |-> IF w = Nil THEN d ELSE ExtendedDeadline(w, d)]
  BY DEF WatermarkAfterInvalidate, a, d
<1>4. CASE w = Nil
  BY <1>1, <1>2, <1>3, <1>4, Constants DEF Marks
<1>5. CASE w # Nil
  <2>1. w \in Marks
    BY <1>5
  <2>2. /\ ExtendedDeadline(w, d) \in Nat
        /\ ExtendedDeadline(w, d) >= d
        /\ ExtendedDeadline(w, d) >= w.expiresAt
    BY <1>2, <2>1, Constants DEF ExtendedDeadline, NoEarlier, Marks
  <2> QED
    BY <1>1, <1>2, <1>3, <1>5, <2>2, Constants DEF Marks
<1> QED
  BY <1>4, <1>5

-----------------------------------------------------------------------------
\* What GET finds of the watermark.
LEMMA LiveWatermark ==
  ASSUME TypeOK
  PROVE  /\ clock \in Nat
         /\ Live(watermark) \in Marks \cup {Nil}
         /\ Live(watermark) # Nil =>
              /\ Live(watermark) = watermark
              /\ clock <= watermark.expiresAt
         /\ Live(watermark) = Nil /\ watermark # Nil => clock > watermark.expiresAt
<1>1. real \in Nat /\ offset \in Nat /\ watermark \in Marks \cup {Nil}
  BY Constants DEF TypeOK, Marks
<1>2. clock \in Nat
  BY <1>1 DEF clock
<1>3. watermark # Nil => (Alive(watermark, clock) <=> clock <= watermark.expiresAt)
                         /\ watermark.expiresAt \in Nat
  BY <1>1, Constants DEF Alive, Marks
<1> QED
  BY <1>1, <1>2, <1>3 DEF Live

\* Without a live watermark every value it guarded has expired for good,
\* because it outlives them by more than two clocks can differ.
LEMMA LostMarkKills ==
  ASSUME TypeOK, ValuesGuarded, Live(watermark) = Nil, NEW k \in Keys, value[k] # Nil
  PROVE  Dead(k)
<1>1. CASE ~ Dead(k)
  <2>1. watermark # Nil /\ watermark.expiresAt >= value[k].expiresAt + Margin
    BY <1>1 DEF ValuesGuarded
  <2>2. clock > watermark.expiresAt
    BY <2>1, LiveWatermark
  <2>3. value[k].expiresAt \in Nat /\ watermark.expiresAt \in Nat
    BY <2>1 DEF TypeOK, Frames
  <2>4. ASSUME NEW o \in Offsets
        PROVE  real + o > value[k].expiresAt
    <3>1. offset \in Nat /\ o \in Nat /\ real \in Nat /\ offset <= o + Skew
      BY Constants DEF TypeOK
    <3> QED
      BY <2>1, <2>2, <2>3, <3>1, Constants DEF clock
  <2> QED
    BY <2>4 DEF Dead
<1> QED
  BY <1>1

\* A tracked write that Redis stores brings no outdated version.
LEMMA AcceptedIsFresh ==
  ASSUME IInv, NEW f \in Fills, fill[f] # Nil, real <= fill[f].readAt + Work,
         TrackedWriteReply(Live(watermark), clock) = "stored"
  PROVE  fill[f].saw >= invalidated
<1> DEFINE end == committed[invalidated] + Lag + Work
<1>0. /\ fill[f].saw \in Nat /\ fill[f].readAt \in Nat /\ invalidated \in Nat
      /\ invalidated \in Versions /\ committed[invalidated] \in Nat /\ real \in Nat
      /\ offset \in Offsets /\ offset \in Nat
  BY Constants DEF IInv, TypeOK, Versions
<1>1. CASE fill[f].saw < invalidated
  <2>1. fill[f].readAt <= committed[invalidated] + Lag
    BY <1>0, <1>1 DEF IInv, History, ReadsInTime
  <2>2. invalidated > 0 /\ real <= end
    BY <1>0, <1>1, <2>1, Constants
  <2>3. watermark # Nil /\ watermark.mark >= end + offset /\ watermark.expiresAt >= end + offset
    BY <1>0, <2>2 DEF IInv, WindowHolds
  <2>4. watermark \in Marks /\ watermark.mark \in Nat /\ watermark.expiresAt \in Nat
    BY <2>3 DEF IInv, TypeOK, Marks
  <2>5. clock <= watermark.expiresAt /\ clock <= watermark.mark
    BY <1>0, <2>2, <2>3, <2>4, Constants DEF clock
  <2>6. Live(watermark) = watermark
    BY <1>0, <2>3, <2>4, <2>5, LiveWatermark DEF IInv, clock
  <2>7. watermark.mark # Malformed /\ MarkBlocks(watermark.mark, clock)
    BY <2>4, <2>5, Constants DEF MarkBlocks
  <2>8. TrackedWriteReply(watermark, clock) # "stored"
    BY <2>3, <2>7 DEF TrackedWriteReply
  <2> QED
    BY <2>6, <2>8
<1> QED
  BY <1>0, <1>1

\* The two safety properties follow from the inductive invariant.
LEMMA NoStaleHitFollows == IInv => NoStaleHit
<1> SUFFICES ASSUME IInv, NEW k \in Keys, Readable(k)
             PROVE  value[k].payload >= invalidated
  BY DEF NoStaleHit
<1>1. Live(value[k]) # Nil /\ Live(watermark) # Nil /\ Live(value[k]) = value[k]
      /\ value[k] # Nil /\ Alive(value[k], clock)
      /\ ~ HiddenByMark(Live(value[k]), Live(watermark).mark)
  BY DEF Readable, TrackedReadable, Live
<1>2. Live(watermark) = watermark
  BY <1>1, LiveWatermark DEF IInv
<1>3. /\ value[k] \in Frames /\ watermark \in Marks
      /\ value[k].created \in Nat /\ value[k].expiresAt \in Nat /\ value[k].payload \in Nat
      /\ watermark.mark \in Nat /\ invalidated \in Nat
      /\ real \in Nat /\ offset \in Nat /\ offset \in Offsets
  BY <1>1, <1>2, Constants DEF IInv, TypeOK, Frames, Marks, Versions
<1>4. ~ Dead(k)
  BY <1>1, <1>3, Constants DEF Dead, Alive, clock
<1>5. value[k].created > watermark.mark
  BY <1>1, <1>2, <1>3 DEF HiddenByMark
<1> QED
  BY <1>1, <1>3, <1>4, <1>5 DEF IInv, StaleHidden

LEMMA NoStaleAcceptanceFollows == IInv => NoStaleAcceptance
  BY AcceptedIsFresh DEF NoStaleAcceptance

-----------------------------------------------------------------------------
LEMMA InitHolds == Init => IInv
<1> SUFFICES ASSUME Init PROVE IInv
  OBVIOUS
<1>1. TypeOK
  BY TimingAssumption DEF Init, TypeOK, Versions
<1>2. History
  BY Constants, TimingAssumption DEF Init, History, Versions
<1>3. ReadsInTime /\ WindowHolds /\ ValuesGuarded /\ StaleHidden
  BY DEF Init, ReadsInTime, WindowHolds, ValuesGuarded, StaleHidden
<1> QED
  BY <1>1, <1>2, <1>3 DEF IInv

LEMMA MutateHolds == IInv /\ Mutate => IInv'
<1> SUFFICES ASSUME IInv, Mutate PROVE IInv'
  OBVIOUS
<1> USE DEF IInv
<1>0. /\ version' = version + 1 /\ version' \in Versions /\ version \in Nat
      /\ \A v \in Versions : committed'[v] = IF v = version' THEN real ELSE committed[v]
      /\ Versions \subseteq Nat
  BY TimingAssumption DEF Mutate, TypeOK, Versions
<1>1. TypeOK'
  BY <1>0 DEF Mutate, TypeOK, Frames
<1>2. History'
  <2>1. invalidated' <= version'
    BY <1>0 DEF Mutate, History, TypeOK
  <2>2. \A v \in Versions : committed'[v] <= real
    BY <1>0 DEF History, TypeOK
  <2> QED
    BY <2>1, <2>2 DEF Mutate, History
<1>3. ReadsInTime'
  <2> SUFFICES ASSUME NEW f \in Fills, fill[f] # Nil,
                      NEW w \in Versions, w <= version', fill[f].saw < w
               PROVE  fill[f].readAt <= committed'[w] + Lag
    BY DEF ReadsInTime, Mutate
  <2>1. fill[f].readAt \in Nat /\ fill[f].readAt <= real /\ real \in Nat
    BY DEF History, TypeOK
  <2>2. CASE w = version'
    BY <1>0, <2>1, <2>2, Constants
  <2>3. CASE w # version'
    BY <1>0, <2>3 DEF ReadsInTime
  <2> QED
    BY <2>2, <2>3
<1>4. WindowHolds'
  <2>1. committed'[invalidated] = committed[invalidated]
    BY <1>0 DEF History, TypeOK
  <2> QED
    BY <2>1 DEF Mutate, WindowHolds
<1>5. ValuesGuarded' /\ StaleHidden'
  BY DEF Mutate, ValuesGuarded, StaleHidden, Dead
<1> QED
  BY <1>1, <1>2, <1>3, <1>4, <1>5

LEMMA ReadSourceHolds ==
  ASSUME IInv, NEW f \in Fills, NEW v \in Versions, ReadSource(f, v)
  PROVE  IInv'
<1> USE DEF IInv
<1>0. \A g \in Fills : fill'[g] = IF g = f THEN [saw |-> v, readAt |-> real] ELSE fill[g]
  BY DEF ReadSource, TypeOK
<1>1. TypeOK'
  BY DEF ReadSource, TypeOK
<1>2. History'
  BY <1>0 DEF ReadSource, History, TypeOK
<1>3. ReadsInTime'
  <2> SUFFICES ASSUME NEW g \in Fills, fill'[g] # Nil,
                      NEW w \in Versions, w <= version, fill'[g].saw < w
               PROVE  fill'[g].readAt <= committed[w] + Lag
    BY DEF ReadsInTime, ReadSource
  <2>1. CASE g = f
    <3>1. fill'[g].saw = v /\ fill'[g].readAt = real
      BY <1>0, <2>1
    <3>2. v \in Nat /\ w \in Nat /\ committed[w] \in Nat /\ real \in Nat
      BY DEF TypeOK, Versions
    <3>3. ~ (committed[w] + Lag < real)
      BY <3>1, <3>2 DEF ReadSource, Visible
    <3> QED
      BY <3>1, <3>2, <3>3, Constants
  <2>2. CASE g # f
    BY <1>0, <2>2 DEF ReadsInTime
  <2> QED
    BY <2>1, <2>2
<1>4. WindowHolds' /\ ValuesGuarded' /\ StaleHidden'
  BY DEF ReadSource, WindowHolds, ValuesGuarded, StaleHidden, Dead
<1> QED
  BY <1>1, <1>2, <1>3, <1>4

LEMMA AbandonHolds ==
  ASSUME IInv, NEW f \in Fills, Abandon(f)
  PROVE  IInv'
<1> USE DEF IInv
<1>0. \A g \in Fills : fill'[g] = IF g = f THEN Nil ELSE fill[g]
  BY DEF Abandon, TypeOK
<1>1. TypeOK'
  BY DEF Abandon, TypeOK
<1>2. History' /\ ReadsInTime'
  BY <1>0 DEF Abandon, History, ReadsInTime
<1>3. WindowHolds' /\ ValuesGuarded' /\ StaleHidden'
  BY DEF Abandon, WindowHolds, ValuesGuarded, StaleHidden, Dead
<1> QED
  BY <1>1, <1>2, <1>3

-----------------------------------------------------------------------------
\* The window stays closed when the watermark is replaced by one that keeps
\* its mark and its deadline, and needs no watermark once the live one is gone.
LEMMA WindowAfterWrite ==
  ASSUME IInv, watermark' \in Marks,
         Live(watermark) # Nil => /\ watermark'.mark = watermark.mark
                                  /\ watermark'.expiresAt >= watermark.expiresAt,
         UNCHANGED <<real, committed, invalidated>>
  PROVE  WindowHolds'
<1> DEFINE end == committed[invalidated] + Lag + Work
<1>0. /\ invalidated \in Versions /\ committed[invalidated] \in Nat
      /\ real \in Nat /\ offset \in Offsets /\ offset \in Nat /\ end \in Nat
  BY Constants DEF IInv, TypeOK, Versions
<1>1. SUFFICES ASSUME invalidated > 0, real <= end
               PROVE  /\ watermark' # Nil
                      /\ \A o \in Offsets : watermark'.mark >= end + o /\ watermark'.expiresAt >= end + o
  BY DEF WindowHolds
<1>2. /\ watermark # Nil
      /\ \A o \in Offsets : watermark.mark >= end + o /\ watermark.expiresAt >= end + o
  BY <1>1 DEF IInv, WindowHolds
<1>3. watermark \in Marks /\ watermark.mark \in Nat /\ watermark.expiresAt \in Nat
      /\ watermark'.mark \in Nat /\ watermark'.expiresAt \in Nat /\ watermark' # Nil
  BY <1>2, Constants DEF IInv, TypeOK, Marks
<1>4. clock <= watermark.expiresAt
  BY <1>0, <1>1, <1>2, <1>3 DEF clock
<1>5. Live(watermark) # Nil
  BY <1>0, <1>2, <1>3, <1>4, LiveWatermark DEF IInv, clock
<1>6. watermark'.mark = watermark.mark /\ watermark'.expiresAt >= watermark.expiresAt
  BY <1>5
<1>7. ASSUME NEW o \in Offsets
      PROVE  watermark'.mark >= end + o /\ watermark'.expiresAt >= end + o
  BY <1>0, <1>2, <1>3, <1>6, <1>7, Constants
<1> QED
  BY <1>3, <1>7

LEMMA PublishHolds ==
  ASSUME IInv, NEW f \in Fills, NEW k \in Keys, NEW ttl \in Ttls, NEW floor \in Floors,
         Publish(f, k, ttl, floor)
  PROVE  IInv'
<1>0. \A g \in Fills : fill'[g] = IF g = f THEN Nil ELSE fill[g]
  BY DEF Publish, IInv, TypeOK
<1>1. fill' \in [Fills -> [saw : Versions, readAt : Nat] \cup {Nil}]
  BY DEF Publish, IInv, TypeOK
<1>2. ReadsInTime'
  BY <1>0 DEF Publish, IInv, ReadsInTime
<1>3. CASE TrackedWriteReply(Live(watermark), clock) # "stored"
  <2>1. UNCHANGED <<value, watermark>>
    BY <1>3 DEF Publish
  <2>2. TypeOK'
    BY <1>1, <2>1 DEF Publish, IInv, TypeOK
  <2>3. History'
    BY <1>0, <2>1 DEF Publish, IInv, History
  <2>4. WindowHolds' /\ ValuesGuarded' /\ StaleHidden'
    BY <2>1 DEF Publish, IInv, WindowHolds, ValuesGuarded, StaleHidden, Dead
  <2> QED
    BY <1>2, <2>2, <2>3, <2>4 DEF IInv
<1>4. CASE TrackedWriteReply(Live(watermark), clock) = "stored"
  <2>0. /\ real \in Nat /\ offset \in Nat /\ offset \in Offsets /\ clock = real + offset
        /\ clock \in Nat /\ ttl \in Nat /\ floor \in Nat
        /\ fill[f] \in [saw : Versions, readAt : Nat]
        /\ Live(watermark) \in Marks \cup {Nil}
        /\ UNCHANGED <<real, offset, committed, version, invalidated>>
    BY Constants, TimingAssumption, LiveWatermark DEF Publish, IInv, TypeOK, clock
  <2>1. /\ watermark' \in Marks /\ watermark' # Nil
        /\ watermark'.expiresAt >= clock + ttl + Margin
        /\ Live(watermark) # Nil => /\ watermark'.mark = Live(watermark).mark
                                    /\ watermark'.expiresAt >= Live(watermark).expiresAt
    <3>1. watermark' = WatermarkAfterWrite(Live(watermark), floor, ttl, clock)
      BY <1>4 DEF Publish
    <3>2. OutlivesWrite(watermark', Live(watermark), ttl, clock)
      BY <2>0, <3>1, MarkWritten
    <3> QED
      BY <3>2 DEF OutlivesWrite
  <2>2. Live(watermark) # Nil => /\ Live(watermark) = watermark
                                 /\ watermark'.mark = watermark.mark
                                 /\ watermark'.expiresAt >= watermark.expiresAt
    BY <2>1, LiveWatermark DEF IInv
  <2>3. value'[k] = [payload |-> fill[f].saw, created |-> clock, expiresAt |-> clock + ttl]
        /\ value' = [value EXCEPT ![k] = value'[k]]
    BY <1>4 DEF Publish, NewFrame, IInv, TypeOK
  <2>4. value'[k] \in Frames /\ value'[k].payload = fill[f].saw
        /\ value'[k].created = clock /\ value'[k].expiresAt = clock + ttl
    BY <2>0, <2>3 DEF Frames
  <2>5. \A j \in Keys : j # k => value'[j] = value[j]
    BY <2>3 DEF IInv, TypeOK
  <2>6. TypeOK'
    BY <1>1, <2>0, <2>1, <2>3, <2>4 DEF IInv, TypeOK, Marks
  <2>7. History'
    <3>1. ASSUME NEW j \in Keys, value'[j] # Nil
          PROVE  \E o \in Offsets : value'[j].created <= real + o
      <4>1. CASE j = k
        BY <2>0, <2>4, <4>1
      <4>2. CASE j # k
        BY <2>5, <3>1, <4>2 DEF IInv, History
      <4> QED
        BY <4>1, <4>2
    <3> QED
      BY <1>0, <2>0, <3>1 DEF IInv, History
  <2>8. WindowHolds'
    BY <2>0, <2>1, <2>2, WindowAfterWrite
  <2>9. ASSUME NEW j \in Keys, value'[j] # Nil
        PROVE  \/ Dead(j)'
               \/ watermark' # Nil /\ watermark'.expiresAt >= value'[j].expiresAt + Margin
    <3>1. CASE j = k
      BY <2>1, <2>4, <3>1
    <3>2. CASE j # k /\ Live(watermark) = Nil
      BY <2>0, <2>5, <2>9, <3>2, LostMarkKills DEF IInv, Dead
    <3>3. CASE j # k /\ Live(watermark) # Nil
      <4>1. value'[j] = value[j] /\ value[j] # Nil
        BY <2>5, <2>9, <3>3
      <4>2. CASE Dead(j)
        BY <2>0, <4>1, <4>2 DEF Dead
      <4>3. CASE watermark # Nil /\ watermark.expiresAt >= value[j].expiresAt + Margin
        <5>1. /\ watermark.expiresAt \in Nat /\ watermark'.expiresAt \in Nat
              /\ value[j].expiresAt + Margin \in Nat
          BY <2>1, <4>1, <4>3, Constants DEF IInv, TypeOK, Marks, Frames
        <5> QED
          BY <2>1, <2>2, <3>3, <4>1, <4>3, <5>1
      <4> QED
        BY <4>1, <4>2, <4>3 DEF IInv, ValuesGuarded
    <3> QED
      BY <3>1, <3>2, <3>3
  <2>10. ValuesGuarded'
    BY <2>9 DEF ValuesGuarded
  <2>11. ASSUME NEW j \in Keys, value'[j] # Nil, value'[j].payload < invalidated
         PROVE  \/ Dead(j)'
                \/ watermark' # Nil /\ watermark'.mark >= value'[j].created
    <3>1. j # k
      <4>1. fill[f].saw >= invalidated
        BY <1>4, <2>0, AcceptedIsFresh, Constants DEF Publish
      <4>2. fill[f].saw \in Nat /\ invalidated \in Nat
        BY <2>0 DEF IInv, TypeOK, Versions
      <4> QED
        BY <2>4, <2>11, <4>1, <4>2
    <3>2. value'[j] = value[j] /\ value[j] # Nil
      BY <2>5, <2>11, <3>1
    <3>3. CASE Live(watermark) = Nil
      BY <2>0, <3>2, <3>3, LostMarkKills DEF IInv, Dead
    <3>4. CASE Live(watermark) # Nil
      BY <2>0, <2>1, <2>2, <2>11, <3>2, <3>4 DEF IInv, StaleHidden, Dead
    <3> QED
      BY <3>3, <3>4
  <2>12. StaleHidden'
    BY <2>0, <2>11 DEF StaleHidden
  <2> QED
    BY <1>2, <2>6, <2>7, <2>8, <2>10, <2>12 DEF IInv
<1> QED
  BY <1>3, <1>4

LEMMA InvalidateRemoteHolds ==
  ASSUME IInv, NEW buffer \in Buffers, NEW floor \in Floors, InvalidateRemote(buffer, floor)
  PROVE  IInv'
<1>0. /\ real \in Nat /\ offset \in Nat /\ offset \in Offsets /\ clock = real + offset
      /\ clock \in Nat /\ buffer \in Nat /\ floor \in Nat
      /\ buffer >= Skew + Lag + Work
      /\ Live(watermark) \in Marks \cup {Nil}
      /\ version \in Versions /\ version \in Nat /\ committed[version] \in Nat
      /\ committed[version] <= real
      /\ invalidated' = version
      /\ UNCHANGED <<real, offset, value, committed, version, fill>>
  BY Constants, TimingAssumption, LiveWatermark
  DEF InvalidateRemote, IInv, TypeOK, History, Versions, clock
<1>1. Covers(watermark', Live(watermark), buffer, clock)
  <2>1. watermark' = WatermarkAfterInvalidate(Live(watermark), floor, buffer, clock)
    BY DEF InvalidateRemote
  <2> QED
    BY <1>0, <2>1, MarkInvalidated
<1>2. /\ watermark' \in Marks /\ watermark' # Nil
      /\ watermark'.mark \in Nat /\ watermark'.expiresAt \in Nat
      /\ watermark'.mark >= clock + buffer
      /\ watermark'.expiresAt >= watermark'.mark
  BY <1>1 DEF Covers, Marks
<1>3. Live(watermark) # Nil => /\ watermark'.expiresAt >= watermark.expiresAt
                               /\ watermark # Nil
                               /\ watermark.expiresAt \in Nat
  BY <1>1, LiveWatermark DEF Covers, IInv, TypeOK, Live
\* The mark reaches past what any clock shows before the window ends.
<1>4. ASSUME NEW o \in Offsets
      PROVE  watermark'.mark >= real + o + Lag + Work
  <2>1. o \in Nat /\ o <= offset + Skew
    BY <1>0, Constants
  <2> QED
    BY <1>0, <1>2, <2>1, Constants
<1>5. TypeOK' /\ History' /\ ReadsInTime'
  <2>1. TypeOK'
    BY <1>0, <1>2 DEF IInv, TypeOK, Marks
  <2>2. History'
    <3>1. invalidated' <= version' /\ \A v \in Versions : committed'[v] <= real'
      <4>1. invalidated' <= version'
        BY <1>0
      <4>2. committed' = committed /\ real' = real
        BY <1>0
      <4> QED
        BY <4>1, <4>2 DEF IInv, History
    <3>2. \A f \in Fills : fill'[f] # Nil => fill'[f].readAt <= real'
      BY <1>0 DEF IInv, History
    <3>3. \A k \in Keys :
             value'[k] # Nil => \E o \in Offsets : value'[k].created <= real' + o
      BY <1>0 DEF IInv, History
    <3> QED
      BY <3>1, <3>2, <3>3 DEF History
  <2>3. ReadsInTime'
    BY <1>0 DEF IInv, ReadsInTime
  <2> QED
    BY <2>1, <2>2, <2>3
<1>6. WindowHolds'
  <2>1. ASSUME NEW o \in Offsets
        PROVE  /\ watermark'.mark >= committed[version] + Lag + Work + o
               /\ watermark'.expiresAt >= committed[version] + Lag + Work + o
    <3>1. o \in Nat
      BY Constants
    <3> QED
      BY <1>0, <1>2, <1>4, <3>1, Constants
  <2> QED
    BY <1>0, <1>2, <2>1 DEF WindowHolds
<1>7. ASSUME NEW k \in Keys, value[k] # Nil
      PROVE  /\ \/ Dead(k)'
                \/ watermark'.expiresAt >= value[k].expiresAt + Margin
             /\ \/ Dead(k)'
                \/ watermark'.mark >= value[k].created
  <2>1. CASE Live(watermark) = Nil
    BY <1>0, <1>7, <2>1, LostMarkKills DEF IInv, Dead
  <2>2. CASE Live(watermark) # Nil
    <3>1. PICK o \in Offsets : value[k].created <= real + o
      BY <1>7 DEF IInv, History
    <3>2. value[k].created \in Nat /\ value[k].expiresAt \in Nat /\ o \in Nat
      BY <1>7, Constants DEF IInv, TypeOK, Frames
    <3>3. watermark'.mark >= value[k].created
      BY <1>0, <1>2, <1>4, <3>1, <3>2, Constants
    <3>4. \/ Dead(k)
          \/ watermark.expiresAt >= value[k].expiresAt + Margin
      BY <1>7 DEF IInv, ValuesGuarded
    <3> QED
      BY <1>0, <1>2, <1>3, <2>2, <3>2, <3>3, <3>4, Constants DEF Dead
  <2> QED
    BY <2>1, <2>2
<1>8. ValuesGuarded' /\ StaleHidden'
  BY <1>0, <1>2, <1>7 DEF ValuesGuarded, StaleHidden
<1> QED
  BY <1>5, <1>6, <1>8 DEF IInv

-----------------------------------------------------------------------------
LEMMA TickHolds ==
  ASSUME IInv, NEW d \in 1 .. MaxTime, Tick(d)
  PROVE  IInv'
<1> USE DEF IInv
<1>0. /\ real \in Nat /\ d \in Nat /\ real' = real + d /\ real' \in Nat \ {0}
      /\ UNCHANGED <<offset, value, watermark, committed, version, fill, invalidated>>
  BY TimingAssumption DEF Tick, TypeOK
<1>1. TypeOK'
  BY <1>0 DEF TypeOK
<1>2. History'
  <2>1. \A v \in Versions : committed[v] <= real'
    BY <1>0 DEF History, TypeOK
  <2>2. \A f \in Fills : fill[f] # Nil => fill[f].readAt <= real'
    BY <1>0 DEF History, TypeOK
  <2>3. \A k \in Keys : value[k] # Nil => \E o \in Offsets : value[k].created <= real' + o
    BY <1>0, Constants DEF History, TypeOK, Frames
  <2> QED
    BY <1>0, <2>1, <2>2, <2>3 DEF History
<1>3. ReadsInTime'
  BY <1>0 DEF ReadsInTime
<1>4. WindowHolds'
  <2>1. committed[invalidated] \in Nat
    BY DEF TypeOK
  <2> QED
    BY <1>0, <2>1, Constants DEF WindowHolds
<1>5. \A k \in Keys : value[k] # Nil /\ Dead(k) => Dead(k)'
  BY <1>0, Constants DEF Dead, TypeOK, Frames
<1>6. ValuesGuarded' /\ StaleHidden'
  BY <1>0, <1>5 DEF ValuesGuarded, StaleHidden
<1> QED
  BY <1>1, <1>2, <1>3, <1>4, <1>6

LEMMA FailoverHolds ==
  ASSUME IInv, NEW o \in Offsets, Failover(o)
  PROVE  IInv'
  BY DEF Failover, IInv, TypeOK, History, ReadsInTime, WindowHolds, ValuesGuarded, StaleHidden, Dead

LEMMA ExpireValueHolds ==
  ASSUME IInv, NEW k \in Keys, ExpireValue(k)
  PROVE  IInv'
<1> USE DEF IInv
<1>0. \A j \in Keys : value'[j] = IF j = k THEN Nil ELSE value[j]
  BY DEF ExpireValue, TypeOK
<1>1. TypeOK'
  BY DEF ExpireValue, TypeOK
<1>2. History' /\ ReadsInTime' /\ WindowHolds'
  BY <1>0 DEF ExpireValue, History, ReadsInTime, WindowHolds
<1>3. ValuesGuarded' /\ StaleHidden'
  BY <1>0 DEF ExpireValue, ValuesGuarded, StaleHidden, Dead
<1> QED
  BY <1>1, <1>2, <1>3

LEMMA ExpireWatermarkHolds == IInv /\ ExpireWatermark => IInv'
<1> SUFFICES ASSUME IInv, ExpireWatermark PROVE IInv'
  OBVIOUS
<1> USE DEF IInv
<1>0. /\ watermark # Nil /\ watermark \in Marks /\ watermark.expiresAt \in Nat
      /\ real \in Nat /\ offset \in Offsets /\ offset \in Nat
      /\ Live(watermark) = Nil
      /\ watermark' = Nil
      /\ UNCHANGED <<real, offset, value, committed, version, fill, invalidated>>
  BY Constants DEF ExpireWatermark, Live, TypeOK, Marks
<1>1. real + offset > watermark.expiresAt
  BY <1>0, LiveWatermark DEF clock
<1>2. TypeOK' /\ History' /\ ReadsInTime'
  BY <1>0 DEF TypeOK, History, ReadsInTime
<1>3. WindowHolds'
  <2>1. invalidated \in Versions /\ committed[invalidated] \in Nat
    BY DEF TypeOK
  <2> QED
    BY <1>0, <1>1, <2>1, Constants DEF WindowHolds
<1>4. \A k \in Keys : value[k] # Nil => Dead(k)'
  BY <1>0, LostMarkKills DEF Dead
<1>5. ValuesGuarded' /\ StaleHidden'
  BY <1>0, <1>4 DEF ValuesGuarded, StaleHidden
<1> QED
  BY <1>2, <1>3, <1>5

-----------------------------------------------------------------------------
LEMMA StepHolds == IInv /\ [Next]_vars => IInv'
<1> SUFFICES ASSUME IInv, [Next]_vars PROVE IInv'
  OBVIOUS
<1>1. CASE UNCHANGED vars
  BY <1>1 DEF vars, IInv, TypeOK, History, ReadsInTime, WindowHolds, ValuesGuarded, StaleHidden, Dead
<1>2. CASE Next
  BY <1>2, MutateHolds, ReadSourceHolds, AbandonHolds, PublishHolds, InvalidateRemoteHolds,
     TickHolds, FailoverHolds, ExpireValueHolds, ExpireWatermarkHolds DEF Next
<1> QED
  BY <1>1, <1>2

\* The watermark still blocks while outdated fallbacks may write, and hides
\* outdated values for as long as a clock may find them alive.
THEOREM InvariantHolds == Spec => []IInv
  BY InitHolds, StepHolds, PTL DEF Spec

\* Type correctness, for every value of the constants.
THEOREM TypeCorrect == Spec => []TypeOK
<1>1. IInv => TypeOK
  BY DEF IInv
<1> QED
  BY <1>1, InvariantHolds, PTL

\* With a buffer that covers skew, lag and work, no tracked read is a hit on
\* a version older than an executed invalidation was made for.
THEOREM StaleNeverHit == Spec => []NoStaleHit
  BY NoStaleHitFollows, InvariantHolds, PTL

\* Nor does Redis accept such a version, so none reaches a local cache by way
\* of an accepted write.
THEOREM StaleNeverAccepted == Spec => []NoStaleAcceptance
  BY NoStaleAcceptanceFollows, InvariantHolds, PTL

-----------------------------------------------------------------------------
AnswersInTime ==
  \A i \in Instances, k \in Keys : answer[i][k] # Nil =>
    /\ answer[i][k].since <= real
    /\ \A w \in Versions :
         answer[i][k].payload < w /\ w <= invalidated => answer[i][k].since <= fencedAt[w]

EntriesRecent ==
  \A i \in Instances, k \in Keys : local[i][k] # Nil => local[i][k].until <= real + LocalTtl

CommittedFirst ==
  \A w \in Versions : w <= invalidated => committed[w] <= fencedAt[w] /\ fencedAt[w] <= real

\* The inductive invariant, about the caches and, with IInv, the slot.
CachesInv == CachesTypeOK /\ AnswersInTime /\ EntriesRecent /\ CommittedFirst
             /\ LocalStalenessBounded

FullInv == IInv /\ CachesInv

-----------------------------------------------------------------------------
LEMMA CacheConstants ==
  /\ Delivery \in Nat /\ LocalTtl \in Nat /\ Lag \in Nat /\ Work \in Nat
  /\ \A from \in {"redis", "loader"} : Slack(from) \in Nat
  /\ Versions \subseteq Nat
  BY CachesAssumption, TimingAssumption DEF Slack, Versions

LEMMA CachesInitHolds == CachesInit => FullInv
<1> SUFFICES ASSUME CachesInit PROVE FullInv
  OBVIOUS
<1>1. IInv
  BY InitHolds DEF CachesInit
<1>2. CachesTypeOK
  BY <1>1 DEF CachesInit, CachesTypeOK, IInv, TypeOK
<1>3. AnswersInTime /\ EntriesRecent /\ LocalStalenessBounded
  BY DEF CachesInit, AnswersInTime, EntriesRecent, LocalStalenessBounded
<1>4. CommittedFirst
  BY CacheConstants DEF CachesInit, Init, CommittedFirst
<1> QED
  BY <1>1, <1>2, <1>3, <1>4 DEF FullInv, CachesInv

\* What a step of the slot may do to the time, the versions and the history.
LEMMA SlotFacts ==
  ASSUME IInv, Next
  PROVE  /\ real' \in Nat /\ real \in Nat /\ real' >= real
         /\ invalidated' \in Nat /\ invalidated \in Nat
         /\ \A w \in Versions : w <= invalidated => committed'[w] = committed[w]
         /\ invalidated' # invalidated => committed' = committed
         /\ \A w \in Versions : committed[w] <= real
<1>1. /\ real \in Nat /\ invalidated \in Nat /\ version \in Nat /\ invalidated <= version
      /\ committed \in [Versions -> Nat]
      /\ \A w \in Versions : committed[w] <= real
  BY CacheConstants DEF IInv, TypeOK, History
<1>2. CASE Mutate
  <2>1. \A w \in Versions : w <= invalidated => w # version + 1
    BY <1>1, CacheConstants
  <2> QED
    BY <1>1, <1>2, <2>1 DEF Mutate
<1>3. CASE \E d \in 1 .. MaxTime : Tick(d)
  BY <1>1, <1>3, TimingAssumption DEF Tick
<1>4. CASE \E buffer \in Buffers, floor \in Floors : InvalidateRemote(buffer, floor)
  BY <1>1, <1>4 DEF InvalidateRemote
<1>5. CASE UNCHANGED <<real, committed, invalidated>>
  BY <1>1, <1>5
<1> QED
  BY <1>2, <1>3, <1>4, <1>5
  DEF Next, ReadSource, Abandon, Publish, Failover, ExpireValue, ExpireWatermark

-----------------------------------------------------------------------------
\* Invalidations, whatever they overtake, start a new count at the present.
LEMMA SlotStepHolds == FullInv /\ SlotStep => FullInv'
<1> SUFFICES ASSUME FullInv, SlotStep PROVE FullInv'
  OBVIOUS
<1>1. /\ IInv /\ Next /\ IInv'
      /\ UNCHANGED <<answer, local, replica>>
      /\ fencedAt' = [w \in Versions |-> IF invalidated < w /\ w <= invalidated' THEN real
                                         ELSE fencedAt[w]]
  BY StepHolds DEF FullInv, SlotStep
<1>2. /\ real' \in Nat /\ real \in Nat /\ real' >= real
      /\ invalidated' \in Nat /\ invalidated \in Nat
      /\ \A w \in Versions : w <= invalidated => committed'[w] = committed[w]
      /\ invalidated' # invalidated => committed' = committed
      /\ \A w \in Versions : committed[w] <= real
  BY <1>1, SlotFacts
<1>3. CachesTypeOK'
  BY <1>1, <1>2 DEF FullInv, CachesInv, CachesTypeOK
<1>4. \A w \in Versions : w <= invalidated' =>
        \/ w <= invalidated /\ fencedAt'[w] = fencedAt[w]
        \/ fencedAt'[w] = real /\ committed'[w] <= real
  BY <1>1, <1>2, CacheConstants
<1>5. AnswersInTime'
  BY <1>1, <1>2, <1>4, CacheConstants
  DEF FullInv, CachesInv, CachesTypeOK, AnswersInTime, Answers
<1>6. EntriesRecent'
  BY <1>1, <1>2, CacheConstants
  DEF FullInv, CachesInv, CachesTypeOK, EntriesRecent, LocalEntries
<1>7. CommittedFirst'
  BY <1>1, <1>2, <1>4, CacheConstants
  DEF FullInv, CachesInv, CachesTypeOK, CommittedFirst, IInv, TypeOK
<1>8. LocalStalenessBounded'
  <2> SUFFICES ASSUME NEW i \in Instances, NEW k \in Keys, NEW w \in Versions,
                      local[i][k] # Nil, local[i][k].payload < w, w <= invalidated'
               PROVE  local[i][k].until <= fencedAt'[w] + Slack(local[i][k].from) + LocalTtl
    BY <1>1 DEF LocalStalenessBounded
  <2>1. local[i][k] \in LocalEntries /\ Slack(local[i][k].from) \in Nat
    BY CacheConstants DEF FullInv, CachesInv, CachesTypeOK, LocalEntries
  <2>2. local[i][k].until \in Nat /\ local[i][k].until <= real + LocalTtl
    BY <2>1 DEF FullInv, CachesInv, EntriesRecent, LocalEntries
  <2>3. CASE w <= invalidated /\ fencedAt'[w] = fencedAt[w]
    BY <2>3 DEF FullInv, CachesInv, LocalStalenessBounded
  <2>4. CASE fencedAt'[w] = real
    BY <1>2, <2>1, <2>2, <2>4, CacheConstants
  <2> QED
    BY <1>4, <2>3, <2>4
<1> QED
  BY <1>1, <1>3, <1>5, <1>6, <1>7, <1>8 DEF FullInv, CachesInv

-----------------------------------------------------------------------------
\* What it takes to put another answer under way, the rest unchanged.
LEMMA AnswerHolds ==
  ASSUME CachesInv, IInv, IInv', NEW i \in Instances, NEW k \in Keys, NEW a \in Answers \cup {Nil},
         answer' = [answer EXCEPT ![i][k] = a],
         UNCHANGED <<local, replica, fencedAt, real, invalidated, committed>>,
         a # Nil => a.since = real /\ a.payload >= invalidated
  PROVE  CachesInv'
<1>1. CachesTypeOK'
  BY DEF CachesInv, CachesTypeOK
<1>2. EntriesRecent' /\ CommittedFirst' /\ LocalStalenessBounded'
  BY DEF CachesInv, EntriesRecent, CommittedFirst, LocalStalenessBounded
<1>3. /\ real \in Nat /\ invalidated \in Nat
      /\ \A w \in Versions : ~ (a # Nil /\ a.payload < w /\ w <= invalidated)
  BY CacheConstants DEF IInv, TypeOK, Answers
<1>4. \A j \in Instances, m \in Keys :
        answer'[j][m] = IF j = i /\ m = k THEN a ELSE answer[j][m]
  BY DEF CachesInv, CachesTypeOK
<1>5. AnswersInTime'
  BY <1>3, <1>4 DEF CachesInv, AnswersInTime
<1> QED
  BY <1>1, <1>2, <1>5 DEF CachesInv

\* Redis gives no outdated answer after the invalidation.
LEMMA ReadHitHolds ==
  ASSUME FullInv, NEW i \in Instances, NEW k \in Keys, ReadHit(i, k)
  PROVE  FullInv'
<1>1. IInv /\ CachesInv /\ IInv'
  BY StepHolds DEF FullInv, ReadHit, vars
<1> DEFINE a == [payload |-> value[k].payload, since |-> real]
<1>2. /\ Readable(k) /\ answer' = [answer EXCEPT ![i][k] = a]
      /\ UNCHANGED <<local, replica, fencedAt, real, invalidated, committed>>
  <2>1. PICK node \in ReadNodes :
          /\ TrackedReadable(Live(node.value[k]), Live(node.watermark))
          /\ answer' = [answer EXCEPT ![i][k] = [payload |-> node.value[k].payload, since |-> real]]
    BY DEF ReadHit
  <2>2. node.value = value /\ node.watermark = watermark
    BY DEF ReadNodes
  <2>3. UNCHANGED <<local, replica, fencedAt, real, invalidated, committed>>
    BY DEF ReadHit, vars
  <2> QED
    BY <2>1, <2>2, <2>3 DEF Readable
<1>3. value[k] # Nil
  BY <1>2 DEF Readable, TrackedReadable, UntrackedReadable, Live
<1>4. a \in Answers
  BY <1>1, <1>3 DEF IInv, TypeOK, Frames, Answers
<1>5. a.since = real /\ a.payload >= invalidated
  BY <1>1, <1>2, NoStaleHitFollows DEF NoStaleHit
<1> HIDE DEF a
<1> QED
  BY <1>1, <1>2, <1>4, <1>5, AnswerHolds DEF FullInv

LEMMA WriteThroughHolds ==
  ASSUME FullInv, NEW i \in Instances, NEW k \in Keys, NEW f \in Fills,
         NEW ttl \in Ttls, NEW floor \in Floors, WriteThrough(i, f, k, ttl, floor)
  PROVE  FullInv'
<1>1. IInv /\ CachesInv /\ Publish(f, k, ttl, floor)
  BY DEF FullInv, WriteThrough
<1>2. IInv'
  BY <1>1, StepHolds DEF Next
<1> DEFINE a == IF TrackedWriteReply(Live(watermark), clock) = "stored"
                  THEN [payload |-> fill[f].saw, since |-> real] ELSE answer[i][k]
<1>3. /\ UNCHANGED <<local, replica, fencedAt, real, invalidated, committed>>
      /\ fill[f] # Nil /\ real <= fill[f].readAt + Work
      /\ answer[i][k] = Nil
  BY <1>1 DEF WriteThrough, Publish
<1>4. answer' = [answer EXCEPT ![i][k] = a]
  BY <1>1 DEF WriteThrough, FillAfterWrite, CachesInv, CachesTypeOK
<1>5. a \in Answers \cup {Nil}
  BY <1>1, <1>3 DEF IInv, TypeOK, Answers
<1>6. a # Nil => a.since = real /\ a.payload >= invalidated
  BY <1>1, <1>3, NoStaleAcceptanceFollows DEF NoStaleAcceptance
<1> HIDE DEF a
<1> QED
  BY <1>1, <1>2, <1>3, <1>4, <1>5, <1>6, AnswerHolds DEF FullInv

-----------------------------------------------------------------------------
\* What it takes to put an entry, once the answer that brought it is gone.
LEMMA EntryHolds ==
  ASSUME CachesInv, IInv, NEW i \in Instances, NEW k \in Keys, NEW e \in LocalEntries \cup {Nil},
         local' = [local EXCEPT ![i][k] = e],
         \/ answer' = answer
         \/ answer' = [answer EXCEPT ![i][k] = Nil],
         UNCHANGED <<replica, fencedAt, real, invalidated, committed>>,
         e # Nil =>
           /\ e.until <= real + LocalTtl
           /\ \A w \in Versions : e.payload < w /\ w <= invalidated =>
                e.until <= fencedAt[w] + Slack(e.from) + LocalTtl
  PROVE  CachesInv'
<1>1. CachesTypeOK'
  <2>1. local' \in [Instances -> [Keys -> LocalEntries \cup {Nil}]]
    BY DEF CachesInv, CachesTypeOK
  <2>2. answer' \in [Instances -> [Keys -> Answers \cup {Nil}]]
    <3>1. answer \in [Instances -> [Keys -> Answers \cup {Nil}]]
      BY DEF CachesInv, CachesTypeOK
    <3>2. CASE answer' = answer
      BY <3>1, <3>2
    <3>3. CASE answer' = [answer EXCEPT ![i][k] = Nil]
      BY <3>1, <3>3
    <3> QED
      BY <3>2, <3>3
  <2>3. /\ replica' \in [value : [Keys -> Frames \cup {Nil}],
                        watermark : [mark : Nat, expiresAt : Nat] \cup {Nil}]
        /\ fencedAt' \in [Versions -> Nat]
    BY DEF CachesInv, CachesTypeOK
  <2> QED
    BY <2>1, <2>2, <2>3 DEF CachesTypeOK
<1>2. \A j \in Instances, m \in Keys :
        local'[j][m] = IF j = i /\ m = k THEN e ELSE local[j][m]
  BY DEF CachesInv, CachesTypeOK
<1>3. \A j \in Instances, m \in Keys : answer'[j][m] \in {answer[j][m], Nil}
  BY DEF CachesInv, CachesTypeOK
<1>4. AnswersInTime'
  BY <1>3 DEF CachesInv, AnswersInTime
<1>5. EntriesRecent' /\ LocalStalenessBounded'
  BY <1>2 DEF CachesInv, EntriesRecent, LocalStalenessBounded
<1>6. CommittedFirst'
  BY DEF CachesInv, CommittedFirst
<1> QED
  BY <1>1, <1>4, <1>5, <1>6 DEF CachesInv

LEMMA ArriveHolds ==
  ASSUME FullInv, NEW i \in Instances, NEW k \in Keys, Arrive(i, k)
  PROVE  FullInv'
<1>1. IInv /\ CachesInv /\ IInv'
  BY StepHolds DEF FullInv, Arrive, vars
<1> DEFINE e == Entry(answer[i][k].payload, "redis")
<1>2. /\ answer[i][k] \in Answers
      /\ answer[i][k].since \in Nat /\ answer[i][k].payload \in Versions
      /\ real \in Nat /\ invalidated \in Nat
  BY <1>1, CacheConstants DEF Arrive, CachesInv, CachesTypeOK, Answers, IInv, TypeOK
<1>3. /\ e \in LocalEntries
      /\ e.until = real + LocalTtl /\ e.payload = answer[i][k].payload /\ Slack(e.from) = Delivery
  BY <1>2, CacheConstants DEF Entry, LocalEntries, Slack
<1>4. /\ local' = [local EXCEPT ![i][k] = e] /\ answer' = [answer EXCEPT ![i][k] = Nil]
      /\ UNCHANGED <<replica, fencedAt, real, invalidated, committed>>
      /\ answer[i][k] # Nil /\ real <= answer[i][k].since + Delivery
  BY DEF Arrive, vars
<1>5. \A w \in Versions : e.payload < w /\ w <= invalidated =>
        e.until <= fencedAt[w] + Slack(e.from) + LocalTtl
  <2> TAKE w \in Versions
  <2> HAVE e.payload < w /\ w <= invalidated
  <2>1. answer[i][k].since <= fencedAt[w] /\ fencedAt[w] \in Nat
    BY <1>1, <1>3, <1>4 DEF CachesInv, AnswersInTime, CachesTypeOK
  <2> QED
    BY <1>2, <1>3, <1>4, <2>1, CacheConstants
<1>6. e.until <= real + LocalTtl
  BY <1>2, <1>3, CacheConstants
<1> HIDE DEF e
<1> QED
  BY <1>1, <1>3, <1>4, <1>5, <1>6, EntryHolds DEF FullInv

LEMMA LoadUnfencedHolds ==
  ASSUME FullInv, NEW i \in Instances, NEW f \in Fills, NEW k \in Keys, LoadUnfenced(i, f, k)
  PROVE  FullInv'
<1>1. IInv /\ CachesInv /\ Abandon(f)
  BY DEF FullInv, LoadUnfenced
<1>2. IInv'
  BY <1>1, StepHolds DEF Next
<1> DEFINE e == Entry(fill[f].saw, "loader")
<1>3. /\ fill[f] # Nil /\ fill[f].saw \in Versions /\ fill[f].readAt \in Nat
      /\ real \in Nat /\ invalidated \in Nat /\ version \in Nat /\ invalidated <= version
      /\ committed \in [Versions -> Nat]
  BY <1>1, CacheConstants DEF Abandon, IInv, TypeOK, History
<1>4. /\ e \in LocalEntries
      /\ e.until = real + LocalTtl /\ e.payload = fill[f].saw /\ Slack(e.from) = Lag + Work
  BY <1>3, CacheConstants DEF Entry, LocalEntries, Slack
<1>5. /\ local' = [local EXCEPT ![i][k] = e] /\ answer' = answer
      /\ UNCHANGED <<replica, fencedAt, real, invalidated, committed>>
      /\ real <= fill[f].readAt + Work
  BY DEF LoadUnfenced, Abandon
<1>6. \A w \in Versions : e.payload < w /\ w <= invalidated =>
        e.until <= fencedAt[w] + Slack(e.from) + LocalTtl
  <2> TAKE w \in Versions
  <2> HAVE e.payload < w /\ w <= invalidated
  <2>1. w \in Nat /\ w <= version
    BY <1>3, CacheConstants
  <2>2. fill[f].readAt <= committed[w] + Lag
    BY <1>1, <1>3, <1>4, <2>1 DEF IInv, ReadsInTime
  <2>3. committed[w] <= fencedAt[w] /\ fencedAt[w] \in Nat /\ committed[w] \in Nat
    BY <1>1, <1>3 DEF CachesInv, CommittedFirst, CachesTypeOK
  <2> QED
    BY <1>3, <1>4, <1>5, <2>2, <2>3, CacheConstants
<1>7. e.until <= real + LocalTtl
  BY <1>3, <1>4, CacheConstants
<1> HIDE DEF e
<1> QED
  BY <1>1, <1>2, <1>4, <1>5, <1>6, <1>7, EntryHolds DEF FullInv

-----------------------------------------------------------------------------
\* Lost answers, dropped entries and replication bring nothing.
LEMMA LossHolds ==
  ASSUME FullInv, NEW i \in Instances, NEW k \in Keys, Lose(i, k) \/ Drop(i, k)
  PROVE  FullInv'
<1>1. IInv /\ CachesInv /\ UNCHANGED vars
  BY DEF FullInv, Lose, Drop
<1>2. IInv' /\ UNCHANGED <<real, invalidated, committed>>
  BY <1>1, StepHolds DEF vars
<1>3. CASE Lose(i, k)
  BY <1>1, <1>2, <1>3, AnswerHolds DEF Lose, FullInv
<1>4. CASE Drop(i, k)
  BY <1>1, <1>2, <1>4, EntryHolds DEF Drop, FullInv
<1> QED
  BY <1>3, <1>4

LEMMA ReplicateHolds == FullInv /\ (Replicate \/ UNCHANGED <<vars, cacheVars>>) => FullInv'
<1> SUFFICES ASSUME FullInv, Replicate \/ UNCHANGED <<vars, cacheVars>> PROVE FullInv'
  OBVIOUS
<1>1. IInv /\ CachesInv /\ UNCHANGED vars /\ UNCHANGED <<answer, local, fencedAt>>
  BY DEF FullInv, Replicate, cacheVars
<1>2. IInv' /\ UNCHANGED <<real, invalidated, committed>>
  BY <1>1, StepHolds DEF vars
<1>3. CachesTypeOK'
  BY <1>1 DEF Replicate, cacheVars, CachesInv, CachesTypeOK, IInv, TypeOK
<1>4. AnswersInTime' /\ EntriesRecent' /\ CommittedFirst' /\ LocalStalenessBounded'
  BY <1>1, <1>2 DEF CachesInv, AnswersInTime, EntriesRecent, CommittedFirst, LocalStalenessBounded
<1> QED
  BY <1>2, <1>3, <1>4 DEF FullInv, CachesInv

LEMMA CachesStepHolds == FullInv /\ [CachesNext]_<<vars, cacheVars>> => FullInv'
  BY SlotStepHolds, ReadHitHolds, WriteThroughHolds, ArriveHolds, LoadUnfencedHolds, LossHolds,
     ReplicateHolds DEF CachesNext

LEMMA CachesInvariantHolds == CachesSpec => []FullInv
  BY CachesInitHolds, CachesStepHolds, PTL DEF CachesSpec

\* Every reachable state of the caches has its type.
THEOREM CachesTypeCorrect == CachesSpec => []CachesTypeOK
<1>1. FullInv => CachesTypeOK
  BY DEF FullInv, CachesInv
<1> QED
  BY <1>1, CachesInvariantHolds, PTL

\* After an invalidation, no local cache serves an outdated version for
\* longer than the local TTL and the time of one answer
\* (dialcache.ts:505-538, node-redis.ts:81-82).
THEOREM StalenessEnds == CachesSpec => []LocalStalenessBounded
<1>1. FullInv => LocalStalenessBounded
  BY DEF FullInv, CachesInv
<1> QED
  BY <1>1, CachesInvariantHolds, PTL
=============================================================================
