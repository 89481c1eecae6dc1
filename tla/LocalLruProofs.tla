---------------------------- MODULE LocalLruProofs ----------------------------
(***************************************************************************)
(* Proofs about LocalLru for any keys, sizes, TTLs, and any fineness of    *)
(* the clock: the cache never exceeds its bound, serves an entry for its   *)
(* TTL and never longer, and gives one up early only to others in use.     *)
(*                                                                         *)
(* An entry that is gone was expired or evicted.  One that is evicted is   *)
(* the head of the list, and all that follow it were used after it         *)
(* (YoungerRivals), so that with the new key they fill the cache.          *)
(***************************************************************************)
EXTENDS LocalLru, FiniteSetTheorems, SequenceTheorems, TLAPS

TypeOK ==
  /\ time \in Nat /\ limit \in Limits
  /\ entry \in [Keys -> [value : Nat, start : Nat, ttl : Nat] \cup {Nil}]
  /\ recency \in Seq(Keys)
  /\ last \in [Keys -> [at : Nat, ttlSec : TtlSecs] \cup {Nil}]
  /\ rivals \in [Keys -> SUBSET Keys]
  /\ \A k \in Keys : IsFiniteSet(rivals[k])

Held == {k \in Keys : entry[k] # Nil}

Sized == IsFiniteSet(Held) /\ Cardinality(Held) = Len(recency)

\* What an entry says of the put that wrote it.
Written ==
  \A k \in Keys : entry[k] # Nil =>
    /\ last[k] # Nil /\ last[k].at <= time
    /\ entry[k] = [value |-> last[k].at, ttl |-> ttlMs(last[k].ttlSec),
                   start |-> last[k].at \div Fraction + 1]

Younger(s, r) == \A i, j \in 1 .. Len(s) : i < j => s[j] \in r[s[i]]
YoungerRivals == Younger(recency, rivals)

\* Why a key that was put has no entry.
GoneFairly ==
  \A k \in Keys : last[k] # Nil /\ entry[k] = Nil =>
    Cardinality(rivals[k]) >= limit \/ Age(k) > Lifetime(k) - Fraction

\* The inductive invariant.
IInv == TypeOK /\ Bounded /\ Sized /\ Written /\ YoungerRivals /\ GoneFairly

-----------------------------------------------------------------------------
\* Division rounds down.
LEMMA DivBounds ==
  ASSUME NEW n \in Nat, NEW d \in Nat \ {0}
  PROVE  n \div d \in Nat /\ d * (n \div d) <= n /\ n < d * (n \div d) + d
  OBVIOUS

\* The times of the code, in instants: a key put at a time, asked for later.
LEMMA Rounding ==
  ASSUME NEW at \in Nat, NEW t \in Nat, at <= t, NEW f \in Nat \ {0}, NEW ms \in Nat
  PROVE  /\ t \div f - at \div f <= ms - 1 => t - at < ms * f
         /\ t \div f - at \div f > ms - 1 => t - at > ms * f - f
<1> DEFINE a == at \div f
           q == t \div f
<1>1. a \in Nat /\ f * a <= at /\ at < f * a + f
  BY DivBounds
<1>2. q \in Nat /\ f * q <= t /\ t < f * q + f
  BY DivBounds
<1> HIDE DEF a, q
<1>3. ASSUME q - a <= ms - 1
      PROVE  t - at < ms * f
  <2>1. f * (q + 1) <= f * (a + ms)
    BY <1>1, <1>2, <1>3
  <2>2. f * (q + 1) = f * q + f /\ f * (a + ms) = f * a + ms * f
    BY <1>1, <1>2
  <2>3. f * q \in Int /\ f * a \in Int /\ ms * f \in Int
    BY <1>1, <1>2
  <2> QED
    BY <1>1, <1>2, <2>1, <2>2, <2>3
<1>4. ASSUME q - a > ms - 1
      PROVE  t - at > ms * f - f
  <2>1. f * (a + ms) <= f * q
    BY <1>1, <1>2, <1>4
  <2>2. f * (a + ms) = f * a + ms * f
    BY <1>1
  <2>3. f * q \in Int /\ f * a \in Int /\ ms * f \in Int
    BY <1>1, <1>2
  <2> QED
    BY <1>1, <1>2, <2>1, <2>2, <2>3
<1> QED
  BY <1>3, <1>4 DEF a, q

-----------------------------------------------------------------------------
LEMMA SetOfList ==
  ASSUME NEW s, NEW S, \A i \in DOMAIN s : s[i] \in S, \A x \in S : \E i \in DOMAIN s : s[i] = x
  PROVE  ToSet(s) = S
  BY DEF ToSet

\* What the list operations do to a list of different keys.
LEMMA WithoutProperties ==
  ASSUME NEW s \in Seq(Keys), IsInjective(s), NEW k
  PROVE  /\ Without(s, k) \in Seq(Keys) /\ IsInjective(Without(s, k))
         /\ ToSet(Without(s, k)) = ToSet(s) \ {k}
         /\ Len(Without(s, k)) = Len(s) - IF k \in ToSet(s) THEN 1 ELSE 0
         /\ \A i, j \in 1 .. Len(Without(s, k)) : i < j =>
              \E a, b \in 1 .. Len(s) : a < b /\ Without(s, k)[i] = s[a] /\ Without(s, k)[j] = s[b]
<1>1. Len(s) \in Nat /\ DOMAIN s = 1 .. Len(s) /\ \A i \in 1 .. Len(s) : s[i] \in Keys
  BY LenProperties, ElementOfSeq
<1>2. CASE k \notin ToSet(s)
  <2>1. Without(s, k) = s
    BY <1>2 DEF Without
  <2> QED
    BY <1>1, <1>2, <2>1
<1>3. CASE k \in ToSet(s)
  <2> DEFINE at == CHOOSE i \in DOMAIN s : s[i] = k
             n == Len(s) - 1
             t == [i \in 1 .. n |-> IF i < at THEN s[i] ELSE s[i + 1]]
  <2>1. at \in 1 .. Len(s) /\ s[at] = k
    BY <1>1, <1>3 DEF ToSet
  <2> HIDE DEF at
  <2>2. n \in Nat
    BY <1>1, <2>1
  <2>3. t \in [1 .. n -> Keys]
    BY <1>1, <2>1
  <2>4. t \in Seq(Keys) /\ Len(t) = n
    BY <2>2, <2>3
  <2>5. \A a \in 1 .. Len(s) : s[a] = k => a = at
    BY <1>1, <2>1 DEF IsInjective
  <2>6. \A i \in 1 .. n : \E a \in 1 .. Len(s) : a # at /\ t[i] = s[a] /\ a = IF i < at THEN i ELSE i + 1
    BY <1>1, <2>1
  <2>7. \A a \in 1 .. Len(s) : a # at => \E i \in 1 .. n : t[i] = s[a]
    <3> SUFFICES ASSUME NEW a \in 1 .. Len(s), a # at
                 PROVE  \E i \in 1 .. n : t[i] = s[a]
      OBVIOUS
    <3>1. CASE a < at
      <4>1. a \in 1 .. n /\ t[a] = s[a]
        BY <1>1, <2>1, <3>1
      <4> QED
        BY <4>1
    <3>2. CASE a > at
      <4>1. a - 1 \in 1 .. n /\ t[a - 1] = s[a]
        BY <1>1, <2>1, <3>2
      <4> QED
        BY <4>1
    <3> QED
      BY <1>1, <2>1, <3>1, <3>2
  <2>8. DOMAIN t = 1 .. n
    OBVIOUS
  <2> HIDE DEF t
  <2>9. ToSet(t) = ToSet(s) \ {k}
    <3>1. \A i \in 1 .. n : t[i] \in ToSet(s) /\ t[i] # k
      BY <1>1, <2>1, <2>5, <2>6 DEF ToSet
    <3>2. \A x \in ToSet(s) \ {k} : \E i \in 1 .. n : t[i] = x
      BY <1>1, <2>1, <2>7 DEF ToSet
    <3> QED
      BY <2>8, <3>1, <3>2, SetOfList
  <2>10. \A i, j \in 1 .. n : i < j =>
          \E a, b \in 1 .. Len(s) : a < b /\ t[i] = s[a] /\ t[j] = s[b]
    BY <1>1, <2>1, <2>2, <2>6
  <2>11. IsInjective(t)
    <3>1. \A i, j \in 1 .. n : t[i] = t[j] => i = j
      <4> SUFFICES ASSUME NEW i \in 1 .. n, NEW j \in 1 .. n, t[i] = t[j] PROVE i = j
        OBVIOUS
      <4>1. PICK a \in 1 .. Len(s) : t[i] = s[a] /\ a = IF i < at THEN i ELSE i + 1
        BY <2>6
      <4>2. PICK b \in 1 .. Len(s) : t[j] = s[b] /\ b = IF j < at THEN j ELSE j + 1
        BY <2>6
      <4>3. a = b
        BY <1>1, <4>1, <4>2 DEF IsInjective
      <4> QED
        BY <1>1, <2>1, <4>1, <4>2, <4>3
    <3> QED
      BY <2>8, <3>1 DEF IsInjective
  <2>12. Without(s, k) = t
    BY <1>3 DEF Without, t, at
  <2> QED
    BY <1>3, <2>4, <2>9, <2>10, <2>11, <2>12
<1> QED
  BY <1>2, <1>3

LEMMA AppendNew ==
  ASSUME NEW s \in Seq(Keys), IsInjective(s), NEW k \in Keys, k \notin ToSet(s)
  PROVE  /\ Append(s, k) \in Seq(Keys) /\ IsInjective(Append(s, k))
         /\ ToSet(Append(s, k)) = ToSet(s) \cup {k}
         /\ Len(Append(s, k)) = Len(s) + 1
         /\ \A i \in 1 .. Len(s) : Append(s, k)[i] = s[i]
         /\ Append(s, k)[Len(s) + 1] = k
<1>1. Len(s) \in Nat /\ DOMAIN s = 1 .. Len(s)
  BY LenProperties
<1> DEFINE t == Append(s, k)
<1>2. /\ t \in Seq(Keys) /\ Len(t) = Len(s) + 1
      /\ \A i \in 1 .. Len(s) : t[i] = s[i]
      /\ t[Len(s) + 1] = k
  BY AppendProperties
<1> HIDE DEF t
<1>3. DOMAIN t = 1 .. Len(s) + 1
  BY <1>1, <1>2, LenProperties
<1>4. \A i \in 1 .. Len(s) : t[i] # k
  BY <1>1, <1>2 DEF ToSet
<1>5. \A i \in 1 .. Len(s) + 1 : i \in 1 .. Len(s) \/ i = Len(s) + 1
  BY <1>1
<1>6. IsInjective(t)
  BY <1>1, <1>2, <1>3, <1>4, <1>5 DEF IsInjective
<1>7. ToSet(t) = ToSet(s) \cup {k}
  BY <1>1, <1>2, <1>3, <1>5 DEF ToSet
<1> QED
  BY <1>2, <1>6, <1>7 DEF t

LEMMA TailProperties ==
  ASSUME NEW s \in Seq(Keys), IsInjective(s), Len(s) > 0
  PROVE  /\ Head(s) = s[1] /\ Head(s) \in Keys
         /\ Tail(s) \in Seq(Keys) /\ IsInjective(Tail(s))
         /\ ToSet(Tail(s)) = ToSet(s) \ {Head(s)} /\ Head(s) \in ToSet(s)
         /\ Len(Tail(s)) = Len(s) - 1
         /\ \A i \in 1 .. Len(s) - 1 : Tail(s)[i] = s[i + 1]
<1>1. Len(s) \in Nat /\ DOMAIN s = 1 .. Len(s) /\ s # <<>>
  BY LenProperties
<1> DEFINE t == Tail(s)
<1>2. /\ Head(s) = s[1] /\ Head(s) \in Keys
      /\ t \in Seq(Keys) /\ Len(t) = Len(s) - 1
      /\ \A i \in 1 .. Len(s) - 1 : t[i] = s[i + 1]
  BY <1>1, HeadTailProperties
<1> HIDE DEF t
<1>3. DOMAIN t = 1 .. Len(s) - 1
  BY <1>2, LenProperties
<1>4. \A i \in 1 .. Len(s) - 1 : i + 1 \in 1 .. Len(s) /\ i + 1 # 1
  BY <1>1
<1>5. IsInjective(t)
  BY <1>1, <1>2, <1>3, <1>4 DEF IsInjective
<1>6. \A a \in 1 .. Len(s) : a # 1 => a - 1 \in 1 .. Len(s) - 1 /\ t[a - 1] = s[a]
  BY <1>1, <1>2
<1>7. \A a \in 1 .. Len(s) : s[a] = s[1] => a = 1
  BY <1>1 DEF IsInjective
<1>8. ToSet(t) = ToSet(s) \ {s[1]}
  <2>1. \A i \in 1 .. Len(s) - 1 : t[i] \in ToSet(s) /\ t[i] # s[1]
    BY <1>1, <1>2, <1>4, <1>7 DEF ToSet
  <2>2. \A x \in ToSet(s) \ {s[1]} : \E i \in 1 .. Len(s) - 1 : t[i] = x
    BY <1>1, <1>6 DEF ToSet
  <2> QED
    <3>1. \A i \in DOMAIN t : t[i] \in ToSet(s) \ {s[1]}
      BY <1>3, <2>1
    <3>2. \A x \in ToSet(s) \ {s[1]} : \E i \in DOMAIN t : t[i] = x
      BY <1>3, <2>2
    <3> QED
      BY <3>1, <3>2, SetOfList
<1>9. s[1] \in ToSet(s)
  BY <1>1 DEF ToSet
<1> QED
  BY <1>2, <1>5, <1>8, <1>9 DEF t

\* Taking a key out, when it is stale.
LEMMA TakeOut ==
  ASSUME NEW s \in Seq(Keys), IsInjective(s), NEW k \in Keys, k \in ToSet(s),
         NEW r, Younger(s, r)
  PROVE  /\ Without(s, k) \in Seq(Keys) /\ IsInjective(Without(s, k))
         /\ ToSet(Without(s, k)) = ToSet(s) \ {k}
         /\ Len(Without(s, k)) = Len(s) - 1
         /\ Younger(Without(s, k), r)
<1> DEFINE w == Without(s, k)
<1>1. /\ w \in Seq(Keys) /\ IsInjective(w) /\ ToSet(w) = ToSet(s) \ {k}
      /\ Len(w) = Len(s) - IF k \in ToSet(s) THEN 1 ELSE 0
      /\ \A i, j \in 1 .. Len(w) : i < j =>
           \E a, b \in 1 .. Len(s) : a < b /\ w[i] = s[a] /\ w[j] = s[b]
  BY WithoutProperties
<1> HIDE DEF w
<1>2. Younger(w, r)
  <2> SUFFICES ASSUME NEW i \in 1 .. Len(w), NEW j \in 1 .. Len(w), i < j
               PROVE  w[j] \in r[w[i]]
    BY DEF Younger
  <2>1. PICK a \in 1 .. Len(s), b \in 1 .. Len(s) : a < b /\ w[i] = s[a] /\ w[j] = s[b]
    BY <1>1
  <2> QED
    BY <2>1 DEF Younger
<1> QED
  BY <1>1, <1>2 DEF w

\* Moving a key to the end, or adding it there, as it is used.
LEMMA MoveLast ==
  ASSUME NEW s \in Seq(Keys), IsInjective(s), NEW k \in Keys,
         NEW r \in [Keys -> SUBSET Keys], Younger(s, r),
         NEW r2, r2 = [j \in Keys |-> IF j = k THEN {} ELSE r[j] \cup {k}]
  PROVE  LET t == Append(Without(s, k), k) IN
         /\ t \in Seq(Keys) /\ IsInjective(t) /\ ToSet(t) = ToSet(s) \cup {k}
         /\ Len(t) = IF k \in ToSet(s) THEN Len(s) ELSE Len(s) + 1
         /\ Younger(t, r2)
<1> DEFINE w == Without(s, k)
           t == Append(w, k)
<1>1. /\ w \in Seq(Keys) /\ IsInjective(w) /\ ToSet(w) = ToSet(s) \ {k}
      /\ Len(w) = Len(s) - IF k \in ToSet(s) THEN 1 ELSE 0
      /\ \A i, j \in 1 .. Len(w) : i < j =>
           \E a, b \in 1 .. Len(s) : a < b /\ w[i] = s[a] /\ w[j] = s[b]
  BY WithoutProperties
<1> HIDE DEF w
<1>2. /\ t \in Seq(Keys) /\ IsInjective(t) /\ ToSet(t) = ToSet(w) \cup {k}
      /\ Len(t) = Len(w) + 1
      /\ \A i \in 1 .. Len(w) : t[i] = w[i]
      /\ t[Len(w) + 1] = k
  BY <1>1, AppendNew
<1> HIDE DEF t
<1>3. Len(w) \in Nat /\ Len(s) \in Nat /\ DOMAIN w = 1 .. Len(w)
  BY <1>1, LenProperties
<1>4. \A i \in 1 .. Len(w) : w[i] \in Keys /\ w[i] # k
  <2>1. \A i \in 1 .. Len(w) : w[i] \in ToSet(w)
    BY <1>3 DEF ToSet
  <2> QED
    BY <1>1, <2>1, ElementOfSeq
<1>5. Younger(t, r2)
  <2> SUFFICES ASSUME NEW i \in 1 .. Len(t), NEW j \in 1 .. Len(t), i < j
               PROVE  t[j] \in r2[t[i]]
    BY DEF Younger
  <2>1. i \in 1 .. Len(w) /\ t[i] = w[i] /\ w[i] \in Keys /\ r2[t[i]] = r[w[i]] \cup {k}
    BY <1>2, <1>3, <1>4
  <2>2. CASE j = Len(w) + 1
    BY <1>2, <2>1, <2>2
  <2>3. CASE j # Len(w) + 1
    <3>1. j \in 1 .. Len(w) /\ t[j] = w[j]
      BY <1>2, <1>3, <2>3
    <3>2. PICK a \in 1 .. Len(s), b \in 1 .. Len(s) : a < b /\ w[i] = s[a] /\ w[j] = s[b]
      BY <1>1, <2>1, <3>1
    <3>3. w[j] \in r[w[i]]
      BY <3>2 DEF Younger
    <3> QED
      BY <2>1, <3>1, <3>3
  <2> QED
    BY <2>2, <2>3
<1>6. Len(t) = IF k \in ToSet(s) THEN Len(s) ELSE Len(s) + 1
  BY <1>1, <1>2, <1>3
<1>7. ToSet(t) = ToSet(s) \cup {k}
  BY <1>1, <1>2
<1> QED
  BY <1>2, <1>5, <1>6, <1>7 DEF t, w

-----------------------------------------------------------------------------
LEMMA Constants ==
  /\ Limits \subseteq Nat /\ Second \in Nat /\ Second > 1 /\ Fraction \in Nat \ {0}
  /\ \A ttlSec \in TtlSecs : /\ ttlSec \in Nat \ {0}
                             /\ ttlMs(ttlSec) \in Nat \ {0}
                             /\ ttlSec * Second \in Nat
                             /\ ttlMs(ttlSec) = ttlSec * Second - 1
  /\ Nil \notin [value : Nat, start : Nat, ttl : Nat]
  /\ Nil \notin [at : Nat, ttlSec : TtlSecs] /\ Nil \notin Nat
<1>1. Second \in Nat /\ Second > 1
  BY LruAssumption
<1>2. ASSUME NEW ttlSec \in TtlSecs
      PROVE  /\ ttlSec \in Nat \ {0} /\ ttlSec * Second \in Nat /\ ttlSec * Second > 1
  <2>1. ttlSec \in Nat \ {0}
    BY LruAssumption
  <2>2. ttlSec * Second = (ttlSec - 1) * Second + Second /\ (ttlSec - 1) * Second >= 0
    BY <1>1, <2>1
  <2> QED
    BY <1>1, <2>1, <2>2
<1>3. Nil \notin [at : Nat, ttlSec : TtlSecs]
  BY LruAssumption
<1> QED
  BY <1>1, <1>2, <1>3, LruAssumption DEF ttlMs

\* The list holds the keys that have an entry.
LEMMA ListHolds ==
  ASSUME IInv
  PROVE  /\ recency \in Seq(Keys) /\ IsInjective(recency) /\ ToSet(recency) = Held
         /\ Len(recency) \in Nat /\ Len(recency) <= limit /\ limit \in Nat
         /\ Cardinality(Held) = Len(recency) /\ IsFiniteSet(Held)
         /\ time \in Nat /\ now \in Nat \ {0}
<1>1. Len(recency) \in Nat
  BY LenProperties DEF IInv, TypeOK
<1>2. time \div Fraction \in Nat
  BY Constants, DivBounds DEF IInv, TypeOK
<1> QED
  BY <1>1, <1>2, Constants DEF IInv, TypeOK, Bounded, Sized, Held, now

LEMMA InitHolds == Init => IInv
<1> SUFFICES ASSUME Init PROVE IInv
  OBVIOUS
<1>1. recency \in Seq(Keys) /\ Len(recency) = 0 /\ DOMAIN recency = 1 .. 0
  BY EmptySeq, LenProperties DEF Init
<1>2. TypeOK
  BY <1>1, FS_EmptySet DEF Init, TypeOK
<1>3. Held = {} /\ ToSet(recency) = {}
  BY <1>1 DEF Init, Held, ToSet
<1>4. Bounded
  BY <1>1, <1>3, Constants DEF Init, Bounded, IsInjective, Held
<1>5. Sized
  BY <1>1, <1>3, FS_EmptySet DEF Sized
<1> QED
  BY <1>1, <1>2, <1>4, <1>5 DEF Init, IInv, Written, YoungerRivals, Younger, GoneFairly

\* The use of k makes it a rival of every other key.
LEMMA RivalsGrow ==
  ASSUME IInv, NEW k \in Keys, UsedFor(k)
  PROVE  /\ rivals' \in [Keys -> SUBSET Keys] /\ rivals'[k] = {}
         /\ \A j \in Keys : IsFiniteSet(rivals'[j])
         /\ \A j \in Keys \ {k} :
              /\ rivals'[j] = rivals[j] \cup {k}
              /\ Cardinality(rivals[j]) \in Nat /\ Cardinality(rivals'[j]) \in Nat
              /\ Cardinality(rivals'[j]) >= Cardinality(rivals[j])
<1>1. rivals' = [j \in Keys |-> IF j = k THEN {} ELSE rivals[j] \cup {k}]
  BY DEF UsedFor
<1>2. rivals \in [Keys -> SUBSET Keys] /\ \A j \in Keys : IsFiniteSet(rivals[j])
  BY DEF IInv, TypeOK
<1>3. rivals' \in [Keys -> SUBSET Keys] /\ rivals'[k] = {}
  BY <1>1, <1>2
<1>4. ASSUME NEW j \in Keys \ {k}
      PROVE  /\ rivals'[j] = rivals[j] \cup {k} /\ IsFiniteSet(rivals'[j])
             /\ Cardinality(rivals[j]) \in Nat /\ Cardinality(rivals'[j]) \in Nat
             /\ Cardinality(rivals'[j]) >= Cardinality(rivals[j])
  <2>1. rivals'[j] = rivals[j] \cup {k} /\ IsFiniteSet(rivals[j])
    BY <1>1, <1>2
  <2> QED
    BY <2>1, FS_AddElement, FS_CardinalityType
<1>5. IsFiniteSet({})
  BY FS_EmptySet
<1> QED
  BY <1>3, <1>4, <1>5

\* The list loses its head when the cache is full, and the key that goes has
\* as many rivals as the cache holds keys.
LEMMA EvictionFair ==
  ASSUME IInv, NEW k \in Keys, UsedFor(k), limit # 0
  PROVE  /\ Evicted(k) \in Seq(Keys) /\ IsInjective(Evicted(k)) /\ Younger(Evicted(k), rivals)
         /\ ToSet(Evicted(k)) = Held \ Victims(k) /\ k \notin Victims(k)
         /\ IsFiniteSet(Held \ Victims(k)) /\ Cardinality(Held \ Victims(k)) = Len(Evicted(k))
         /\ Len(Evicted(k)) <= IF k \in Held THEN limit ELSE limit - 1
         /\ \A j \in Victims(k) : j \in Keys \ {k} /\ Cardinality(rivals'[j]) >= limit
<1>1. /\ recency \in Seq(Keys) /\ IsInjective(recency) /\ ToSet(recency) = Held
      /\ Len(recency) \in Nat /\ Len(recency) <= limit /\ limit \in Nat
      /\ Cardinality(Held) = Len(recency) /\ IsFiniteSet(Held)
  BY ListHolds
<1>2. Younger(recency, rivals)
  BY DEF IInv, YoungerRivals
<1>3. CASE Victims(k) = {}
  <2>1. k \in Held \/ Len(recency) # limit
    BY <1>3 DEF Victims, Held
  <2>2. Evicted(k) = recency
    BY <1>3 DEF Evicted
  <2>3. Held \ Victims(k) = Held
    BY <1>3
  <2>4. Len(recency) <= IF k \in Held THEN limit ELSE limit - 1
    BY <1>1, <2>1
  <2> QED
    BY <1>1, <1>2, <1>3, <2>2, <2>3, <2>4
<1>4. CASE Victims(k) # {}
  <2> DEFINE v == Head(recency)
             t == Tail(recency)
  <2>1. k \notin Held /\ Len(recency) = limit /\ Victims(k) = {v} /\ Evicted(k) = t
    BY <1>4 DEF Victims, Held, Evicted
  <2>2. Len(recency) > 0
    BY <1>1, <2>1
  <2>3. /\ v = recency[1] /\ v \in Keys /\ v \in Held
        /\ t \in Seq(Keys) /\ IsInjective(t) /\ ToSet(t) = Held \ {v}
        /\ Len(t) = Len(recency) - 1
        /\ \A i \in 1 .. Len(recency) - 1 : t[i] = recency[i + 1]
    BY <1>1, <2>2, TailProperties
  <2> HIDE DEF v, t
  <2>4. Younger(t, rivals)
    <3> SUFFICES ASSUME NEW i \in 1 .. Len(t), NEW j \in 1 .. Len(t), i < j
                 PROVE  t[j] \in rivals[t[i]]
      BY DEF Younger
    <3>1. t[i] = recency[i + 1] /\ t[j] = recency[j + 1]
      BY <2>3
    <3>2. i + 1 \in 1 .. Len(recency) /\ j + 1 \in 1 .. Len(recency) /\ i + 1 < j + 1
      BY <1>1, <2>3
    <3> QED
      BY <1>2, <3>1, <3>2 DEF Younger
  <2>5. IsFiniteSet(Held \ {v}) /\ Cardinality(Held \ {v}) = limit - 1
    <3>1. Cardinality(Held \ {v}) = Cardinality(Held) - 1
      BY <1>1, <2>3, FS_RemoveElement
    <3> QED
      BY <1>1, <2>1, <2>3, <3>1, FS_RemoveElement
  <2>6. Held \ {v} \subseteq rivals[v]
    <3>1. \A x \in Held : \E i \in 1 .. Len(recency) : x = recency[i]
      BY <1>1, LenProperties DEF ToSet
    <3> SUFFICES ASSUME NEW x \in Held \ {v} PROVE x \in rivals[v]
      OBVIOUS
    <3>2. PICK i \in 1 .. Len(recency) : x = recency[i]
      BY <3>1
    <3>3. 1 < i /\ 1 \in 1 .. Len(recency)
      BY <1>1, <2>2, <2>3, <3>2
    <3> QED
      BY <1>2, <2>3, <3>2, <3>3 DEF Younger
  <2>7. v # k /\ rivals'[v] = rivals[v] \cup {k} /\ IsFiniteSet(rivals'[v])
    BY <2>1, <2>3, RivalsGrow
  <2>8. (Held \ {v}) \cup {k} \subseteq rivals'[v]
    BY <2>6, <2>7
  <2>9. Cardinality((Held \ {v}) \cup {k}) = limit
    <3>1. k \notin Held \ {v}
      BY <2>1
    <3>2. Cardinality((Held \ {v}) \cup {k}) = Cardinality(Held \ {v}) + 1
      BY <2>5, <3>1, FS_AddElement
    <3> QED
      BY <1>1, <2>5, <3>2
  <2>10. Cardinality(rivals'[v]) >= limit
    BY <1>1, <2>7, <2>8, <2>9, FS_Subset, FS_CardinalityType
  <2>11. Len(t) = limit - 1 /\ Len(t) <= limit - 1
    BY <1>1, <2>1, <2>3
  <2> QED
    BY <2>1, <2>3, <2>4, <2>5, <2>7, <2>10, <2>11
<1> QED
  BY <1>3, <1>4

-----------------------------------------------------------------------------
\* A put: the entry it writes, what it evicts, and what becomes of the others.
LEMMA PutHolds ==
  ASSUME IInv, NEW k \in Keys, NEW ttlSec \in TtlSecs, Put(k, ttlSec)
  PROVE  IInv'
<1>1. /\ recency \in Seq(Keys) /\ IsInjective(recency) /\ ToSet(recency) = Held
      /\ Len(recency) \in Nat /\ Len(recency) <= limit /\ limit \in Nat
      /\ Cardinality(Held) = Len(recency) /\ IsFiniteSet(Held)
      /\ time \in Nat /\ now \in Nat \ {0}
  BY ListHolds
<1>2. /\ UsedFor(k) /\ time' = time /\ limit' = limit
      /\ last' = [last EXCEPT ![k] = [at |-> time, ttlSec |-> ttlSec]]
  BY DEF Put
<1>3. /\ rivals' \in [Keys -> SUBSET Keys] /\ rivals'[k] = {}
      /\ \A j \in Keys : IsFiniteSet(rivals'[j])
      /\ \A j \in Keys \ {k} :
           /\ rivals'[j] = rivals[j] \cup {k}
           /\ Cardinality(rivals[j]) \in Nat /\ Cardinality(rivals'[j]) \in Nat
           /\ Cardinality(rivals'[j]) >= Cardinality(rivals[j])
  BY <1>2, RivalsGrow
<1>4. /\ last' \in [Keys -> [at : Nat, ttlSec : TtlSecs] \cup {Nil}]
      /\ last'[k] = [at |-> time, ttlSec |-> ttlSec] /\ last'[k] # Nil
      /\ \A j \in Keys \ {k} : last'[j] = last[j]
  <2>1. last \in [Keys -> [at : Nat, ttlSec : TtlSecs] \cup {Nil}]
    BY DEF IInv, TypeOK
  <2>2. [at |-> time, ttlSec |-> ttlSec] \in [at : Nat, ttlSec : TtlSecs]
    BY <1>1
  <2> QED
    BY <1>2, <2>1, <2>2, Constants
<1>5. CASE limit = 0
  <2>1. entry' = entry /\ recency' = recency
    BY <1>5 DEF Put
  <2>2. \A j \in Keys : entry[j] = Nil
    <3>1. Held = {}
      BY <1>1, <1>5, FS_EmptySet
    <3> QED
      BY <3>1 DEF Held
  <2>3. Len(recency) = 0
    BY <1>1, <1>5
  <2>4. TypeOK'
    BY <1>2, <1>3, <1>4, <2>1 DEF IInv, TypeOK
  <2>5. Bounded' /\ Sized'
    BY <1>2, <2>1 DEF IInv, Bounded, Sized, Held
  <2>6. Written'
    BY <2>1, <2>2 DEF Written
  <2>7. YoungerRivals'
    <3>1. 1 .. Len(recency') = {}
      BY <2>1, <2>3
    <3> QED
      BY <3>1 DEF YoungerRivals, Younger
  <2>8. GoneFairly'
    <3>1. \A j \in Keys : Cardinality(rivals'[j]) \in Nat
      BY <1>3, FS_CardinalityType
    <3>2. \A j \in Keys : Cardinality(rivals'[j]) >= limit'
      BY <1>2, <1>5, <3>1
    <3> QED
      BY <3>2 DEF GoneFairly
  <2> QED
    BY <2>4, <2>5, <2>6, <2>7, <2>8 DEF IInv
<1>6. CASE limit # 0
  <2> DEFINE e == NewEntry(k, ttlSec)
             V == Victims(k)
             s == Evicted(k)
  <2>1. /\ s \in Seq(Keys) /\ IsInjective(s) /\ Younger(s, rivals)
        /\ ToSet(s) = Held \ V /\ k \notin V
        /\ IsFiniteSet(Held \ V) /\ Cardinality(Held \ V) = Len(s)
        /\ Len(s) <= IF k \in Held THEN limit ELSE limit - 1
        /\ \A j \in V : j \in Keys \ {k} /\ Cardinality(rivals'[j]) >= limit
    BY <1>2, <1>6, EvictionFair
  <2>2. /\ entry' = [j \in Keys |-> IF j = k THEN e ELSE IF j \in V THEN Nil ELSE entry[j]]
        /\ recency' = Append(Without(s, k), k)
    BY <1>6 DEF Put
  <2>3. /\ e \in [value : Nat, start : Nat, ttl : Nat] /\ e # Nil
        /\ e = [value |-> time, ttl |-> ttlMs(ttlSec), start |-> time \div Fraction + 1]
    BY <1>1, Constants DEF NewEntry, now
  <2> HIDE DEF e, V, s
  <2>4. /\ recency' \in Seq(Keys) /\ IsInjective(recency') /\ ToSet(recency') = ToSet(s) \cup {k}
        /\ Len(recency') = IF k \in ToSet(s) THEN Len(s) ELSE Len(s) + 1
        /\ Younger(recency', rivals')
    <3>1. rivals \in [Keys -> SUBSET Keys]
      BY DEF IInv, TypeOK
    <3>2. rivals' = [j \in Keys |-> IF j = k THEN {} ELSE rivals[j] \cup {k}]
      BY <1>2 DEF UsedFor
    <3> QED
      BY <2>1, <2>2, <3>1, <3>2, MoveLast
  <2>5. /\ entry'[k] = e
        /\ \A j \in Keys \ {k} : entry'[j] = IF j \in V THEN Nil ELSE entry[j]
    BY <2>2
  <2>6. Held' = (Held \ V) \cup {k}
    BY <2>1, <2>3, <2>5 DEF Held
  <2>7. Len(s) \in Nat
    BY <2>1, LenProperties
  <2>8. TypeOK'
    <3>1. entry' \in [Keys -> [value : Nat, start : Nat, ttl : Nat] \cup {Nil}]
      BY <2>2, <2>3 DEF IInv, TypeOK
    <3> QED
      BY <1>2, <1>3, <1>4, <2>4, <3>1 DEF IInv, TypeOK
  <2>9. Bounded'
    <3>1. Len(recency') <= limit
      BY <1>1, <2>1, <2>4, <2>7
    <3>2. ToSet(recency') = Held'
      BY <2>1, <2>4, <2>6
    <3> QED
      BY <1>2, <2>4, <3>1, <3>2 DEF Bounded, Held
  <2>10. Sized'
    <3>1. CASE k \in Held
      <4>1. Held' = Held \ V /\ k \in ToSet(s)
        BY <2>1, <2>6, <3>1
      <4> QED
        BY <2>1, <2>4, <4>1 DEF Sized
    <3>2. CASE k \notin Held
      <4>1. k \notin Held \ V /\ k \notin ToSet(s)
        BY <2>1, <3>2
      <4>2. IsFiniteSet(Held') /\ Cardinality(Held') = Cardinality(Held \ V) + 1
        BY <2>1, <2>6, <4>1, FS_AddElement
      <4> QED
        BY <2>1, <2>4, <4>1, <4>2 DEF Sized
    <3> QED
      BY <3>1, <3>2
  <2>11. Written'
    <3> SUFFICES ASSUME NEW j \in Keys, entry'[j] # Nil
                 PROVE  /\ last'[j] # Nil /\ last'[j].at <= time
                        /\ entry'[j] = [value |-> last'[j].at, ttl |-> ttlMs(last'[j].ttlSec),
                                        start |-> last'[j].at \div Fraction + 1]
      BY <1>2 DEF Written
    <3>1. CASE j = k
      BY <1>1, <1>4, <2>3, <2>5, <3>1
    <3>2. CASE j # k
      <4>1. entry'[j] = entry[j] /\ last'[j] = last[j]
        BY <1>4, <2>5, <3>2
      <4> QED
        BY <4>1 DEF IInv, Written
    <3> QED
      BY <3>1, <3>2
  <2>12. GoneFairly'
    <3> SUFFICES ASSUME NEW j \in Keys, last'[j] # Nil, entry'[j] = Nil
                 PROVE  Cardinality(rivals'[j]) >= limit \/ Age(j)' > Lifetime(j)' - Fraction
      BY <1>2 DEF GoneFairly
    <3>1. j # k
      BY <2>3, <2>5
    <3>2. CASE j \in V
      BY <2>1, <3>2
    <3>3. CASE j \notin V
      <4>1. entry[j] = Nil /\ last[j] # Nil /\ last'[j] = last[j]
        BY <1>4, <2>5, <3>1, <3>3
      <4>2. Cardinality(rivals[j]) >= limit \/ Age(j) > Lifetime(j) - Fraction
        BY <4>1 DEF IInv, GoneFairly
      <4>3. Age(j)' = Age(j) /\ Lifetime(j)' = Lifetime(j)
        BY <1>2, <4>1 DEF Age, Lifetime
      <4>4. Cardinality(rivals[j]) >= limit => Cardinality(rivals'[j]) >= limit
        BY <1>1, <1>3, <3>1
      <4> QED
        BY <4>2, <4>3, <4>4
    <3> QED
      BY <3>2, <3>3
  <2> QED
    BY <2>4, <2>8, <2>9, <2>10, <2>11, <2>12 DEF IInv, YoungerRivals
<1> QED
  BY <1>5, <1>6

\* A hit moves its key to the end of the list and makes it a rival.
LEMMA GetHitHolds ==
  ASSUME IInv, NEW k \in Keys, GetHit(k)
  PROVE  IInv'
<1>1. /\ recency \in Seq(Keys) /\ IsInjective(recency) /\ ToSet(recency) = Held
      /\ Len(recency) \in Nat /\ Len(recency) <= limit /\ limit \in Nat
  BY ListHolds
<1>2. /\ UsedFor(k) /\ time' = time /\ limit' = limit /\ last' = last /\ entry' = entry
      /\ recency' = Append(Without(recency, k), k) /\ k \in Held
  BY DEF GetHit, RecencyAfterHit, Shown, Held
<1>3. /\ rivals' \in [Keys -> SUBSET Keys] /\ rivals'[k] = {}
      /\ \A j \in Keys : IsFiniteSet(rivals'[j])
      /\ \A j \in Keys \ {k} :
           /\ Cardinality(rivals[j]) \in Nat /\ Cardinality(rivals'[j]) \in Nat
           /\ Cardinality(rivals'[j]) >= Cardinality(rivals[j])
  BY <1>2, RivalsGrow
<1>4. /\ recency' \in Seq(Keys) /\ IsInjective(recency') /\ ToSet(recency') = Held
      /\ Len(recency') = Len(recency) /\ Younger(recency', rivals')
  <2>1. rivals \in [Keys -> SUBSET Keys] /\ Younger(recency, rivals)
    BY DEF IInv, TypeOK, YoungerRivals
  <2>2. rivals' = [j \in Keys |-> IF j = k THEN {} ELSE rivals[j] \cup {k}]
    BY <1>2 DEF UsedFor
  <2>3. /\ recency' \in Seq(Keys) /\ IsInjective(recency') /\ Younger(recency', rivals')
        /\ ToSet(recency') = ToSet(recency) \cup {k}
        /\ Len(recency') = IF k \in ToSet(recency) THEN Len(recency) ELSE Len(recency) + 1
    BY <1>1, <1>2, <2>1, <2>2, MoveLast
  <2> QED
    BY <1>1, <1>2, <2>3
<1>5. TypeOK'
  BY <1>2, <1>3, <1>4 DEF IInv, TypeOK
<1>6. Bounded' /\ Sized'
  BY <1>1, <1>2, <1>4 DEF IInv, Bounded, Sized, Held
<1>7. Written'
  BY <1>2 DEF IInv, Written
<1>8. GoneFairly'
  <2> SUFFICES ASSUME NEW j \in Keys, last[j] # Nil, entry[j] = Nil
               PROVE  Cardinality(rivals'[j]) >= limit \/ Age(j) > Lifetime(j) - Fraction
    BY <1>2 DEF GoneFairly, Age, Lifetime
  <2>1. j # k
    BY <1>2 DEF Held
  <2>2. Cardinality(rivals[j]) >= limit \/ Age(j) > Lifetime(j) - Fraction
    BY DEF IInv, GoneFairly
  <2>3. Cardinality(rivals[j]) >= limit => Cardinality(rivals'[j]) >= limit
    BY <1>1, <1>3, <2>1
  <2> QED
    BY <2>2, <2>3
<1> QED
  BY <1>4, <1>5, <1>6, <1>7, <1>8 DEF IInv, YoungerRivals

\* What the rounded clock says of an entry's age.
LEMMA ClockSays ==
  ASSUME IInv, NEW k \in Keys, entry[k] # Nil
  PROVE  /\ last[k] # Nil /\ entry[k].value = last[k].at
         /\ Stale(entry[k]) => Age(k) > Lifetime(k) - Fraction
         /\ ~ Stale(entry[k]) => Age(k) < Lifetime(k)
<1> DEFINE at == last[k].at
           ms == last[k].ttlSec * Second
<1>1. time \in Nat /\ Fraction \in Nat \ {0}
  BY Constants DEF IInv, TypeOK
<1>2. /\ last[k] # Nil /\ at <= time
      /\ entry[k] = [value |-> at, ttl |-> ttlMs(last[k].ttlSec), start |-> at \div Fraction + 1]
  BY DEF IInv, Written
<1>3. at \in Nat /\ last[k].ttlSec \in TtlSecs
  BY <1>2 DEF IInv, TypeOK
<1>4. ms \in Nat /\ ttlMs(last[k].ttlSec) = ms - 1 /\ ttlMs(last[k].ttlSec) # 0
  BY <1>3, Constants
<1>5. at \div Fraction \in Nat /\ time \div Fraction \in Nat
  BY <1>1, <1>3, DivBounds
<1>6. /\ entry[k].value = at /\ entry[k].ttl = ms - 1 /\ entry[k].ttl # 0
      /\ entry[k].start = at \div Fraction + 1
  BY <1>2, <1>4
<1>7. Stale(entry[k]) <=> time \div Fraction - at \div Fraction > ms - 1
  BY <1>4, <1>5, <1>6 DEF Stale, now
<1>8. Age(k) = time - at /\ Lifetime(k) = ms * Fraction
  BY DEF Age, Lifetime
<1> HIDE DEF at, ms
<1>9. /\ time \div Fraction - at \div Fraction <= ms - 1 => time - at < ms * Fraction
      /\ time \div Fraction - at \div Fraction > ms - 1 => time - at > ms * Fraction - Fraction
  BY <1>1, <1>2, <1>3, <1>4, Rounding DEF at
<1>10. ~ Stale(entry[k]) => time \div Fraction - at \div Fraction <= ms - 1
  BY <1>4, <1>5, <1>7
<1> QED
  BY <1>2, <1>6, <1>7, <1>8, <1>9, <1>10 DEF at

\* A get that finds its entry stale deletes it.
LEMMA GetStaleHolds ==
  ASSUME IInv, NEW k \in Keys, GetStale(k)
  PROVE  IInv'
<1>1. /\ recency \in Seq(Keys) /\ IsInjective(recency) /\ ToSet(recency) = Held
      /\ Len(recency) \in Nat /\ Len(recency) <= limit /\ limit \in Nat
      /\ Cardinality(Held) = Len(recency) /\ IsFiniteSet(Held)
  BY ListHolds
<1>2. /\ entry' = [entry EXCEPT ![k] = Nil] /\ recency' = Without(recency, k)
      /\ time' = time /\ limit' = limit /\ last' = last /\ rivals' = rivals
      /\ entry[k] # Nil /\ Stale(entry[k]) /\ k \in Held
  BY DEF GetStale, Held
<1>3. /\ recency' \in Seq(Keys) /\ IsInjective(recency') /\ ToSet(recency') = Held \ {k}
      /\ Len(recency') = Len(recency) - 1 /\ Younger(recency', rivals)
  <2>1. Younger(recency, rivals)
    BY DEF IInv, YoungerRivals
  <2> QED
    BY <1>1, <1>2, <2>1, TakeOut
<1>4. entry'[k] = Nil /\ \A j \in Keys \ {k} : entry'[j] = entry[j]
  BY <1>2 DEF IInv, TypeOK
<1>5. Held' = Held \ {k}
  BY <1>4 DEF Held
<1>6. TypeOK'
  BY <1>2, <1>3 DEF IInv, TypeOK
<1>7. Bounded'
  BY <1>1, <1>2, <1>3, <1>5 DEF Bounded, Held
<1>8. Sized'
  <2>1. IsFiniteSet(Held \ {k}) /\ Cardinality(Held \ {k}) = Cardinality(Held) - 1
    BY <1>1, <1>2, FS_RemoveElement
  <2> QED
    BY <1>1, <1>3, <1>5, <2>1 DEF Sized
<1>9. Written'
  <2>1. \A j \in Keys : entry'[j] # Nil => entry'[j] = entry[j]
    BY <1>4
  <2> QED
    BY <1>2, <2>1 DEF IInv, Written
<1>10. YoungerRivals'
  BY <1>2, <1>3 DEF YoungerRivals
<1>11. GoneFairly'
  <2> SUFFICES ASSUME NEW j \in Keys, last[j] # Nil, entry'[j] = Nil
               PROVE  Cardinality(rivals[j]) >= limit \/ Age(j) > Lifetime(j) - Fraction
    BY <1>2 DEF GoneFairly, Age, Lifetime
  <2>1. CASE j = k
    BY <1>2, <2>1, ClockSays
  <2>2. CASE j # k
    BY <1>4, <2>2 DEF IInv, GoneFairly
  <2> QED
    BY <2>1, <2>2
<1> QED
  BY <1>6, <1>7, <1>8, <1>9, <1>10, <1>11 DEF IInv

LEMMA TickHolds == IInv /\ Tick => IInv'
<1> SUFFICES ASSUME IInv, Tick PROVE IInv'
  OBVIOUS
<1>1. /\ time' = time + 1 /\ time \in Nat
      /\ UNCHANGED <<limit, entry, recency, last, rivals>>
  BY DEF Tick, IInv, TypeOK
<1>2. TypeOK' /\ Bounded' /\ Sized' /\ YoungerRivals'
  BY <1>1 DEF IInv, TypeOK, Bounded, Sized, Held, YoungerRivals, Younger
<1>3. Written'
  <2>1. \A k \in Keys : last[k] # Nil => last[k].at \in Nat
    BY DEF IInv, TypeOK
  <2> QED
    BY <1>1, <2>1 DEF IInv, Written
<1>4. GoneFairly'
  <2> SUFFICES ASSUME NEW k \in Keys, last[k] # Nil, entry[k] = Nil
               PROVE  Cardinality(rivals[k]) >= limit \/ Age(k)' > Lifetime(k) - Fraction
    BY <1>1 DEF GoneFairly, Lifetime
  <2>1. Cardinality(rivals[k]) >= limit \/ Age(k) > Lifetime(k) - Fraction
    BY DEF IInv, GoneFairly
  <2>2. last[k].at \in Nat /\ last[k].ttlSec \in TtlSecs
    BY DEF IInv, TypeOK
  <2>3. Lifetime(k) \in Nat
    BY <2>2, Constants DEF Lifetime
  <2>4. Age(k)' = Age(k) + 1 /\ Age(k) \in Int
    BY <1>1, <2>2 DEF Age
  <2> QED
    BY <2>1, <2>3, <2>4, Constants
<1> QED
  BY <1>2, <1>3, <1>4 DEF IInv

LEMMA StutterHolds == IInv /\ UNCHANGED vars => IInv'
BY DEF vars, IInv, TypeOK, Bounded, Sized, Held, Written, YoungerRivals, Younger, GoneFairly,
       Age, Lifetime

\* The invariant holds in every state of the cache (local-cache.ts:15-123
\* over lru-cache), whatever the puts, hits and expiries.
THEOREM InvariantHolds == Spec => []IInv
<1>1. IInv /\ [Next]_vars => IInv'
  <2> SUFFICES ASSUME IInv, [Next]_vars PROVE IInv'
    OBVIOUS
  <2>1. ASSUME NEW k \in Keys, NEW ttlSec \in TtlSecs, Put(k, ttlSec) PROVE IInv'
    BY <2>1, PutHolds
  <2>2. ASSUME NEW k \in Keys, GetHit(k) PROVE IInv'
    BY <2>2, GetHitHolds
  <2>3. ASSUME NEW k \in Keys, GetStale(k) PROVE IInv'
    BY <2>3, GetStaleHolds
  <2>4. CASE Tick
    BY <2>4, TickHolds
  <2>5. CASE UNCHANGED vars
    BY <2>5, StutterHolds
  <2> QED
    BY <2>1, <2>2, <2>3, <2>4, <2>5 DEF Next
<1> QED
  BY <1>1, InitHolds, PTL DEF Spec

\* The list and the entries always agree, and never exceed maxSize.
THEOREM BoundedHolds == Spec => []Bounded
<1>1. IInv => Bounded
  BY DEF IInv
<1> QED
  BY <1>1, InvariantHolds, PTL

\* A hit is always the value put last, and less than its TTL old.
THEOREM ServedInTimeHolds == Spec => []ServedInTime
<1>1. IInv => ServedInTime
  <2> SUFFICES ASSUME IInv, NEW k \in Keys, Shown(k) # Nil
               PROVE  Shown(k) = last[k].at /\ Age(k) < Lifetime(k)
    BY DEF ServedInTime
  <2>1. entry[k] # Nil /\ ~ Stale(entry[k]) /\ Shown(k) = entry[k].value
    BY DEF Shown
  <2> QED
    BY <2>1, ClockSays
<1> QED
  BY <1>1, InvariantHolds, PTL

\* An entry is there until a millisecond before its TTL, unless as many other
\* keys as the cache may hold were used since it was.
THEOREM NotLostEarlyHolds == Spec => []NotLostEarly
<1>1. IInv => NotLostEarly
  <2> SUFFICES ASSUME IInv, NEW k \in Keys, last[k] # Nil,
                      Age(k) <= Lifetime(k) - Fraction, Cardinality(rivals[k]) < limit
               PROVE  Shown(k) # Nil
    BY DEF NotLostEarly
  <2>1. last[k].at \in Nat /\ last[k].ttlSec \in TtlSecs /\ time \in Nat /\ limit \in Nat
    BY Constants DEF IInv, TypeOK
  <2>2. Age(k) \in Int /\ Lifetime(k) - Fraction \in Int
    BY <2>1, Constants DEF Age, Lifetime
  <2>3. Cardinality(rivals[k]) \in Nat
    BY FS_CardinalityType DEF IInv, TypeOK
  <2>4. ~ (Cardinality(rivals[k]) >= limit) /\ ~ (Age(k) > Lifetime(k) - Fraction)
    BY <2>1, <2>2, <2>3
  <2>5. entry[k] # Nil
    BY <2>4 DEF IInv, GoneFairly
  <2>6. ~ Stale(entry[k]) /\ entry[k].value = last[k].at
    BY <2>4, <2>5, ClockSays
  <2> QED
    BY <2>1, <2>5, <2>6, Constants DEF Shown
<1> QED
  BY <1>1, InvariantHolds, PTL
=============================================================================
