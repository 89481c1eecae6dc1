------------------------------ MODULE LocalLru ------------------------------
(***************************************************************************)
(* The process-local cache (src/internal/local-cache.ts): an lru-cache 11  *)
(* bounded by maxSize entries of size one, with a TTL per entry, under a   *)
(* clock of whole milliseconds.  Time itself is finer: Fraction instants   *)
(* make a millisecond.  A value is known by the instant it was put.        *)
(***************************************************************************)
EXTENDS Integers, SequencesExt

CONSTANTS Keys,
          Limits,      \* maxSize, as configured
          TtlSecs,     \* the TTLs that layer configs resolve to
          Second,      \* milliseconds in a second, fewer than 1000 when checked
          Fraction,    \* instants in a millisecond
          Nil,
          MaxTime      \* bound on the time, for model checking

ASSUME LruAssumption ==
  /\ Limits \subseteq Nat
  /\ TtlSecs \subseteq Nat \ {0}
  /\ Second \in Nat \ {0, 1} /\ Fraction \in Nat \ {0} /\ MaxTime \in Nat
  /\ Nil \notin [value : Nat, start : Nat, ttl : Nat]
  /\ Nil \notin [at : Nat, ttlSec : Nat] /\ Nil \notin Nat

VARIABLES time,        \* performance.now()
          limit,       \* of this cache
          entry,       \* what lru-cache keeps under a key
          recency,     \* its keys, the least recently used first
          last,        \* history: Nil or [at, ttlSec] of the last put of a key
          rivals       \* history: keys used since the key itself was

vars == <<time, limit, entry, recency, last, rivals>>

Init ==
  /\ time = 0
  /\ limit \in Limits
  /\ entry = [k \in Keys |-> Nil]
  /\ recency = <<>>
  /\ last = [k \in Keys |-> Nil]
  /\ rivals = [k \in Keys |-> {}]

-----------------------------------------------------------------------------
nowFromZero == time \div Fraction                          \* faulty variant
now == time \div Fraction + 1

\* isStale of lru-cache: a zero start or TTL means that nothing expires.
Stale(e) == e.ttl # 0 /\ e.start # 0 /\ now - e.start > e.ttl

\* What get() would return.
Shown(k) == IF entry[k] # Nil /\ ~ Stale(entry[k]) THEN entry[k].value ELSE Nil

\* Faulty variant: the millisecond of the boundary is taken off twice.
ttlMsTwice(ttlSec) == ttlSec * Second - 2
ttlMs(ttlSec) == ttlSec * Second - 1

NewEntry(k, ttlSec) == [value |-> time, ttl |-> ttlMs(ttlSec), start |-> now]

\* evict() until the new entry fits; one that replaces another fits.
VictimsLate(k) ==                                          \* faulty variant
  IF entry[k] = Nil /\ Len(recency) > limit THEN {Head(recency)} ELSE {}
Victims(k) == IF entry[k] = Nil /\ Len(recency) = limit THEN {Head(recency)} ELSE {}

Evicted(k) == IF Victims(k) = {} THEN recency ELSE Tail(recency)

\* A list of different keys without one of them.
Without(s, k) ==
  LET at == CHOOSE i \in DOMAIN s : s[i] = k IN
  IF k \in ToSet(s) THEN [i \in 1 .. Len(s) - 1 |-> IF i < at THEN s[i] ELSE s[i + 1]] ELSE s

UsedFor(k) == rivals' = [j \in Keys |-> IF j = k THEN {} ELSE rivals[j] \cup {k}]

-----------------------------------------------------------------------------
\* LocalCache.put; a cache of size zero does not exist.
Put(k, ttlSec) ==
  /\ last' = [last EXCEPT ![k] = [at |-> time, ttlSec |-> ttlSec]]
  /\ UsedFor(k)
  /\ IF limit = 0
       THEN UNCHANGED <<entry, recency>>
       ELSE /\ entry' = [j \in Keys |-> IF j = k THEN NewEntry(k, ttlSec)
                                        ELSE IF j \in Victims(k) THEN Nil ELSE entry[j]]
            /\ recency' = Append(Without(Evicted(k), k), k)
  /\ UNCHANGED <<time, limit>>

\* getWithResolvedConfig: a hit is used most recently, a stale entry goes.
RecencyAfterHit(k) == Append(Without(recency, k), k)

GetHit(k) ==
  /\ Shown(k) # Nil
  /\ recency' = RecencyAfterHit(k)
  /\ UsedFor(k)
  /\ UNCHANGED <<time, limit, entry, last>>

GetStale(k) ==
  /\ entry[k] # Nil /\ Stale(entry[k])
  /\ entry' = [entry EXCEPT ![k] = Nil]
  /\ recency' = Without(recency, k)
  /\ UNCHANGED <<time, limit, last, rivals>>

Tick ==
  /\ time < MaxTime
  /\ time' = time + 1
  /\ UNCHANGED <<limit, entry, recency, last, rivals>>

Next ==
  \/ \E k \in Keys, ttlSec \in TtlSecs : Put(k, ttlSec)
  \/ \E k \in Keys : GetHit(k) \/ GetStale(k)
  \/ Tick

Spec == Init /\ [][Next]_vars

-----------------------------------------------------------------------------
\* The recency list and the entries agree, within the configured bound: the
\* size accounting of puts, replacements and stale deletions never drifts.
Bounded ==
  /\ Len(recency) <= limit
  /\ IsInjective(recency)
  /\ ToSet(recency) = {k \in Keys : entry[k] # Nil}

Age(k) == time - last[k].at
Lifetime(k) == last[k].ttlSec * Second * Fraction

\* A hit is the value put last, strictly before its TTL has passed in real
\* time, although both ends are read from a clock that rounds and whose
\* first millisecond is lru-cache's "never expires" (local-cache.ts:33-38,
\* 100-103).
ServedInTime == \A k \in Keys : Shown(k) # Nil => Shown(k) = last[k].at /\ Age(k) < Lifetime(k)

\* An entry is not lost more than a millisecond early, unless as many other
\* keys as the cache may hold were used since it was.
NotLostEarly ==
  \A k \in Keys :
    /\ last[k] # Nil
    /\ Age(k) <= Lifetime(k) - Fraction
    /\ Cardinality(rivals[k]) < limit
    => Shown(k) # Nil
=============================================================================
