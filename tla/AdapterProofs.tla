--------------------------- MODULE AdapterProofs ---------------------------
(***************************************************************************)
(* Proofs about the adapters to other libraries: GlideAdapter for any sets *)
(* of adapters and invocations, PrometheusCollectors for any adapters and  *)
(* prefixes and whatever other code registers.                             *)
(*                                                                         *)
(* GlideAdapter: the counter is the number of invocations in flight, only  *)
(* an adapter that is ready has any, and one that is ready holds all its   *)
(* handles.  PrometheusCollectors: what a constructor validated stays as   *)
(* it was (MadeValidated), for no name is free any more that other code    *)
(* could register under; so every sample meets a collector that records    *)
(* it: of its type, with its labels, not in exemplar mode.                 *)
(***************************************************************************)
EXTENDS GlideAdapter, PrometheusCollectors, FiniteSetTheorems, SequenceTheorems, TLAPS

OnlyReadyBusy == \A a \in Adapters : state[a] # "ready" => active[a] = 0
ReadyHoldsAll == \A a \in Adapters : state[a] = "ready" => held[a] = Scripts

\* The inductive invariant.
IInv == TypeOK /\ CountExact /\ OnlyReadyBusy /\ ReadyHoldsAll

LEMMA FirstOfScripts ==
  ASSUME NEW n \in 0 .. 5
  PROVE  FirstScripts(n) \subseteq Scripts /\ (n = 5 => FirstScripts(n) = Scripts)
  BY DEF FirstScripts, Scripts

LEMMA CountType ==
  ASSUME NEW a \in Adapters
  PROVE  IsFiniteSet(InFlight(a)) /\ Cardinality(InFlight(a)) \in Nat
<1>1. InFlight(a) \in SUBSET Calls
  BY DEF InFlight
<1> QED
  BY <1>1, CallAssumption, FS_Subset, FS_CardinalityType

LEMMA InitHolds == Init => IInv
<1> SUFFICES ASSUME Init PROVE IInv
  OBVIOUS
<1>1. TypeOK /\ OnlyReadyBusy /\ ReadyHoldsAll
  BY DEF Init, TypeOK, OnlyReadyBusy, ReadyHoldsAll
<1>2. \A a \in Adapters : InFlight(a) = {}
  BY DEF Init, InFlight
<1>3. CountExact
  BY <1>2, FS_EmptySet DEF Init, CountExact
<1> QED
  BY <1>1, <1>3 DEF IInv

\* An invocation joins those in flight on its adapter.
LEMMA InvokeHolds ==
  ASSUME IInv, NEW c \in Calls, NEW a \in Adapters, NEW script \in Scripts, Invoke(c, a, script)
  PROVE  IInv'
<1>1. /\ call[c] = Nil /\ state[a] = "ready"
      /\ active' = [active EXCEPT ![a] = @ + 1]
      /\ call' = [call EXCEPT ![c] = [adapter |-> a, script |-> script, settled |-> FALSE]]
      /\ UNCHANGED <<state, held, draining>>
  BY DEF Invoke, MayInvoke, ActiveAfterInvoke
<1>2. [adapter |-> a, script |-> script, settled |-> FALSE] \in Invocations
  BY DEF Invocations
<1>3. TypeOK'
  BY <1>1, <1>2 DEF IInv, TypeOK
<1>4. InFlight(a)' = InFlight(a) \cup {c} /\ c \notin InFlight(a)
  BY <1>1, <1>2, CallAssumption DEF InFlight, IInv, TypeOK
<1>5. \A b \in Adapters : b # a => InFlight(b)' = InFlight(b)
  BY <1>1, <1>2, CallAssumption DEF InFlight, IInv, TypeOK
<1>6. Cardinality(InFlight(a)') = Cardinality(InFlight(a)) + 1
  BY <1>4, CountType, FS_AddElement
<1>7. CountExact'
  BY <1>1, <1>5, <1>6 DEF IInv, TypeOK, CountExact
<1>8. OnlyReadyBusy' /\ ReadyHoldsAll'
  BY <1>1 DEF IInv, TypeOK, OnlyReadyBusy, ReadyHoldsAll
<1> QED
  BY <1>3, <1>7, <1>8 DEF IInv

\* One that returns leaves them, so that the counter was not zero.
LEMMA ReturnHolds ==
  ASSUME IInv, NEW c \in Calls, Return(c)
  PROVE  IInv'
<1>a. PICK a \in Adapters : a = call[c].adapter
  BY DEF Return, IInv, TypeOK, Invocations
<1>1. /\ call[c] # Nil /\ call[c].adapter = a
      /\ active' = [active EXCEPT ![a] = @ - 1]
      /\ call' = [call EXCEPT ![c] = Nil]
      /\ UNCHANGED <<state, held, draining>>
  BY <1>a DEF Return, ActiveAfterReturn
<1>0. \A d \in Calls : call'[d] = IF d = c THEN Nil ELSE call[d]
  BY <1>1 DEF IInv, TypeOK
<1>2. InFlight(a)' = InFlight(a) \ {c} /\ c \in InFlight(a)
  BY <1>0, <1>1 DEF InFlight
<1>3. \A b \in Adapters : b # a => InFlight(b)' = InFlight(b)
  BY <1>0, <1>1 DEF InFlight
<1>4. Cardinality(InFlight(a)') = Cardinality(InFlight(a)) - 1
  BY <1>1, <1>2, CountType, FS_RemoveElement
<1>5. active[a] = Cardinality(InFlight(a)) /\ active[a] # 0
  BY <1>1, <1>2, CountType, FS_EmptySet DEF IInv, CountExact
<1>6. active[a] \in Nat /\ active[a] - 1 \in Nat
  BY <1>1, <1>5 DEF IInv, TypeOK
<1>7. TypeOK'
  <2>1. active' \in [Adapters -> Nat]
    BY <1>1, <1>6 DEF IInv, TypeOK
  <2>2. call' \in [Calls -> Invocations \cup {Nil}]
    BY <1>1 DEF IInv, TypeOK
  <2> QED
    BY <1>1, <2>1, <2>2 DEF IInv, TypeOK
<1>8. CountExact'
  <2>1. active'[a] = Cardinality(InFlight(a)')
    BY <1>1, <1>4, <1>5 DEF IInv, TypeOK
  <2>2. \A b \in Adapters : b # a => active'[b] = active[b]
    BY <1>1 DEF IInv, TypeOK
  <2>3. \A b \in Adapters : active[b] = Cardinality(InFlight(b))
    BY DEF IInv, CountExact
  <2>4. \A b \in Adapters : active'[b] = Cardinality(InFlight(b)')
    BY <1>3, <2>1, <2>2, <2>3
  <2> QED
    BY <2>4 DEF CountExact
<1>9. OnlyReadyBusy' /\ ReadyHoldsAll'
  BY <1>1, <1>5 DEF IInv, TypeOK, OnlyReadyBusy, ReadyHoldsAll
<1> QED
  BY <1>7, <1>8, <1>9 DEF IInv

LEMMA SettleHolds ==
  ASSUME IInv, NEW c \in Calls, Settle(c)
  PROVE  IInv'
<1>1. /\ call[c] # Nil /\ call' = [call EXCEPT ![c].settled = TRUE]
      /\ UNCHANGED <<state, held, active, draining>>
  BY DEF Settle
<1>2. call[c] \in Invocations
  BY <1>1 DEF IInv, TypeOK
<1>3. /\ call' \in [Calls -> Invocations \cup {Nil}]
      /\ call'[c] \in Invocations /\ call'[c].adapter = call[c].adapter
      /\ \A d \in Calls : d # c => call'[d] = call[d]
  <2>1. [call[c] EXCEPT !.settled = TRUE] \in Invocations
    BY <1>2 DEF Invocations
  <2>2. [call[c] EXCEPT !.settled = TRUE].adapter = call[c].adapter
    BY <1>2 DEF Invocations
  <2>3. call' = [call EXCEPT ![c] = [call[c] EXCEPT !.settled = TRUE]]
    BY <1>1
  <2> QED
    BY <2>1, <2>2, <2>3 DEF IInv, TypeOK
<1>4. TypeOK'
  BY <1>1, <1>3 DEF IInv, TypeOK
<1>5. \A a \in Adapters : InFlight(a)' = InFlight(a)
  BY <1>1, <1>3, CallAssumption DEF InFlight
<1>6. CountExact'
  BY <1>1, <1>5 DEF IInv, CountExact
<1>7. OnlyReadyBusy' /\ ReadyHoldsAll'
  BY <1>1 DEF IInv, OnlyReadyBusy, ReadyHoldsAll
<1> QED
  BY <1>4, <1>6, <1>7 DEF IInv

\* What happens to the adapters themselves happens while they are idle.
LEMMA LifecycleHolds ==
  ASSUME IInv, NEW a \in Adapters, Create(a) \/ Dispose(a) \/ Drain(a)
  PROVE  IInv'
<1>1. UNCHANGED <<active, call>>
  BY DEF Create, Dispose, Drain
<1>2. CountExact'
  BY <1>1 DEF IInv, CountExact, InFlight
<1>3. CASE Create(a)
  BY <1>2, <1>3, FirstOfScripts DEF Create, IInv, TypeOK, OnlyReadyBusy, ReadyHoldsAll
<1>4. CASE Dispose(a)
  BY <1>2, <1>4, FirstOfScripts
  DEF Dispose, StateAfterReleases, IInv, TypeOK, OnlyReadyBusy, ReadyHoldsAll
<1>5. CASE Drain(a)
  BY <1>2, <1>5 DEF Drain, IInv, TypeOK, OnlyReadyBusy, ReadyHoldsAll
<1> QED
  BY <1>3, <1>4, <1>5

LEMMA NextHolds == IInv /\ [Next]_vars => IInv'
<1> SUFFICES ASSUME IInv, [Next]_vars PROVE IInv'
  OBVIOUS
<1>1. CASE UNCHANGED vars
  BY <1>1 DEF vars, IInv, TypeOK, CountExact, InFlight, OnlyReadyBusy, ReadyHoldsAll
<1> QED
  BY <1>1, InvokeHolds, SettleHolds, ReturnHolds, LifecycleHolds DEF Next

LEMMA InvariantHolds == Spec => []IInv
  BY InitHolds, NextHolds, PTL DEF Spec

\* Every reachable state has its type; the counter never goes below zero.
THEOREM TypeCorrect == Spec => []TypeOK
<1>1. IInv => TypeOK
  BY DEF IInv
<1> QED
  BY <1>1, InvariantHolds, PTL

\* dispose() trusts a counter that is exact (valkey-glide.ts:85-91).
THEOREM CountHolds == Spec => []CountExact
<1>1. IInv => CountExact
  BY DEF IInv
<1> QED
  BY <1>1, InvariantHolds, PTL

\* No invocation uses a released handle, whenever dispose() is called and
\* wherever it fails (valkey-glide.ts:82-84, 126-136).
THEOREM HandlesHold == Spec => []HandlesHeld
<1>1. ASSUME IInv, NEW c \in Calls, call[c] # Nil
      PROVE  call[c].script \in held[call[c].adapter]
  <2> DEFINE a == call[c].adapter
  <2>1. a \in Adapters /\ call[c].script \in Scripts
    BY <1>1 DEF IInv, TypeOK, Invocations
  <2>2. c \in InFlight(a)
    BY <1>1 DEF InFlight
  <2>3. active[a] # 0
    BY <1>1, <2>1, <2>2, CountType, FS_EmptySet DEF IInv, CountExact
  <2>4. held[a] = Scripts
    BY <1>1, <2>1, <2>3 DEF IInv, OnlyReadyBusy, ReadyHoldsAll
  <2> QED
    BY <2>1, <2>4
<1>2. IInv => HandlesHeld
  BY <1>1 DEF HandlesHeld
<1> QED
  BY <1>2, InvariantHolds, PTL

\* A disposed adapter stays disposed, releases nothing more and starts
\* nothing (valkey-glide.ts:127-129).
THEOREM DisposedHolds == Spec => DisposedForGood
<1>1. ASSUME IInv, [Next]_vars, IInv', NEW a \in Adapters, state[a] = "disposed"
      PROVE  held'[a] = held[a] /\ active'[a] = 0 /\ state'[a] = "disposed"
  <2>1. held'[a] = held[a] /\ state'[a] = "disposed"
    <3>1. CASE \E b \in Adapters : Create(b) \/ Dispose(b) \/ Drain(b)
      BY <1>1, <3>1 DEF Create, Dispose, StateAfterReleases, Drain, IInv, TypeOK
    <3>2. CASE \/ \E c \in Calls, b \in Adapters, script \in Scripts : Invoke(c, b, script)
               \/ \E c \in Calls : Settle(c) \/ Return(c)
               \/ UNCHANGED vars
      BY <1>1, <3>2 DEF Invoke, Settle, Return, vars
    <3> QED
      BY <1>1, <3>1, <3>2 DEF Next
  <2>2. active'[a] = 0
    BY <1>1, <2>1 DEF IInv, OnlyReadyBusy
  <2> QED
    BY <2>1, <2>2
<1>2. IInv /\ IInv' /\ [Next]_vars =>
        [\A a \in Adapters : state[a] = "disposed" =>
           held'[a] = held[a] /\ active'[a] = 0 /\ state'[a] = "disposed"]_vars
  BY <1>1
<1> QED
  BY <1>2, InvariantHolds, PTL DEF Spec, DisposedForGood

-----------------------------------------------------------------------------
\* The collectors of the Prometheus adapters.
Entries == [prefix : MetricPrefixes, failed : BOOLEAN]

RegistryTypeOK ==
  /\ registry \in [MetricPrefixes -> [ToSet(Metrics) -> Collectors \cup {Absent}]]
  /\ adapter \in [MetricsAdapters -> Entries \cup {Absent}]
  /\ sampled \in [MetricPrefixes -> [ToSet(Metrics) -> Nat]]

Validated(collectors) ==
  \A m \in ToSet(Metrics) : collectors[m] # Absent /\ compatible(collectors[m], Config(m))

\* An adapter that was made finds the collectors it validated as they were.
MadeValidated ==
  \A a \in MetricsAdapters : adapter[a] # Absent /\ ~ adapter[a].failed => Validated(registry[adapter[a].prefix])

\* The inductive invariant of the registry.
RegistryInv == RegistryTypeOK /\ MadeValidated /\ AllOrNothing /\ NothingLost

\* In terms of metrics, not of their places.
LEMMA PlacesAndMetrics ==
  ASSUME NEW p
  PROVE  /\ Missing(p) = {} /\ Conflicts(p) = {} <=> Validated(registry[p])
         /\ (Missing(p) = {} /\ Conflicts(p) = {})' <=> Validated(registry'[p])
         /\ Conflicts(p) = {} <=>
              \A m \in ToSet(Metrics) : registry[p][m] # Absent => compatible(registry[p][m], Config(m))
<1>1. \A i \in DOMAIN Metrics : Metrics[i] \in ToSet(Metrics)
  BY DEF ToSet
<1>2. \A m \in ToSet(Metrics) : \E i \in DOMAIN Metrics : Metrics[i] = m
  BY DEF ToSet
<1>3. Missing(p) = {} /\ Conflicts(p) = {} <=> Validated(registry[p])
  BY <1>1, <1>2 DEF Missing, Conflicts, Validated
<1>4. (Missing(p) = {} /\ Conflicts(p) = {})' <=> Validated(registry'[p])
  BY <1>1, <1>2 DEF Missing, Conflicts, Validated
<1>5. Conflicts(p) = {} <=>
        \A m \in ToSet(Metrics) : registry[p][m] # Absent => compatible(registry[p][m], Config(m))
  BY <1>1, <1>2 DEF Conflicts
<1> QED
  BY <1>3, <1>4, <1>5

LEMMA Element ==
  ASSUME NEW s \in Seq(Labels), NEW i \in 1 .. Len(s)
  PROVE  s[i] \in ToSet(s)
<1>1. DOMAIN s = 1 .. Len(s)
  BY LenProperties
<1> QED
  BY <1>1 DEF ToSet

LEMMA Joined ==
  ASSUME NEW s \in Seq(Labels), NEW t \in Seq(Labels), Len(s) > 0
  PROVE  s \o t \in Seq(Labels) /\ Len(s \o t) > 0 /\ ToSet(s) \cup ToSet(t) \subseteq ToSet(s \o t)
<1> DEFINE u == s \o t
<1>1. Len(s) \in Nat /\ Len(t) \in Nat /\ DOMAIN s = 1 .. Len(s) /\ DOMAIN t = 1 .. Len(t) /\ Len(s) # 0
  BY LenProperties
<1>2. /\ u \in Seq(Labels) /\ Len(u) = Len(s) + Len(t)
      /\ \A i \in 1 .. Len(s) + Len(t) : u[i] = IF i <= Len(s) THEN s[i] ELSE t[i - Len(s)]
  BY ConcatProperties
<1> HIDE DEF u
<1>3. Len(u) > 0
  BY <1>1, <1>2
<1>4. ASSUME NEW i \in 1 .. Len(s) PROVE s[i] \in ToSet(u)
  <2>1. i \in 1 .. Len(u) /\ u[i] = s[i]
    BY <1>1, <1>2
  <2> QED
    BY <1>2, <2>1, Element
<1>5. ASSUME NEW i \in 1 .. Len(t) PROVE t[i] \in ToSet(u)
  <2>1. i + Len(s) \in 1 .. Len(s) + Len(t) /\ ~ (i + Len(s) <= Len(s)) /\ i + Len(s) - Len(s) = i
    BY <1>1
  <2>2. i + Len(s) \in 1 .. Len(u) /\ u[i + Len(s)] = t[i]
    BY <1>2, <2>1
  <2> QED
    BY <1>2, <2>2, Element
<1>6. ToSet(s) \cup ToSet(t) \subseteq ToSet(u)
  BY <1>1, <1>4, <1>5 DEF ToSet
<1> QED
  BY <1>2, <1>3, <1>6 DEF u

LEMMA LabelsOf ==
  ASSUME NEW m \in ToSet(Metrics)
  PROVE  /\ Config(m).labelNames \in Seq(Labels) /\ Len(Config(m).labelNames) > 0
         /\ Sent(m) \subseteq ToSet(Config(m).labelNames)
<1> DEFINE C == CounterLabels
           reason == <<"reason">>
           inFallback == <<"error", "in_fallback">>
           operation == <<"operation">>
           invalidation == <<"cache_namespace", "key_type", "layer">>
           coalesced == <<"cache_namespace", "use_case", "key_type", "scope">>
<1>1. C \in Seq(Labels) /\ Len(C) > 0 /\ {"cache_namespace", "use_case", "key_type", "layer"} \subseteq ToSet(C)
  <2>1. /\ C \in Seq(Labels) /\ Len(C) = 4
        /\ C[1] = "cache_namespace" /\ C[2] = "use_case" /\ C[3] = "key_type" /\ C[4] = "layer"
    BY DEF Labels, cacheLabels, CounterLabels
  <2> HIDE DEF C
  <2>2. C[1] \in ToSet(C) /\ C[2] \in ToSet(C) /\ C[3] \in ToSet(C) /\ C[4] \in ToSet(C)
    BY <2>1, Element
  <2> QED
    BY <2>1, <2>2
<1>2. reason \in Seq(Labels) /\ Len(reason) > 0 /\ {"reason"} \subseteq ToSet(reason)
  <2>1. /\ reason \in Seq(Labels) /\ Len(reason) = 1
        /\ reason[1] = "reason"
    BY DEF Labels, cacheLabels
  <2> HIDE DEF reason
  <2>2. reason[1] \in ToSet(reason)
    BY <2>1, Element
  <2> QED
    BY <2>1, <2>2
<1>3. inFallback \in Seq(Labels) /\ Len(inFallback) > 0 /\ {"error", "in_fallback"} \subseteq ToSet(inFallback)
  <2>1. /\ inFallback \in Seq(Labels) /\ Len(inFallback) = 2
        /\ inFallback[1] = "error" /\ inFallback[2] = "in_fallback"
    BY DEF Labels, cacheLabels
  <2> HIDE DEF inFallback
  <2>2. inFallback[1] \in ToSet(inFallback) /\ inFallback[2] \in ToSet(inFallback)
    BY <2>1, Element
  <2> QED
    BY <2>1, <2>2
<1>4. operation \in Seq(Labels) /\ Len(operation) > 0 /\ {"operation"} \subseteq ToSet(operation)
  <2>1. /\ operation \in Seq(Labels) /\ Len(operation) = 1
        /\ operation[1] = "operation"
    BY DEF Labels, cacheLabels
  <2> HIDE DEF operation
  <2>2. operation[1] \in ToSet(operation)
    BY <2>1, Element
  <2> QED
    BY <2>1, <2>2
<1>5. invalidation \in Seq(Labels) /\ Len(invalidation) > 0 /\ {"cache_namespace", "key_type", "layer"} \subseteq ToSet(invalidation)
  <2>1. /\ invalidation \in Seq(Labels) /\ Len(invalidation) = 3
        /\ invalidation[1] = "cache_namespace" /\ invalidation[2] = "key_type" /\ invalidation[3] = "layer"
    BY DEF Labels, cacheLabels
  <2> HIDE DEF invalidation
  <2>2. invalidation[1] \in ToSet(invalidation) /\ invalidation[2] \in ToSet(invalidation) /\ invalidation[3] \in ToSet(invalidation)
    BY <2>1, Element
  <2> QED
    BY <2>1, <2>2
<1>6. coalesced \in Seq(Labels) /\ Len(coalesced) > 0 /\ {"cache_namespace", "use_case", "key_type", "scope"} \subseteq ToSet(coalesced)
  <2>1. /\ coalesced \in Seq(Labels) /\ Len(coalesced) = 4
        /\ coalesced[1] = "cache_namespace" /\ coalesced[2] = "use_case" /\ coalesced[3] = "key_type" /\ coalesced[4] = "scope"
    BY DEF Labels, cacheLabels
  <2> HIDE DEF coalesced
  <2>2. coalesced[1] \in ToSet(coalesced) /\ coalesced[2] \in ToSet(coalesced) /\ coalesced[3] \in ToSet(coalesced) /\ coalesced[4] \in ToSet(coalesced)
    BY <2>1, Element
  <2> QED
    BY <2>1, <2>2
<1>7. Config(m).labelNames =
        CASE m = "disabled"             -> C \o reason
          [] m = "error"                -> C \o inFallback
          [] m = "invalidation"         -> invalidation
          [] m = "coalesced"            -> coalesced
          [] m = "observeSerialization" -> C \o operation
          [] OTHER                      -> C
  BY DEF Config
<1> HIDE DEF C, reason, inFallback, operation, invalidation, coalesced
<1>8. CASE m = "disabled"
  <2>1. Sent(m) = cacheLabels \cup {"reason"} /\ Config(m).labelNames = C \o reason
    BY <1>7, <1>8 DEF Sent
  <2> QED
    BY <1>1, <1>2, <2>1, Joined DEF cacheLabels
<1>9. CASE m = "error"
  <2>1. Sent(m) = cacheLabels \cup {"error", "in_fallback"} /\ Config(m).labelNames = C \o inFallback
    BY <1>7, <1>9 DEF Sent
  <2>2. /\ C \o inFallback \in Seq(Labels) /\ Len(C \o inFallback) > 0
        /\ ToSet(C) \cup ToSet(inFallback) \subseteq ToSet(C \o inFallback)
    BY <1>1, <1>3, Joined
  <2> QED
    BY <1>1, <1>3, <2>1, <2>2 DEF cacheLabels
<1>10. CASE m = "observeSerialization"
  <2>1. Sent(m) = cacheLabels \cup {"operation"} /\ Config(m).labelNames = C \o operation
    BY <1>7, <1>10 DEF Sent
  <2> QED
    BY <1>1, <1>4, <2>1, Joined DEF cacheLabels
<1>11. CASE m = "invalidation"
  <2>1. Sent(m) = cacheLabels \ {"use_case"} /\ Config(m).labelNames = invalidation
    BY <1>7, <1>11 DEF Sent
  <2> QED
    BY <1>5, <2>1 DEF cacheLabels
<1>12. CASE m = "coalesced"
  <2>1. Sent(m) = (cacheLabels \ {"layer"}) \cup {"scope"} /\ Config(m).labelNames = coalesced
    BY <1>7, <1>12 DEF Sent
  <2> QED
    BY <1>6, <2>1 DEF cacheLabels
<1>13. CASE m \notin {"disabled", "error", "observeSerialization", "invalidation", "coalesced"}
  <2>1. Sent(m) = cacheLabels /\ Config(m).labelNames = C
    BY <1>7, <1>13 DEF Sent
  <2> QED
    BY <1>1, <2>1 DEF cacheLabels
<1> QED
  BY <1>8, <1>9, <1>10, <1>11, <1>12, <1>13

\* What a constructor, or other code, registers is a collector.
LEMMA ConfigTyped ==
  ASSUME NEW m \in ToSet(Metrics)
  PROVE  /\ Config(m).type \in {"counter", "histogram"} /\ ~ Config(m).enableExemplars
         /\ \A config \in Variants(m) \cup {Config(m)}, owner \in {"dialcache", "foreign"} :
              Collector(config, owner) \in Collectors
         /\ \A owner \in {"dialcache", "foreign"} : compatible(Collector(Config(m), owner), Config(m))
<1> DEFINE labels == Config(m).labelNames
           type == Config(m).type
           buckets == Config(m).buckets
<1>1. labels \in Seq(Labels) /\ Len(labels) > 0
  BY LabelsOf
<1>2. /\ type \in {"counter", "histogram"} /\ buckets \in {"sizes", "seconds"}
      /\ Config(m).enableExemplars = FALSE /\ Config(m).help = m
  BY DEF Config
<1>3. Config(m) = [help |-> m, type |-> type, enableExemplars |-> FALSE,
                   labelNames |-> labels, buckets |-> buckets]
  BY DEF Config
<1> HIDE DEF labels, type, buckets
<1>4. Tail(labels) \in Seq(Labels)
  <2>1. labels # <<>>
    BY <1>1
  <2> QED
    BY <1>1, <2>1, HeadTailProperties
<1>5. \A config \in Variants(m) \cup {Config(m)} :
        /\ config.help \in ToSet(Metrics) \cup {"other"} /\ config.enableExemplars \in BOOLEAN
        /\ config.type \in {"counter", "histogram"} /\ config.buckets \in {"sizes", "seconds", "other"}
        /\ config.labelNames \in Seq(Labels)
  <2> TAKE config \in Variants(m) \cup {Config(m)}
  <2> DEFINE Form(h, t, e, l, b) ==
        [help |-> h, type |-> t, enableExemplars |-> e, labelNames |-> l, buckets |-> b]
  <2>1. \/ config = Form(m, type, FALSE, labels, buckets)
        \/ config = Form("other", type, FALSE, labels, buckets)
        \/ \E t \in {"counter", "histogram"} : config = Form(m, t, FALSE, labels, buckets)
        \/ config = Form(m, type, FALSE, Tail(labels), buckets)
        \/ config = Form(m, type, FALSE, labels, "other")
        \/ config = Form(m, type, TRUE, labels, buckets)
    BY <1>3 DEF Variants
  <2> HIDE DEF Form
  <2>2. PICK h \in ToSet(Metrics) \cup {"other"}, t \in {"counter", "histogram"}, e \in BOOLEAN,
             l \in Seq(Labels), b \in {"sizes", "seconds", "other"} :
          config = Form(h, t, e, l, b)
    BY <1>1, <1>2, <1>4, <2>1
  <2> QED
    BY <2>2 DEF Form
<1>6. \A config \in Variants(m) \cup {Config(m)}, owner \in {"dialcache", "foreign"} :
        Collector(config, owner) \in Collectors
  BY <1>5 DEF Collector, Collectors
<1>7. \A owner \in {"dialcache", "foreign"} : compatible(Collector(Config(m), owner), Config(m))
  BY <1>2 DEF Collector, compatible
<1> QED
  BY <1>2, <1>6, <1>7 DEF type

LEMMA RegistryInitHolds == RegistryInit => RegistryInv
<1> SUFFICES ASSUME RegistryInit PROVE RegistryInv
  OBVIOUS
<1>1. RegistryTypeOK
  BY DEF RegistryInit, RegistryTypeOK
<1>2. MadeValidated
  BY DEF RegistryInit, MadeValidated
<1>3. AllOrNothing
  BY DEF RegistryInit, AllOrNothing
<1>4. NothingLost
  BY DEF RegistryInit, NothingLost
<1> QED
  BY <1>1, <1>2, <1>3, <1>4 DEF RegistryInv

\* A constructor that throws changes nothing; one that returns has all the
\* collectors of its prefix.
LEMMA ConstructHolds ==
  ASSUME RegistryInv, NEW a \in MetricsAdapters, NEW p \in MetricPrefixes, Construct(a, p)
  PROVE  RegistryInv'
<1> DEFINE e == [prefix |-> p, failed |-> Throws(p)]
<1>1. /\ adapter[a] = Absent /\ sampled' = sampled /\ adapter' = [adapter EXCEPT ![a] = e]
      /\ registry' = [registry EXCEPT ![p] =
           [m \in DOMAIN @ |-> IF \E i \in Created(p) : Metrics[i] = m
                                 THEN Collector(Config(m), "dialcache") ELSE @[m]]]
  BY DEF Construct
<1>2. RegistryTypeOK /\ MadeValidated /\ AllOrNothing /\ NothingLost
  BY DEF RegistryInv
<1>3. \A q \in MetricPrefixes : q # p => registry'[q] = registry[q]
  BY <1>1, <1>2 DEF RegistryTypeOK
<1>4. e \in Entries
  BY DEF Entries, Throws
<1>5. adapter' \in [MetricsAdapters -> Entries \cup {Absent}]
  BY <1>1, <1>2, <1>4 DEF RegistryTypeOK
<1>6. CASE Conflicts(p) # {}
  <2>1. Created(p) = {}
    BY <1>6 DEF Created
  <2>2. registry' = registry
    BY <1>1, <1>2, <2>1 DEF RegistryTypeOK
  <2>3. e.failed = TRUE
    BY <1>6 DEF Throws
  <2>4. MadeValidated'
    <3> SUFFICES ASSUME NEW b \in MetricsAdapters, adapter'[b] # Absent, ~ adapter'[b].failed
                 PROVE  Validated(registry[adapter'[b].prefix])
      BY <2>2 DEF MadeValidated
    <3>1. b # a /\ adapter'[b] = adapter[b]
      BY <1>1, <1>2, <2>3 DEF RegistryTypeOK
    <3> QED
      BY <1>2, <3>1 DEF MadeValidated
  <2>5. AllOrNothing'
    BY <1>2, <2>2 DEF AllOrNothing, Missing, Conflicts
  <2>6. RegistryTypeOK' /\ NothingLost'
    BY <1>1, <1>2, <1>5, <2>2 DEF RegistryTypeOK, NothingLost
  <2> QED
    BY <2>4, <2>5, <2>6 DEF RegistryInv
<1>7. CASE Conflicts(p) = {}
  <2>1. \A m \in ToSet(Metrics) : (\E i \in Created(p) : Metrics[i] = m) <=> registry[p][m] = Absent
    BY <1>7 DEF Created, Missing, ToSet
  <2>2. \A m \in ToSet(Metrics) : registry'[p][m] =
          IF registry[p][m] = Absent THEN Collector(Config(m), "dialcache") ELSE registry[p][m]
    BY <1>1, <1>2, <2>1 DEF RegistryTypeOK
  <2>3. \A m \in ToSet(Metrics) : Collector(Config(m), "dialcache") \in Collectors
    BY ConfigTyped
  <2>4. registry' \in [MetricPrefixes -> [ToSet(Metrics) -> Collectors \cup {Absent}]]
    <3>1. registry \in [MetricPrefixes -> [ToSet(Metrics) -> Collectors \cup {Absent}]]
      BY <1>2 DEF RegistryTypeOK
    <3>2. registry' = [registry EXCEPT ![p] = registry'[p]]
      BY <1>1, <3>1
    <3>3. registry'[p] \in [ToSet(Metrics) -> Collectors \cup {Absent}]
      BY <1>1, <2>3, <3>1
    <3> QED
      BY <3>1, <3>2, <3>3
  <2>5. \A m \in ToSet(Metrics) : registry'[p][m] # Absent /\ compatible(registry'[p][m], Config(m))
    <3>1. \A n \in ToSet(Metrics) : registry[p][n] # Absent => compatible(registry[p][n], Config(n))
      BY <1>7, PlacesAndMetrics
    <3> SUFFICES ASSUME NEW m \in ToSet(Metrics)
                 PROVE  registry'[p][m] # Absent /\ compatible(registry'[p][m], Config(m))
      OBVIOUS
    <3>2. CASE registry[p][m] = Absent
      BY <2>2, <2>3, <3>2, ConfigTyped, RegistryAssumption
    <3>3. CASE registry[p][m] # Absent
      BY <2>2, <3>1, <3>3
    <3> QED
      BY <3>2, <3>3
  <2>6. Validated(registry'[p])
    BY <2>5 DEF Validated
  <2>7. \A q \in MetricPrefixes : Validated(registry[q]) => Validated(registry'[q])
    BY <1>3, <2>6
  <2>8. MadeValidated'
    <3> SUFFICES ASSUME NEW b \in MetricsAdapters, adapter'[b] # Absent, ~ adapter'[b].failed
                 PROVE  Validated(registry'[adapter'[b].prefix])
      BY DEF MadeValidated
    <3>1. CASE b = a
      <4>1. adapter'[b].prefix = p
        BY <1>1, <1>2, <3>1 DEF RegistryTypeOK
      <4> QED
        BY <2>6, <4>1
    <3>2. CASE b # a
      <4>1. adapter'[b] = adapter[b]
        BY <1>1, <1>2, <3>2 DEF RegistryTypeOK
      <4>2. adapter[b].prefix \in MetricPrefixes
        BY <1>2, <4>1 DEF RegistryTypeOK, Entries
      <4> QED
        BY <1>2, <2>7, <4>1, <4>2 DEF MadeValidated
    <3> QED
      BY <3>1, <3>2
  <2>9. AllOrNothing'
    <3> SUFFICES ASSUME NEW q \in MetricPrefixes,
                        \E m \in ToSet(Metrics) : registry'[q][m] # Absent /\ registry'[q][m].owner = "dialcache"
                 PROVE  (Missing(q) = {} /\ Conflicts(q) = {})'
      BY DEF AllOrNothing
    <3>1. CASE q # p
      <4>1. Missing(q) = {} /\ Conflicts(q) = {}
        BY <1>2, <1>3, <3>1 DEF AllOrNothing
      <4> QED
        BY <2>7, <4>1, PlacesAndMetrics
    <3>2. CASE q = p
      BY <2>6, <3>2, PlacesAndMetrics
    <3> QED
      BY <3>1, <3>2
  <2>10. NothingLost'
    <3> SUFFICES ASSUME NEW q \in MetricPrefixes, NEW m \in ToSet(Metrics)
                 PROVE  sampled[q][m] = IF registry'[q][m] = Absent THEN 0 ELSE registry'[q][m].samples
      BY <1>1 DEF NothingLost
    <3>1. CASE q = p /\ registry[p][m] = Absent
      <4>1. registry'[q][m] = Collector(Config(m), "dialcache") /\ registry'[q][m] # Absent
        BY <2>2, <2>5, <3>1
      <4>2. registry'[q][m].samples = 0
        BY <4>1 DEF Collector
      <4> QED
        BY <1>2, <3>1, <4>1, <4>2 DEF NothingLost
    <3>2. CASE ~ (q = p /\ registry[p][m] = Absent)
      <4>1. registry'[q][m] = registry[q][m]
        BY <1>3, <2>2, <3>2
      <4> QED
        BY <1>2, <4>1 DEF NothingLost
    <3> QED
      BY <3>1, <3>2
  <2> QED
    BY <1>1, <1>2, <1>5, <2>4, <2>8, <2>9, <2>10 DEF RegistryInv, RegistryTypeOK
<1> QED
  BY <1>6, <1>7

\* A sample finds a collector that knows its labels.
LEMMA SampleHolds ==
  ASSUME RegistryInv, NEW a \in MetricsAdapters, NEW m \in ToSet(Metrics), Sample(a, m)
  PROVE  RegistryInv'
<1> DEFINE p == adapter[a].prefix
           c == registry[p][m]
<1>1. RegistryTypeOK /\ MadeValidated /\ AllOrNothing /\ NothingLost
  BY DEF RegistryInv
<1>2. /\ adapter[a] # Absent /\ ~ adapter[a].failed /\ adapter' = adapter
      /\ sampled' = [sampled EXCEPT ![p][m] = @ + 1]
      /\ registry' = IF Records(c, m)
                       THEN [registry EXCEPT ![p][m].samples = @ + 1] ELSE registry
  BY DEF Sample
<1>3. p \in MetricPrefixes
  BY <1>1, <1>2 DEF RegistryTypeOK, Entries
<1>4. /\ c # Absent /\ c \in Collectors
      /\ c.type = Config(m).type /\ c.labelNames = Config(m).labelNames /\ ~ c.enableExemplars
  <2>1. Validated(registry[p])
    BY <1>1, <1>2 DEF MadeValidated
  <2>2. c # Absent /\ compatible(c, Config(m))
    BY <2>1 DEF Validated
  <2> QED
    <3>1. c \in Collectors
      BY <1>1, <1>3, <2>2 DEF RegistryTypeOK
    <3>2. /\ c.type = Config(m).type /\ c.labelNames = Config(m).labelNames
          /\ c.enableExemplars # TRUE
      BY <2>2 DEF compatible
    <3>3. c.enableExemplars \in BOOLEAN
      BY <3>1 DEF Collectors
    <3> QED
      BY <2>2, <3>1, <3>2, <3>3
<1>5. registry' = [registry EXCEPT ![p][m].samples = @ + 1]
  BY <1>2, <1>4, LabelsOf DEF Records
<1> HIDE DEF p
<1> DEFINE d == [c EXCEPT !.samples = @ + 1]
<1>6. /\ d \in Collectors /\ d # Absent /\ d.samples = c.samples + 1 /\ d.owner = c.owner
      /\ d.help = c.help /\ d.type = c.type /\ d.enableExemplars = c.enableExemplars
      /\ d.labelNames = c.labelNames /\ d.buckets = c.buckets
  BY <1>4, RegistryAssumption DEF Collectors
<1>7. /\ registry' \in [MetricPrefixes -> [ToSet(Metrics) -> Collectors \cup {Absent}]]
      /\ registry'[p][m] = d
      /\ \A q \in MetricPrefixes, n \in ToSet(Metrics) : ~ (q = p /\ n = m) => registry'[q][n] = registry[q][n]
  <2>1. registry \in [MetricPrefixes -> [ToSet(Metrics) -> Collectors \cup {Absent}]]
    BY <1>1 DEF RegistryTypeOK
  <2>2. registry' = [registry EXCEPT ![p][m] = d]
    BY <1>5
  <2> HIDE DEF d, c
  <2> QED
    BY <1>3, <1>6, <2>1, <2>2
<1>8. /\ sampled' \in [MetricPrefixes -> [ToSet(Metrics) -> Nat]]
      /\ sampled'[p][m] = sampled[p][m] + 1
      /\ \A q \in MetricPrefixes, n \in ToSet(Metrics) : ~ (q = p /\ n = m) => sampled'[q][n] = sampled[q][n]
  BY <1>1, <1>2, <1>3 DEF RegistryTypeOK
<1> HIDE DEF d
<1>9. \A q \in MetricPrefixes, n \in ToSet(Metrics) :
        /\ registry'[q][n] = Absent <=> registry[q][n] = Absent
        /\ compatible(registry'[q][n], Config(n)) <=> compatible(registry[q][n], Config(n))
        /\ registry'[q][n].owner = registry[q][n].owner
  <2> SUFFICES ASSUME NEW q \in MetricPrefixes, NEW n \in ToSet(Metrics)
               PROVE  /\ registry'[q][n] = Absent <=> registry[q][n] = Absent
                      /\ compatible(registry'[q][n], Config(n)) <=> compatible(registry[q][n], Config(n))
                      /\ registry'[q][n].owner = registry[q][n].owner
    OBVIOUS
  <2>1. CASE q = p /\ n = m
    BY <1>4, <1>6, <1>7, <2>1 DEF compatible
  <2>2. CASE ~ (q = p /\ n = m)
    BY <1>7, <2>2
  <2> QED
    BY <2>1, <2>2
<1>10. \A q \in MetricPrefixes : Validated(registry'[q]) <=> Validated(registry[q])
  BY <1>9 DEF Validated
<1>11. MadeValidated'
  <2>1. \A b \in MetricsAdapters : adapter[b] # Absent => adapter[b].prefix \in MetricPrefixes
    BY <1>1 DEF RegistryTypeOK, Entries
  <2> QED
    BY <1>1, <1>2, <1>10, <2>1 DEF MadeValidated
<1>12. AllOrNothing'
  <2> SUFFICES ASSUME NEW q \in MetricPrefixes, NEW n \in ToSet(Metrics),
                      registry'[q][n] # Absent, registry'[q][n].owner = "dialcache"
               PROVE  (Missing(q) = {} /\ Conflicts(q) = {})'
    BY DEF AllOrNothing
  <2>1. registry[q][n] # Absent /\ registry[q][n].owner = "dialcache"
    BY <1>9
  <2>2. Missing(q) = {} /\ Conflicts(q) = {}
    BY <1>1, <2>1 DEF AllOrNothing
  <2> QED
    BY <1>10, <2>2, PlacesAndMetrics
<1>13. NothingLost'
  <2> SUFFICES ASSUME NEW q \in MetricPrefixes, NEW n \in ToSet(Metrics)
               PROVE  sampled'[q][n] = IF registry'[q][n] = Absent THEN 0 ELSE registry'[q][n].samples
    BY DEF NothingLost
  <2>1. CASE q = p /\ n = m
    BY <1>1, <1>4, <1>6, <1>7, <1>8, <2>1 DEF NothingLost
  <2>2. CASE ~ (q = p /\ n = m)
    BY <1>1, <1>7, <1>8, <2>2 DEF NothingLost
  <2> QED
    BY <2>1, <2>2
<1> QED
  BY <1>1, <1>2, <1>7, <1>8, <1>11, <1>12, <1>13 DEF RegistryInv, RegistryTypeOK

\* Other code finds a name free only where no adapter was made.
LEMMA RegisterForeignHolds ==
  ASSUME RegistryInv, NEW p \in MetricPrefixes, NEW m \in Foreign, RegisterForeign(p, m)
  PROVE  RegistryInv'
<1>1. RegistryTypeOK /\ MadeValidated /\ AllOrNothing /\ NothingLost
  BY DEF RegistryInv
<1>2. m \in ToSet(Metrics)
  BY RegistryAssumption
<1>3. PICK config \in Variants(m) : registry' = [registry EXCEPT ![p][m] = Collector(config, "foreign")]
  BY DEF RegisterForeign
<1>4. registry[p][m] = Absent /\ adapter' = adapter /\ sampled' = sampled
  BY DEF RegisterForeign
<1> DEFINE d == Collector(config, "foreign")
<1>5. d \in Collectors /\ d # Absent /\ d.owner = "foreign" /\ d.samples = 0
  <2>1. d \in Collectors
    BY <1>2, ConfigTyped
  <2> QED
    BY <2>1, RegistryAssumption DEF Collector
<1> HIDE DEF d
<1>6. /\ registry' \in [MetricPrefixes -> [ToSet(Metrics) -> Collectors \cup {Absent}]]
      /\ registry'[p][m] = d
      /\ \A q \in MetricPrefixes, n \in ToSet(Metrics) : ~ (q = p /\ n = m) => registry'[q][n] = registry[q][n]
  <2>1. registry \in [MetricPrefixes -> [ToSet(Metrics) -> Collectors \cup {Absent}]]
    BY <1>1 DEF RegistryTypeOK
  <2>2. registry' = [registry EXCEPT ![p][m] = d]
    BY <1>3 DEF d
  <2> QED
    BY <1>2, <1>5, <2>1, <2>2
<1>7. ~ Validated(registry[p])
  BY <1>2, <1>4 DEF Validated
<1>8. \A q \in MetricPrefixes : q # p => (Validated(registry'[q]) <=> Validated(registry[q]))
  BY <1>6 DEF Validated
<1>9. MadeValidated'
  <2>1. \A b \in MetricsAdapters : adapter[b] # Absent => adapter[b].prefix \in MetricPrefixes
    BY <1>1 DEF RegistryTypeOK, Entries
  <2> QED
    BY <1>1, <1>4, <1>7, <1>8, <2>1 DEF MadeValidated
<1>10. AllOrNothing'
  <2> SUFFICES ASSUME NEW q \in MetricPrefixes, NEW n \in ToSet(Metrics),
                      registry'[q][n] # Absent, registry'[q][n].owner = "dialcache"
               PROVE  (Missing(q) = {} /\ Conflicts(q) = {})'
    BY DEF AllOrNothing
  <2>1. registry'[q][n] = registry[q][n]
    BY <1>5, <1>6
  <2>2. Missing(q) = {} /\ Conflicts(q) = {}
    BY <1>1, <2>1 DEF AllOrNothing
  <2>3. Validated(registry[q])
    BY <2>2, PlacesAndMetrics
  <2> QED
    BY <1>7, <1>8, <2>3, PlacesAndMetrics
<1>11. NothingLost'
  BY <1>1, <1>2, <1>4, <1>5, <1>6 DEF NothingLost
<1> QED
  BY <1>1, <1>4, <1>6, <1>9, <1>10, <1>11 DEF RegistryInv, RegistryTypeOK

LEMMA RegistryInvariantHolds == RegistrySpec => []RegistryInv
<1>1. RegistryInv /\ [RegistryNext]_registryVars => RegistryInv'
  <2> SUFFICES ASSUME RegistryInv, [RegistryNext]_registryVars PROVE RegistryInv'
    OBVIOUS
  <2>1. ASSUME NEW a \in MetricsAdapters, NEW p \in MetricPrefixes, Construct(a, p) PROVE RegistryInv'
    BY <2>1, ConstructHolds
  <2>2. ASSUME NEW a \in MetricsAdapters, NEW m \in ToSet(Metrics), Sample(a, m) PROVE RegistryInv'
    BY <2>2, SampleHolds
  <2>3. ASSUME NEW p \in MetricPrefixes, NEW m \in Foreign, RegisterForeign(p, m) PROVE RegistryInv'
    BY <2>3, RegisterForeignHolds
  <2>4. CASE UNCHANGED registryVars
    BY <2>4 DEF registryVars, RegistryInv, RegistryTypeOK, MadeValidated, AllOrNothing, NothingLost,
                Validated, Missing, Conflicts
  <2> QED
    BY <2>1, <2>2, <2>3, <2>4 DEF RegistryNext
<1> QED
  BY <1>1, RegistryInitHolds, PTL DEF RegistrySpec

\* Whatever other code registers and in whatever order adapters are made, a
\* constructor that throws leaves no collector behind.
THEOREM AllOrNothingHolds == RegistrySpec => []AllOrNothing
<1>1. RegistryInv => AllOrNothing
  BY DEF RegistryInv
<1> QED
  BY <1>1, RegistryInvariantHolds, PTL

\* Every sample of every adapter is recorded under its labels, whatever
\* collectors other code has registered: no adapter is made that would hand
\* one to a collector of another type, other labels or exemplar mode.
THEOREM NothingLostHolds == RegistrySpec => []NothingLost
<1>1. RegistryInv => NothingLost
  BY DEF RegistryInv
<1> QED
  BY <1>1, RegistryInvariantHolds, PTL
=============================================================================
