------------------------ MODULE PrometheusCollectors ------------------------
(***************************************************************************)
(* PrometheusDialCacheMetrics (src/prometheus.ts): several adapters on one *)
(* registry, with collector names that other code, or another release of   *)
(* DialCache, may have registered first.  A metric stands for its method   *)
(* of the adapter and, with a prefix, for the name of its collector, under *)
(* which the registry keeps it.                                            *)
(*                                                                         *)
(* prom-client throws when a collector lacks the method or a label of a    *)
(* sample; in exemplar mode its methods take the labels as a part of their *)
(* one argument, so that called as the adapter calls them they miss the    *)
(* labels or throw.  DialCache swallows what an adapter throws             *)
(* (safeMetrics in src/dialcache.ts): such a sample is lost without a      *)
(* trace.                                                                  *)
(***************************************************************************)
EXTENDS Integers, SequencesExt

CONSTANTS MetricsAdapters, MetricPrefixes, Absent,
          Foreign,     \* metrics whose collectors other code registers
          MaxSamples   \* bound on the samples, for model checking

VARIABLES registry,    \* Absent or the collector of each prefix and metric
          adapter,     \* Absent, or [prefix, failed] of an adapter's construction
          sampled      \* history: samples handed to the adapters of a prefix

registryVars == <<registry, adapter, sampled>>

\* In the order of their construction.
Metrics == <<"disabled", "miss", "request", "error", "invalidation", "coalesced",
             "observeGet", "observeFallback", "observeSerialization", "observeSize">>

CounterLabels == <<"cache_namespace", "use_case", "key_type", "layer">>

\* collectorConfigs.  A help text is named by its metric; a collector that
\* DialCache makes is not in exemplar mode.
Config(m) ==
  [help |-> m,
   type |-> IF SelectInSeq(Metrics, LAMBDA x : x = m) <= 6 THEN "counter" ELSE "histogram",
   enableExemplars |-> FALSE,
   labelNames |->
     CASE m = "disabled"             -> CounterLabels \o <<"reason">>
       [] m = "error"                -> CounterLabels \o <<"error", "in_fallback">>
       [] m = "invalidation"         -> <<"cache_namespace", "key_type", "layer">>
       [] m = "coalesced"            -> <<"cache_namespace", "use_case", "key_type", "scope">>
       [] m = "observeSerialization" -> CounterLabels \o <<"operation">>
       [] OTHER                      -> CounterLabels,
   buckets |-> IF m = "observeSize" THEN "sizes" ELSE "seconds"]

\* What the methods of the adapter label their samples with.
cacheLabels == {"cache_namespace", "use_case", "key_type", "layer"}

Sent(m) ==
  CASE m = "disabled"             -> cacheLabels \cup {"reason"}
    [] m = "error"                -> cacheLabels \cup {"error", "in_fallback"}
    [] m = "invalidation"         -> cacheLabels \ {"use_case"}
    [] m = "coalesced"            -> (cacheLabels \ {"layer"}) \cup {"scope"}
    [] m = "observeSerialization" -> cacheLabels \cup {"operation"}
    [] OTHER                      -> cacheLabels

Labels == cacheLabels \cup {"reason", "error", "in_fallback", "scope", "operation"}

Collectors == [help : ToSet(Metrics) \cup {"other"}, type : {"counter", "histogram"},
               enableExemplars : BOOLEAN, labelNames : Seq(Labels),
               buckets : {"sizes", "seconds", "other"}, owner : {"dialcache", "foreign"},
               samples : Nat]

ASSUME RegistryAssumption ==
  /\ Foreign \subseteq ToSet(Metrics)
  /\ Absent \notin Collectors \cup [prefix : MetricPrefixes, failed : BOOLEAN]

RegistryInit ==
  /\ registry = [p \in MetricPrefixes |-> [m \in ToSet(Metrics) |-> Absent]]
  /\ adapter = [a \in MetricsAdapters |-> Absent]
  /\ sampled = [p \in MetricPrefixes |-> [m \in ToSet(Metrics) |-> 0]]

-----------------------------------------------------------------------------
\* The schema check.  The names agree, as the collector was found by name.
\* Faulty variant: the exemplar mode is not looked at.
compatibleExemplars(collector, config) ==
  /\ collector.help = config.help /\ collector.type = config.type
  /\ collector.labelNames = config.labelNames
  /\ config.type = "counter" \/ collector.buckets = config.buckets
compatible(collector, config) ==
  /\ collector.help = config.help
  /\ collector.type = config.type
  /\ collector.enableExemplars # TRUE
  /\ collector.labelNames = config.labelNames
  /\ config.type = "counter" \/ collector.buckets = config.buckets

\* validateExistingCollectors finds these, by their place in Metrics.
Conflicts(p) ==
  {i \in DOMAIN Metrics : LET c == registry[p][Metrics[i]] IN
                          c # Absent /\ ~ compatible(c, Config(Metrics[i]))}

Missing(p) == {i \in DOMAIN Metrics : registry[p][Metrics[i]] = Absent}

\* The collectors a constructor registers: none before all are validated.
\* Faulty variant: each is validated when its turn comes.
CreatedInTurn(p) == {i \in Missing(p) : \A j \in Conflicts(p) : i < j}
Created(p) == IF Conflicts(p) = {} THEN Missing(p) ELSE {}

\* Whether it throws.
Throws(p) == Conflicts(p) # {}

Collector(config, owner) ==
  [help |-> config.help, type |-> config.type, enableExemplars |-> config.enableExemplars,
   labelNames |-> config.labelNames, buckets |-> config.buckets,
   owner |-> owner, samples |-> 0]

Construct(a, p) ==
  /\ adapter[a] = Absent
  /\ registry' = [registry EXCEPT ![p] =
       [m \in DOMAIN @ |-> IF \E i \in Created(p) : Metrics[i] = m
                             THEN Collector(Config(m), "dialcache") ELSE @[m]]]
  /\ adapter' = [adapter EXCEPT ![a] = [prefix |-> p, failed |-> Throws(p)]]
  /\ UNCHANGED sampled

\* Whether a sample of metric m is recorded under its labels; see the head of
\* the module.
Records(collector, m) ==
  /\ collector.type = Config(m).type
  /\ Sent(m) \subseteq ToSet(collector.labelNames)
  /\ ~ collector.enableExemplars

\* A method of an adapter.
Sample(a, m) ==
  /\ adapter[a] # Absent /\ ~ adapter[a].failed
  /\ LET p == adapter[a].prefix IN
       /\ sampled[p][m] < MaxSamples
       /\ sampled' = [sampled EXCEPT ![p][m] = @ + 1]
       /\ registry' = IF Records(registry[p][m], m)
                        THEN [registry EXCEPT ![p][m].samples = @ + 1] ELSE registry
  /\ UNCHANGED adapter

\* Other code registers a collector: of the same schema, or of one that
\* differs in help, type, labels, buckets or exemplar mode.
Variants(m) ==
  {Config(m),
   [Config(m) EXCEPT !.help = "other"],
   [Config(m) EXCEPT !.type = IF @ = "counter" THEN "histogram" ELSE "counter"],
   [Config(m) EXCEPT !.labelNames = Tail(@)],
   [Config(m) EXCEPT !.buckets = "other"],
   [Config(m) EXCEPT !.enableExemplars = TRUE]}

RegisterForeign(p, m) ==
  /\ registry[p][m] = Absent
  /\ \E config \in Variants(m) :
       registry' = [registry EXCEPT ![p][m] = Collector(config, "foreign")]
  /\ UNCHANGED <<adapter, sampled>>

RegistryNext ==
  \/ \E a \in MetricsAdapters, p \in MetricPrefixes : Construct(a, p)
  \/ \E a \in MetricsAdapters, m \in ToSet(Metrics) : Sample(a, m)
  \/ \E p \in MetricPrefixes, m \in Foreign : RegisterForeign(p, m)

RegistrySpec == RegistryInit /\ [][RegistryNext]_registryVars

-----------------------------------------------------------------------------
\* A constructor that throws leaves no collectors behind, which a later
\* adapter or other code would stumble over: those of a prefix come all at
\* once (prometheus.ts:73-84).
AllOrNothing ==
  \A p \in MetricPrefixes :
    (\E m \in ToSet(Metrics) : registry[p][m] # Absent /\ registry[p][m].owner = "dialcache")
      => Missing(p) = {} /\ Conflicts(p) = {}

\* No sample is lost: each is recorded, under its labels, by the collector
\* that its prefix and metric have in the registry, whoever registered that,
\* before or between the adapters, and with whatever schema; an adapter that
\* could lose one was not made (prometheus.ts:86-137, 222-245).
NothingLost ==
  \A p \in MetricPrefixes, m \in ToSet(Metrics) :
    sampled[p][m] = IF registry[p][m] = Absent THEN 0 ELSE registry[p][m].samples
=============================================================================
