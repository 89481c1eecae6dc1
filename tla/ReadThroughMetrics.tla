------------------------- MODULE ReadThroughMetrics -------------------------
(***************************************************************************)
(* What a DialCache instance reports about the calls of ReadThrough: every *)
(* action with the samples it hands to the metrics adapter (src/metrics.ts *)
(* and its uses in src/dialcache.ts).  An adapter may throw; what it then  *)
(* loses changes nothing else (safeMetrics), so the counts here are those  *)
(* of an adapter that does not.  Durations, sizes and the errors no        *)
(* property needs (serialization, invalid leaves) are left out;            *)
(* "config_error" are the disabled samples with that reason.               *)
(***************************************************************************)
EXTENDS ReadThrough

VARIABLES count,       \* samples so far, by metric and label
          outside      \* calls made outside of any layer: "raw" or "noop"

metricVars == <<count, outside>>

CacheLayers == {"request_local", "local", "remote"}
Layers == CacheLayers \cup {"noop"}

Samples ==
  ({"request", "miss"} \X CacheLayers) \cup ({"disabled", "fallback", "config_error"} \X Layers)
  \cup ({"coalesced"} \X {"request_local", "process"})
  \cup ({"error"} \X {"key_construction", "cache_read", "cache_write", "fallback"})

MetricsInit ==
  /\ Init
  /\ count = [s \in Samples |-> 0]
  /\ outside = [c \in Calls |-> "no"]

Report(samples) == count' = [s \in Samples |-> count[s] + IF s \in samples THEN 1 ELSE 0]

Reached(layer, hit) ==
  IF hit THEN {<<"request", layer>>} ELSE {<<"request", layer>>, <<"miss", layer>>}

-----------------------------------------------------------------------------
\* executeCacheOperation; outside of enable() the loader runs unobserved.
ReportInvoke(c, k, s) ==
  /\ Invoke(c, k, s)
  /\ Report(IF ~ Enabled(s) THEN {<<"disabled", "noop">>}
            ELSE IF pc'[c] = "load" THEN {<<"error", "key_construction">>} ELSE {})
  /\ outside' = [outside EXCEPT ![c] = IF ~ Enabled(s) THEN "raw"
                                       ELSE IF pc'[c] = "load" THEN "noop" ELSE "no"]

\* The provider's failure has a reason of its own.
ReportBypass(c) ==
  /\ Bypass(c)
  /\ \E failed \in {<<"config_error", "noop">>, <<"disabled", "noop">>} :
       Report({<<"disabled", "noop">>, failed})
  /\ outside' = [outside EXCEPT ![c] = "noop"]

\* singleFlightRequestLocal and the lookup of the flight's leader.  Faulty
\* variant: a follower is reported as a lookup.
MemoSamplesAll(c) == Reached("request_local", pc'[c] = "memoSettled")
MemoSamples(c) ==
  IF pc'[c] = "waitMemo" THEN {<<"coalesced", "request_local">>}
                         ELSE Reached("request_local", pc'[c] = "memoSettled")

\* singleFlightProcess, and readLocalWithResolvedConfig in the leader.
LocalSamples(c) ==
  IF pc'[c] = "waitShared" THEN {<<"coalesced", "process">>}
                           ELSE Reached("local", pc'[c] = "settled")

\* resolveRemoteLayerConfig; a resolution that throws has a reason of its own.
DisabledRemote(why) ==
  {<<"disabled", "remote">>} \cup
  (IF why = "configError" THEN {<<"config_error", "remote">>} ELSE {})

\* readRemoteWithResolvedConfig: a read that fails is an error and, for the
\* counters, no request.
ReadSamples(c) ==
  IF got[c] = "error" THEN {<<"error", "cache_read">>} ELSE Reached("remote", got[c] \in Calls)

\* The layer that a loader's time and errors are attributed to.  Faulty
\* variant: a failed read counts for the local layer.
FallbackLayerMissOnly(c) ==
  IF outside[c] = "noop" THEN "noop"
  ELSE IF plan[c].remote \in {"miss", "configError"} THEN "remote"
  ELSE IF ~ Leads(c) /\ memoRole[c] = "leader" THEN "request_local" ELSE "local"
FallbackLayer(c) ==
  IF outside[c] = "noop" THEN "noop"
  ELSE IF plan[c].remote \in {"miss", "readError", "configError"} THEN "remote"
  ELSE IF ~ Leads(c) /\ memoRole[c] = "leader" THEN "request_local" ELSE "local"

Quiet(c) ==
  \/ SkipMemo(c) \/ ReadExecuted(c) \/ Written(c) \/ ClearFlight(c) \/ ResumeShared(c)
  \/ Memoize(c) \/ ClearMemoFlight(c) \/ ResumeMemo(c)
  \/ \E how \in {"resolved", "rejected"} : RawSettled(c, how)

ReportStep(c) ==
  /\ \/ EnterMemo(c) /\ Report(MemoSamples(c))
     \/ LocalOn(c) /\ Report(LocalSamples(c))
     \/ LocalOff(c) /\ Report({<<"disabled", "local">>})
     \/ RemoteOn(c) /\ Report(IF pc'[c] = "waitShared" THEN {<<"coalesced", "process">>} ELSE {})
     \/ \E why \in {"off", "configError"} : RemoteOff(c, why) /\ Report(DisabledRemote(why))
     \/ ReadHit(c) /\ Report(ReadSamples(c))
     \/ ReadMissed(c) /\ Report(ReadSamples(c))
     \/ Resolved(c) /\ Report({<<"fallback", FallbackLayer(c)>>})
     \/ \E how \in {"rejected", "timedOut"} :
          LoadFailed(c, how)
          /\ Report({<<"fallback", FallbackLayer(c)>>, <<"error", "fallback">>})
     \/ WriteExecuted(c) /\ Report(IF got'[c] = "error" THEN {<<"error", "cache_write">>} ELSE {})
     \/ WriteFailed(c) /\ Report({<<"error", "cache_write">>})
     \/ Quiet(c) /\ UNCHANGED count
  /\ UNCHANGED outside

MetricsNext ==
  \/ \E c \in Calls, k \in Keys, s \in Scopes \cup {Outside} : ReportInvoke(c, k, s)
  \/ \E c \in Calls : ReportBypass(c) \/ ReportStep(c)
  \/ /\ \/ \E c \in Calls : LateWrite(c)
        \/ \E s \in Scopes : CloseScope(s)
        \/ \E k \in Keys : DropLocal(k)
        \/ InvalidateRemote
        \/ RedisElapse
     /\ UNCHANGED metricVars

MetricsSpec == MetricsInit /\ [][MetricsNext]_<<vars, metricVars>>

\* The fairness of ReadThrough's FairSpec.
MetricsFairSpec ==
  MetricsSpec
  /\ \A c \in Calls : WF_<<vars, metricVars>>(Step(c) /\ (ReportBypass(c) \/ ReportStep(c)))

-----------------------------------------------------------------------------
Quiescent == \A c \in Calls : pc[c] \in {"idle", "done"}

Sum3(metric) ==
  count[<<metric, "request_local">>] + count[<<metric, "local">>] + count[<<metric, "remote">>]
Coalesced == count[<<"coalesced", "request_local">>] + count[<<"coalesced", "process">>]
Fallbacks == Sum3("fallback") + count[<<"fallback", "noop">>]

\* However calls interleave, join flights, fail or outlive their scope, each
\* is accounted for once: as a hit of one layer (a request without a miss),
\* as coalesced, as an observed fallback, or as made outside enable(); so
\* hit ratios and coalescing rates computed from the counters are those of
\* the calls (dialcache.ts:309-361, 420-575, 628-638, 688-730).
EachCallCountedOnce ==
  Quiescent =>
    Cardinality({c \in Calls : pc[c] = "done"})
      = (Sum3("request") - Sum3("miss")) + Coalesced + Fallbacks
        + Cardinality({c \in Calls : outside[c] = "raw"})

\* The layer a fallback is attributed to agrees with what the other counters
\* say of that layer: remote when Redis missed, failed or could not be
\* resolved, noop when no layer was reached (dialcache.ts:466-470, 520-523).
FallbackAttribution ==
  Quiescent =>
    /\ count[<<"fallback", "remote">>]
         = count[<<"miss", "remote">>] + count[<<"error", "cache_read">>]
           + count[<<"config_error", "remote">>]
    /\ count[<<"fallback", "noop">>]
         = Cardinality({c \in Calls : outside[c] = "noop"})
=============================================================================
