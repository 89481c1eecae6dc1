---------------------------- MODULE RuntimeConfig ----------------------------
(***************************************************************************)
(* How a call of one use case and key learns which layers it may use       *)
(* (src/internal/runtime-config.ts, src/config.ts), while an operator      *)
(* changes the policy: the validated default config, the provider's        *)
(* overlay, the merge of the two, and the ramp of each layer with its      *)
(* sampler.  The provider and the sampler are awaited, so other overlays   *)
(* may be published between any two of a call's steps.                     *)
(***************************************************************************)
EXTENDS Integers

CONSTANTS Calls,
          Defaults,     \* what defaultConfig may be, usable or not
          Overlays,     \* what the provider may return
          Ttls, Ramps,  \* leaves of the configs
          None,         \* null, no config
          Absent,       \* an undefined field
          NotFinite,    \* NaN, an infinity or no number at all
          Broken,       \* an overlay that is no config
          MaxSafe,      \* Number.MAX_SAFE_INTEGER
          Full,         \* 100 percent
          Samples,      \* what a sampler of the application's may return
          MaxPublished  \* bound on the changes, for model checking

Layers == {"local", "remote"}

Configs == [ttl : [Layers -> Ttls], ramp : [Layers -> Ramps], memo : BOOLEAN \cup {Absent}]

ASSUME ConfigAssumption ==
  /\ Absent \notin Int \cup BOOLEAN /\ NotFinite \notin Int /\ Absent # NotFinite
  /\ None \notin Configs /\ Broken \notin Configs /\ None # Broken
  /\ Ttls \subseteq Int \cup {Absent, NotFinite} /\ Absent \in Ttls
  /\ Ramps \subseteq Int \cup {Absent, NotFinite} /\ 0 \in Ramps
  /\ Samples \subseteq Int \cup {NotFinite}
  /\ Defaults \subseteq Configs \cup {None}
  /\ Overlays \subseteq Configs \cup {None, Broken}
  /\ None \in Overlays
  /\ MaxSafe \in Nat \ {0} /\ Full \in Nat \ {0}
  /\ MaxPublished \in Nat

VARIABLES default,    \* the snapshot of the registered defaultConfig, or Broken
          overlay,    \* what the provider's source holds
          published,  \* how often that has changed
          stable,     \* deterministicRampSampler, or one of the application's
          bucket,     \* stablePercent of the key, per layer
          pc,
          window,     \* history: the overlays in force while a call fetched
          config,     \* keyConfig of a call
          decision    \* the status or reason of each layer of a call

sampler == <<stable, bucket>>

vars == <<default, overlay, published, sampler, pc, window, config, decision>>

Undecided == [l \in Layers |-> "none"]

Init ==
  /\ default = Broken
  /\ overlay = None
  /\ published = 0
  /\ stable \in BOOLEAN
  /\ bucket \in [Layers -> IF stable THEN 0 .. Full - 1 ELSE {0}]
  /\ pc = [c \in Calls |-> "idle"]
  /\ window = [c \in Calls |-> {}]
  /\ config = [c \in Calls |-> None]
  /\ decision = [c \in Calls |-> Undecided]

-----------------------------------------------------------------------------
\* snapshotDefaultConfig: anything else makes the registration throw.
UsableTtl(ttl) == ttl \in 1 .. MaxSafe

AcceptsLeavesLoosely(ttl, ramp) ==                         \* faulty variant
  ttl # NotFinite /\ ramp \in {Absent} \cup 0 .. Full
AcceptsLeaves(ttl, ramp) ==
  /\ ttl = Absent \/ UsableTtl(ttl)
  /\ ramp \in {Absent} \cup 0 .. Full

AcceptsDefault(d) == d # None => \A l \in Layers : AcceptsLeaves(d.ttl[l], d.ramp[l])

\* mergeKeyConfig: a field the overlay has wins, an explicit 0 or false too.
MergedLeafTruthy(base, over) ==                            \* faulty variant
  IF over \in {Absent, 0} THEN base ELSE over
MergedLeaf(base, over) == IF over = Absent THEN base ELSE over

NoConfig == [ttl  |-> [l \in Layers |-> Absent],
             ramp |-> [l \in Layers |-> Absent],
             memo |-> Absent]

Merge(base, over) ==
  LET d == IF base = None THEN NoConfig ELSE base IN
  [ttl  |-> [l \in Layers |-> MergedLeaf(d.ttl[l], over.ttl[l])],
   ramp |-> [l \in Layers |-> MergedLeaf(d.ramp[l], over.ramp[l])],
   memo |-> (IF over.memo = Absent THEN d.memo ELSE over.memo) = TRUE]

\* fetchKeyConfig, given what the provider returned.
Effective(o) == IF o = None THEN default ELSE Merge(default, o)

Clamp(n) == IF n <= 0 THEN 0 ELSE IF n >= Full THEN Full ELSE n

RampOf(cfg, l) == IF cfg.ramp[l] = Absent THEN Full ELSE Clamp(cfg.ramp[l])

\* resolveLayerConfigResult up to the sampler.
Verdict(cfg, l) ==
  IF cfg = None \/ cfg.ttl[l] = Absent THEN "policy_disabled"
  ELSE IF ~ UsableTtl(cfg.ttl[l])      THEN "invalid_ttl"
  ELSE IF cfg.ramp[l] = NotFinite      THEN "invalid_ramp"
  ELSE IF RampOf(cfg, l) = 0           THEN "ramped_down"
  ELSE IF RampOf(cfg, l) = Full        THEN "enabled"
  ELSE "sample"

\* ... and with its answer.
Sampled(cfg, l, s) ==
  IF s # NotFinite /\ Clamp(s) < RampOf(cfg, l) THEN "enabled" ELSE "ramped_down"

\* deterministicRampSampler draws by key and layer, whatever the ramp.
DrawnPerRamp(l, ramp) == (bucket[l] * ramp + 1) % Full     \* faulty variant
Drawn(l, ramp) == bucket[l]

-----------------------------------------------------------------------------
Goto(c, p) == pc' = [pc EXCEPT ![c] = p]

Register(d) ==
  /\ default = Broken
  /\ AcceptsDefault(d)
  /\ default' = d
  /\ UNCHANGED <<overlay, published, sampler, pc, window, config, decision>>

\* The operator changes the policy the provider reads.
Publish(o) ==
  /\ published < MaxPublished
  /\ o # overlay
  /\ overlay' = o
  /\ published' = published + 1
  /\ window' = [c \in Calls |-> IF pc[c] = "fetch" THEN window[c] \cup {o} ELSE window[c]]
  /\ UNCHANGED <<default, sampler, pc, config, decision>>

Invoke(c) ==
  /\ default # Broken
  /\ pc[c] = "idle"
  /\ Goto(c, "fetch")
  /\ window' = [window EXCEPT ![c] = {overlay}]
  /\ UNCHANGED <<default, overlay, published, sampler, config, decision>>

\* The provider answers with what it read at some time since it was asked.
Fetched(c, o) ==
  /\ pc[c] = "fetch"
  /\ o \in window[c] \ {Broken}
  /\ config' = [config EXCEPT ![c] = Effective(o)]
  /\ Goto(c, "local")
  /\ UNCHANGED <<default, overlay, published, sampler, window, decision>>

\* It throws, what it returned is no config, or the call's scope has closed
\* meanwhile: the call runs uncached.
FetchFailed(c) ==
  /\ pc[c] = "fetch"
  /\ Goto(c, "uncached")
  /\ UNCHANGED <<default, overlay, published, sampler, window, config, decision>>

Memoizes(c) == config[c] # None /\ config[c].memo = TRUE

\* The request's memo answers; no shared layer is asked.
MemoHit(c) ==
  /\ pc[c] = "local"
  /\ Memoizes(c)
  /\ Goto(c, "done")
  /\ UNCHANGED <<default, overlay, published, sampler, window, config, decision>>

\* The config a layer is resolved from is the one fetched for the call.
SnapshotReread(c) ==                                       \* faulty variant
  IF overlay = Broken THEN config[c] ELSE Effective(overlay)
Snapshot(c) == config[c]

\* A local hit, or a flight the call joined, ends its part in the chain.
After(l, status) ==
  IF l = "remote" THEN {"done"}
  ELSE IF status = "enabled" THEN {"remote", "done"} ELSE {"remote"}

Decide(c, l, status) ==
  /\ decision' = [decision EXCEPT ![c][l] = status]
  /\ pc' \in {[pc EXCEPT ![c] = p] : p \in After(l, status)}

\* resolveLayerConfigResult of the layer the call has come to.
Resolve(c, l) ==
  LET status == Verdict(Snapshot(c), l) IN
  /\ pc[c] = l
  /\ IF status # "sample" THEN Decide(c, l, status)
     ELSE IF stable
       THEN Decide(c, l, Sampled(Snapshot(c), l, Drawn(l, RampOf(Snapshot(c), l))))
       ELSE \/ \E s \in Samples : Decide(c, l, Sampled(Snapshot(c), l, s))
            \/ Decide(c, l, "config_error")             \* the sampler throws
  /\ UNCHANGED <<default, overlay, published, sampler, window, config>>

Next ==
  \/ \E d \in Defaults : Register(d)
  \/ \E o \in Overlays : Publish(o)
  \/ \E c \in Calls :
       \/ Invoke(c)
       \/ \E o \in Overlays : Fetched(c, o)
       \/ FetchFailed(c)
       \/ MemoHit(c)
       \/ \E l \in Layers : Resolve(c, l)

Spec == Init /\ [][Next]_vars

-----------------------------------------------------------------------------
TypeOK ==
  /\ default \in Configs \cup {None, Broken}
  /\ default \notin {None, Broken} =>
       \A l \in Layers : /\ default.ttl[l] \in {Absent} \cup 1 .. MaxSafe
                         /\ default.ramp[l] \in {Absent} \cup 0 .. Full
  /\ overlay \in Overlays
  /\ published \in 0 .. MaxPublished
  /\ stable \in BOOLEAN
  /\ bucket \in [Layers -> 0 .. Full - 1]
  /\ pc \in [Calls -> {"idle", "fetch", "local", "remote", "uncached", "done"}]
  /\ window \in [Calls -> SUBSET Overlays]
  /\ config \in [Calls -> Configs \cup {None}]
  /\ decision \in [Calls -> [Layers -> {"none", "policy_disabled", "invalid_ttl", "invalid_ramp",
                                        "ramped_down", "enabled", "config_error"}]]

\* The status a stable sampler gives a layer under one overlay.
Prescribed(o, l) ==
  LET cfg == Effective(o) IN
  IF Verdict(cfg, l) = "sample" THEN Sampled(cfg, l, bucket[l]) ELSE Verdict(cfg, l)

\* A call obeys, in all its layers, one overlay that was in force while it
\* asked the provider: no mixture of the policies before and after a change,
\* however long the sampler takes (dialcache.ts:337-363, README "one config
\* snapshot per enabled invocation").
OneSnapshot ==
  stable => \A c \in Calls : pc[c] \in {"local", "remote", "done"} =>
    \E o \in window[c] \ {Broken} :
      \A l \in Layers : decision[c][l] \in {"none", Prescribed(o, l)}

\* DialCacheKeyConfig.disabled().
KillSwitch == [NoConfig EXCEPT !.ramp = [l \in Layers |-> 0], !.memo = FALSE]

\* Calls made under the kill switch use no layer at all, whatever default
\* they inherit and whatever the sampler answers (config.ts:67-80).
KillSwitchStops ==
  \A c \in Calls : window[c] = {KillSwitch} =>
    ~ Memoizes(c) /\ \A l \in Layers : decision[c][l] # "enabled"

\* Raising the ramp of a layer never turns it off for a key it was on for:
\* with the deterministic sampler a rollout only grows (README "the same key
\* is consistently sampled in or out of a partial rollout"; config.ts:25).
RolloutOnlyGrows ==
  stable => \A c, d \in Calls, l \in Layers :
    /\ decision[c][l] = "enabled" /\ decision[d][l] = "ramped_down"
    => RampOf(config[d], l) < RampOf(config[c], l)

\* An invalid TTL or ramp at run time came from the provider and never from
\* the default, which registration has checked (dialcache.ts:644-654).
InvalidFromProvider ==
  \A c \in Calls, l \in Layers :
    decision[c][l] \in {"invalid_ttl", "invalid_ramp"} =>
      \E o \in window[c] \ {None, Broken} :
        o.ttl[l] \notin {Absent} \cup 1 .. MaxSafe \/ o.ramp[l] = NotFinite
=============================================================================
