-------------------------- MODULE RuntimeConfigProofs --------------------------
(***************************************************************************)
(* Proofs of the safety properties of RuntimeConfig, for any defaults and  *)
(* overlays, any number of calls and of changes of the policy, and any     *)
(* sampler.                                                                *)
(*                                                                         *)
(* The properties speak of what a layer was told; the invariant says from  *)
(* which config that follows.  FromWindow ties the config of a call to one *)
(* overlay of its window, which no longer grows once the call has its      *)
(* config; Decided ties each decision to that config.                      *)
(***************************************************************************)
EXTENDS RuntimeConfig, TLAPS

Leaves == Int \cup {Absent, NotFinite}

\* The default does not change once a call has been made.
Registered == \A c \in Calls : pc[c] # "idle" => default # Broken

\* The config a call resolves its layers from is what one overlay of its
\* window made of the default.
FromWindow ==
  \A c \in Calls :
    /\ pc[c] \in {"idle", "fetch", "uncached"} => config[c] = None /\ decision[c] = Undecided
    /\ pc[c] \in {"local", "remote", "done"} =>
         \E o \in window[c] \ {Broken} : config[c] = Effective(o)

\* What the deterministic sampler makes of a config.
StatusOf(cfg, l) ==
  IF Verdict(cfg, l) = "sample" THEN Sampled(cfg, l, bucket[l]) ELSE Verdict(cfg, l)

\* A decision is the verdict on the config, or the sampler's answer to it.
Decided ==
  \A c \in Calls, l \in Layers : decision[c][l] # "none" =>
    /\ \/ decision[c][l] = Verdict(config[c], l)
       \/ Verdict(config[c], l) = "sample"
          /\ decision[c][l] \in {"enabled", "ramped_down", "config_error"}
    /\ stable => decision[c][l] = StatusOf(config[c], l)

IInv == TypeOK /\ Registered /\ FromWindow /\ Decided

-----------------------------------------------------------------------------
\* A leaf of a merged config is one of the two it was merged from.
LEMMA EffectiveType ==
  ASSUME TypeOK, default # Broken, NEW o \in Overlays \ {Broken}
  PROVE  Effective(o) \in Configs \cup {None}
<1>1. CASE o = None
  BY <1>1 DEF Effective, TypeOK
<1>2. CASE o # None
  <2>1. o \in Configs
    BY <1>2, ConfigAssumption
  <2>2. default \in Configs \cup {None}
    BY DEF TypeOK
  <2> DEFINE d == IF default = None THEN NoConfig ELSE default
  <2>3. /\ \A l \in Layers : MergedLeaf(d.ttl[l], o.ttl[l]) \in Ttls
        /\ \A l \in Layers : MergedLeaf(d.ramp[l], o.ramp[l]) \in Ramps
    BY <2>1, <2>2 DEF Configs, NoConfig, MergedLeaf
  <2>4. Merge(default, o) = [ttl  |-> [l \in Layers |-> MergedLeaf(d.ttl[l], o.ttl[l])],
                             ramp |-> [l \in Layers |-> MergedLeaf(d.ramp[l], o.ramp[l])],
                             memo |-> (IF o.memo = Absent THEN d.memo ELSE o.memo) = TRUE]
    BY DEF Merge
  <2>5. Merge(default, o) \in Configs
    BY <2>3, <2>4 DEF Configs
  <2> QED
    BY <1>2, <2>5 DEF Effective
<1> QED
  BY <1>1, <1>2

\* The statuses there are.
LEMMA VerdictType ==
  ASSUME NEW cfg, NEW l
  PROVE  Verdict(cfg, l) \in {"policy_disabled", "invalid_ttl", "invalid_ramp", "ramped_down",
                              "enabled", "sample"}
  BY DEF Verdict

LEMMA SampledType ==
  ASSUME NEW cfg, NEW l, NEW s
  PROVE  Sampled(cfg, l, s) \in {"enabled", "ramped_down"}
  BY DEF Sampled

\* A call decides the layer it has come to, once, by the config it has.
LEMMA ResolveDecides ==
  ASSUME TypeOK, NEW c \in Calls, NEW l \in Layers, Resolve(c, l)
  PROVE  \E status \in {"policy_disabled", "invalid_ttl", "invalid_ramp", "ramped_down",
                        "enabled", "config_error"} :
           /\ decision' = [decision EXCEPT ![c][l] = status]
           /\ \E p \in {"remote", "done"} : pc' = [pc EXCEPT ![c] = p]
           /\ \/ status = Verdict(config[c], l)
              \/ Verdict(config[c], l) = "sample"
                 /\ status \in {"enabled", "ramped_down", "config_error"}
           /\ stable => status = StatusOf(config[c], l)
<1>1. CASE Verdict(config[c], l) # "sample"
  BY <1>1, VerdictType DEF Resolve, Snapshot, Decide, After, StatusOf
<1>2. CASE Verdict(config[c], l) = "sample" /\ stable
  <2>1. Decide(c, l, Sampled(config[c], l, bucket[l]))
    BY <1>2 DEF Resolve, Snapshot, Drawn
  <2> DEFINE status == Sampled(config[c], l, bucket[l])
  <2>2. status \in {"enabled", "ramped_down"} /\ status = StatusOf(config[c], l)
    BY <1>2, SampledType DEF StatusOf
  <2>3. decision' = [decision EXCEPT ![c][l] = status]
    BY <2>1 DEF Decide
  <2>4. \E p \in {"remote", "done"} : pc' = [pc EXCEPT ![c] = p]
    BY <2>1 DEF Decide, After
  <2> HIDE DEF status
  <2> QED
    BY <1>2, <2>2, <2>3, <2>4
<1>3. CASE Verdict(config[c], l) = "sample" /\ ~ stable
  <2>1. \/ \E s \in Samples : Decide(c, l, Sampled(config[c], l, s))
        \/ Decide(c, l, "config_error")
    BY <1>3 DEF Resolve, Snapshot
  <2> QED
    BY <1>3, <2>1, SampledType DEF Decide, After
<1> QED
  BY <1>1, <1>2, <1>3

-----------------------------------------------------------------------------
LEMMA InitHolds == Init => IInv
<1> SUFFICES ASSUME Init PROVE IInv
  OBVIOUS
<1>1. TypeOK
  <2>1. bucket \in [Layers -> 0 .. Full - 1]
    BY ConfigAssumption DEF Init
  <2> QED
    BY <2>1, ConfigAssumption DEF Init, TypeOK, Undecided
<1>2. Registered /\ FromWindow /\ Decided
  BY DEF Init, Registered, FromWindow, Decided, Undecided
<1> QED
  BY <1>1, <1>2 DEF IInv

\* Registration: no call has been made yet, so nothing rests on the default.
LEMMA RegisterHolds ==
  ASSUME IInv, NEW d \in Defaults, Register(d)
  PROVE  IInv'
<1>1. d \in Configs \cup {None} /\ default = Broken
  BY ConfigAssumption DEF Register
<1>2. d # None => \A l \in Layers : /\ d.ttl[l] \in {Absent} \cup 1 .. MaxSafe
                                    /\ d.ramp[l] \in {Absent} \cup 0 .. Full
  BY DEF Register, AcceptsDefault, AcceptsLeaves, UsableTtl
<1>3. TypeOK'
  BY <1>1, <1>2 DEF IInv, TypeOK, Register, sampler
<1>4. Registered'
  BY <1>1, ConfigAssumption DEF IInv, Registered, Register
<1>5. \A c \in Calls : pc[c] = "idle"
  BY <1>1 DEF IInv, Registered
<1>6. FromWindow' /\ Decided'
  BY <1>5 DEF IInv, FromWindow, Decided, StatusOf, Verdict, Sampled, RampOf, Register, sampler,
     TypeOK, Undecided
<1> QED
  BY <1>3, <1>4, <1>6 DEF IInv

\* A change of the policy: only calls still asking may get to see it.
LEMMA PublishHolds ==
  ASSUME IInv, NEW o \in Overlays, Publish(o)
  PROVE  IInv'
<1>1. TypeOK'
  BY ConfigAssumption DEF IInv, TypeOK, Publish, sampler
<1>2. Registered'
  BY DEF IInv, Registered, Publish
<1>3. \A c \in Calls : pc[c] # "fetch" => window'[c] = window[c]
  BY DEF IInv, TypeOK, Publish
<1>4. \A x : Effective(x)' = Effective(x)
  BY DEF Publish, Effective
<1>5. FromWindow'
  BY <1>3, <1>4 DEF IInv, FromWindow, Publish
<1>6. Decided'
  BY DEF IInv, Decided, StatusOf, Verdict, Sampled, RampOf, Publish, sampler
<1> QED
  BY <1>1, <1>2, <1>5, <1>6 DEF IInv

LEMMA CallHolds ==
  ASSUME IInv, NEW c \in Calls,
         \/ Invoke(c)
         \/ \E o \in Overlays : Fetched(c, o)
         \/ FetchFailed(c)
         \/ MemoHit(c)
         \/ \E l \in Layers : Resolve(c, l)
  PROVE  IInv'
<1>types. /\ pc \in [Calls -> {"idle", "fetch", "local", "remote", "uncached", "done"}]
          /\ window \in [Calls -> SUBSET Overlays]
          /\ config \in [Calls -> Configs \cup {None}]
          /\ decision \in [Calls -> [Layers -> {"none", "policy_disabled", "invalid_ttl",
                             "invalid_ramp", "ramped_down", "enabled", "config_error"}]]
          /\ overlay \in Overlays
  BY DEF IInv, TypeOK
<1>quiet. UNCHANGED <<default, overlay, published, sampler>>
  BY DEF Invoke, Fetched, FetchFailed, MemoHit, Resolve
<1>same. \A x : Effective(x)' = Effective(x)
  BY <1>quiet DEF Effective
<1>status. \A cfg, l : StatusOf(cfg, l)' = StatusOf(cfg, l)
  BY <1>quiet DEF StatusOf, sampler
<1>0. /\ \A d \in Calls \ {c} : /\ pc'[d] = pc[d] /\ config'[d] = config[d]
                                /\ window'[d] = window[d] /\ decision'[d] = decision[d]
      /\ pc[c] # "idle" => default # Broken
  BY <1>types DEF IInv, Registered, Invoke, Fetched, FetchFailed, MemoHit, Resolve, Decide, Goto
<1>1. ASSUME pc' \in [Calls -> {"idle", "fetch", "local", "remote", "uncached", "done"}],
             window' \in [Calls -> SUBSET Overlays],
             config' \in [Calls -> Configs \cup {None}],
             decision' \in [Calls -> [Layers -> {"none", "policy_disabled", "invalid_ttl",
                              "invalid_ramp", "ramped_down", "enabled", "config_error"}]],
             default # Broken,
             pc'[c] \in {"idle", "fetch", "uncached"} =>
               config'[c] = None /\ decision'[c] = Undecided,
             pc'[c] \in {"local", "remote", "done"} =>
               \E o \in window'[c] \ {Broken} : config'[c] = Effective(o),
             \A l \in Layers : decision'[c][l] # "none" =>
               /\ \/ decision'[c][l] = Verdict(config'[c], l)
                  \/ Verdict(config'[c], l) = "sample"
                     /\ decision'[c][l] \in {"enabled", "ramped_down", "config_error"}
               /\ stable => decision'[c][l] = StatusOf(config'[c], l)
      PROVE  IInv'
  <2>1. TypeOK'
    BY <1>1, <1>quiet DEF IInv, TypeOK, sampler
  <2>2. Registered'
    BY <1>1, <1>quiet DEF Registered
  <2>3. FromWindow'
    BY <1>0, <1>1, <1>same DEF IInv, FromWindow
  <2>4. Decided'
    <3> SUFFICES ASSUME NEW d \in Calls, NEW l \in Layers, decision'[d][l] # "none"
                 PROVE  /\ \/ decision'[d][l] = Verdict(config'[d], l)
                           \/ Verdict(config'[d], l) = "sample"
                              /\ decision'[d][l] \in {"enabled", "ramped_down", "config_error"}
                        /\ stable' => decision'[d][l] = StatusOf(config[d], l)'
      BY DEF Decided, Verdict, RampOf
    <3>1. StatusOf(config[d], l)' = StatusOf(config'[d], l) /\ stable' = stable
      BY <1>quiet DEF StatusOf, sampler
    <3>2. CASE d = c
      BY <1>1, <3>1, <3>2
    <3>3. CASE d # c
      BY <1>0, <3>1, <3>3 DEF IInv, Decided
    <3> QED
      BY <3>2, <3>3
  <2> QED
    BY <2>1, <2>2, <2>3, <2>4 DEF IInv
<1>2. CASE Invoke(c) \/ FetchFailed(c)
  <2>1. /\ pc[c] \in {"idle", "fetch"} /\ default # Broken
        /\ config' = config /\ decision' = decision
        /\ \E p \in {"fetch", "uncached"} : pc' = [pc EXCEPT ![c] = p]
    BY <1>0, <1>2 DEF Invoke, FetchFailed, Goto
  <2>2. window' \in [Calls -> SUBSET Overlays]
    BY <1>2, <1>types DEF Invoke, FetchFailed
  <2>3. config[c] = None /\ decision[c] = Undecided
    BY <2>1 DEF IInv, FromWindow
  <2>4. \A l \in Layers : decision'[c][l] = "none"
    BY <2>1, <2>3 DEF Undecided
  <2>5. pc' \in [Calls -> {"idle", "fetch", "local", "remote", "uncached", "done"}]
        /\ pc'[c] \in {"fetch", "uncached"}
    BY <2>1, <1>types
  <2> QED
    BY <1>1, <1>types, <2>1, <2>2, <2>3, <2>4, <2>5
<1>3. ASSUME NEW o \in Overlays, Fetched(c, o)
      PROVE  IInv'
  <2>1. Effective(o) \in Configs \cup {None}
    BY <1>0, <1>3, EffectiveType DEF Fetched, IInv
  <2> QED
    BY <1>0, <1>1, <1>3, <1>types, <2>1 DEF IInv, FromWindow, Fetched, Goto, Undecided
<1>4. CASE MemoHit(c)
  BY <1>0, <1>1, <1>4, <1>types DEF IInv, FromWindow, Decided, MemoHit, Goto
<1>5. ASSUME NEW l \in Layers, Resolve(c, l)
      PROVE  IInv'
  <2>1. PICK status \in {"policy_disabled", "invalid_ttl", "invalid_ramp", "ramped_down",
                         "enabled", "config_error"} :
          /\ decision' = [decision EXCEPT ![c][l] = status]
          /\ \E p \in {"remote", "done"} : pc' = [pc EXCEPT ![c] = p]
          /\ \/ status = Verdict(config[c], l)
             \/ Verdict(config[c], l) = "sample"
                /\ status \in {"enabled", "ramped_down", "config_error"}
          /\ stable => status = StatusOf(config[c], l)
    BY <1>5, ResolveDecides DEF IInv
  <2>2. pc[c] \in {"local", "remote"} /\ window' = window /\ config' = config
    BY <1>5 DEF Resolve, Layers
  <2>3. \A m \in Layers : decision'[c][m] = IF m = l THEN status ELSE decision[c][m]
    BY <1>types, <2>1
  <2>4. \A m \in Layers : decision'[c][m] # "none" =>
          /\ \/ decision'[c][m] = Verdict(config'[c], m)
             \/ Verdict(config'[c], m) = "sample"
                /\ decision'[c][m] \in {"enabled", "ramped_down", "config_error"}
          /\ stable => decision'[c][m] = StatusOf(config'[c], m)
    BY <2>1, <2>2, <2>3 DEF IInv, Decided
  <2>5. pc'[c] \in {"remote", "done"}
    BY <1>types, <2>1
  <2>6. \E o \in window[c] \ {Broken} : config[c] = Effective(o)
    BY <2>2 DEF IInv, FromWindow
  <2> QED
    BY <1>0, <1>1, <1>types, <2>1, <2>2, <2>4, <2>5, <2>6
<1> QED
  BY <1>2, <1>3, <1>4, <1>5

LEMMA StepHolds == IInv /\ [Next]_vars => IInv'
<1> SUFFICES ASSUME IInv, [Next]_vars PROVE IInv'
  OBVIOUS
<1>1. CASE Next
  BY <1>1, RegisterHolds, PublishHolds, CallHolds DEF Next
<1>2. CASE UNCHANGED vars
  <2>1. TypeOK' /\ Registered'
    BY <1>2 DEF IInv, TypeOK, Registered, vars, sampler
  <2>2. FromWindow' /\ Decided'
    BY <1>2 DEF IInv, FromWindow, Decided, Effective, StatusOf, Verdict, Sampled, RampOf, vars,
       sampler
  <2> QED
    BY <2>1, <2>2 DEF IInv
<1> QED
  BY <1>1, <1>2

LEMMA InvHolds == Spec => []IInv
  BY InitHolds, StepHolds, PTL DEF Spec

-----------------------------------------------------------------------------
\* Every variable keeps its type; in particular a registered default holds
\* only leaves the validation of dialcache.ts:644-654 lets through.
THEOREM TypeCorrect == Spec => []TypeOK
<1>1. IInv => TypeOK
  BY DEF IInv
<1> QED
  BY <1>1, InvHolds, PTL

\* A call that was told anything about a layer has the config of one overlay.
LEMMA DecidedFrom ==
  ASSUME IInv, NEW c \in Calls, NEW l \in Layers, decision[c][l] # "none"
  PROVE  /\ default # Broken
         /\ \E o \in window[c] \ {Broken} : config[c] = Effective(o)
<1>1. decision[c] # Undecided
  BY DEF Undecided
<1>2. pc[c] \in {"local", "remote", "done"}
  BY <1>1 DEF IInv, TypeOK, FromWindow
<1> QED
  BY <1>2 DEF IInv, Registered, FromWindow

\* All layers of a call obey one overlay that was in force while it asked the
\* provider, with a stable sampler (dialcache.ts:337-363).
THEOREM OneSnapshotHolds == Spec => []OneSnapshot
<1>1. IInv => OneSnapshot
  BY DEF IInv, FromWindow, Decided, OneSnapshot, Prescribed, StatusOf
<1> QED
  BY <1>1, InvHolds, PTL

\* What the kill switch makes of any default: no memo, and no layer enabled
\* or left to the sampler.
LEMMA KillSwitchMerged ==
  ASSUME TypeOK, default # Broken
  PROVE  /\ KillSwitch \in Configs
         /\ Effective(KillSwitch).memo = FALSE
         /\ \A l \in Layers : Verdict(Effective(KillSwitch), l) \notin {"enabled", "sample"}
<1>1. NoConfig \in Configs
  BY ConfigAssumption DEF NoConfig, Configs
<1>2. /\ KillSwitch \in Configs
      /\ KillSwitch.ramp = [l \in Layers |-> 0]
      /\ KillSwitch.memo = FALSE
  <2> DEFINE off == [l \in Layers |-> 0]
  <2>1. off \in [Layers -> Ramps]
    BY ConfigAssumption
  <2>2. KillSwitch = [NoConfig EXCEPT !.ramp = off, !.memo = FALSE]
    BY DEF KillSwitch
  <2> HIDE DEF off
  <2>3. KillSwitch \in Configs /\ KillSwitch.ramp = off /\ KillSwitch.memo = FALSE
    BY <1>1, <2>1, <2>2 DEF Configs
  <2> QED
    BY <2>3 DEF off
<1>3. KillSwitch # None
  BY <1>2, ConfigAssumption
<1>4. 0 # Absent /\ FALSE # Absent
  BY ConfigAssumption
<1>5. Effective(KillSwitch) = Merge(default, KillSwitch)
  BY <1>3 DEF Effective
<1>6. /\ Merge(default, KillSwitch).memo = FALSE
      /\ \A l \in Layers : Merge(default, KillSwitch).ramp[l] = 0
  BY <1>2, <1>4 DEF Merge, MergedLeaf
<1>7. \A l \in Layers : RampOf(Merge(default, KillSwitch), l) = 0
  BY <1>4, <1>6, ConfigAssumption DEF RampOf, Clamp
<1> QED
  BY <1>2, <1>5, <1>6, <1>7 DEF Verdict

\* Calls made under the kill switch use no layer, whatever default they
\* inherit and whatever the sampler answers (config.ts:67-80).
THEOREM KillSwitchHolds == Spec => []KillSwitchStops
<1>1. IInv => KillSwitchStops
  <2> SUFFICES ASSUME IInv, NEW c \in Calls, window[c] = {KillSwitch}
               PROVE  ~ Memoizes(c) /\ \A l \in Layers : decision[c][l] # "enabled"
    BY DEF KillSwitchStops
  <2>1. CASE pc[c] \in {"idle", "fetch", "uncached"}
    BY <2>1 DEF IInv, FromWindow, Memoizes, Undecided
  <2>2. CASE pc[c] \in {"local", "remote", "done"}
    <3>1. TypeOK /\ default # Broken
      BY <2>2 DEF IInv, Registered
    <3>2. config[c] = Effective(KillSwitch)
      BY <2>2 DEF IInv, FromWindow
    <3>3. /\ config[c].memo = FALSE
          /\ \A l \in Layers : Verdict(config[c], l) \notin {"enabled", "sample"}
      BY <3>1, <3>2, KillSwitchMerged
    <3>4. \A l \in Layers : decision[c][l] # "none" =>
            \/ decision[c][l] = Verdict(config[c], l)
            \/ Verdict(config[c], l) = "sample"
      BY DEF IInv, Decided
    <3> QED
      BY <3>3, <3>4 DEF Memoizes
  <2> QED
    BY <2>1, <2>2 DEF IInv, TypeOK
<1> QED
  BY <1>1, InvHolds, PTL

\* The ramp of a config lies between none and all of the load, unless it is
\* no number at all.
LEMMA RampBounds ==
  ASSUME NEW cfg \in Configs, NEW l \in Layers, cfg.ramp[l] # NotFinite
  PROVE  RampOf(cfg, l) \in 0 .. Full
<1>1. cfg.ramp[l] \in Int \cup {Absent}
  BY ConfigAssumption DEF Configs
<1> QED
  BY <1>1, ConfigAssumption DEF RampOf, Clamp

\* Which ramps a stable decision stands for, the bucket being the key's own.
LEMMA StatusRamps ==
  ASSUME NEW cfg \in Configs \cup {None}, NEW l \in Layers, bucket[l] \in 0 .. Full - 1,
         StatusOf(cfg, l) \in {"enabled", "ramped_down"}
  PROVE  /\ RampOf(cfg, l) \in 0 .. Full
         /\ StatusOf(cfg, l) = "enabled" <=> bucket[l] < RampOf(cfg, l)
<1>1. Verdict(cfg, l) \in {"ramped_down", "enabled", "sample"}
  BY VerdictType DEF StatusOf
<1>2. cfg \in Configs /\ cfg.ramp[l] # NotFinite
  BY <1>1 DEF Verdict
<1>3. RampOf(cfg, l) \in 0 .. Full
  BY <1>2, RampBounds
<1>4. Full \in Nat \ {0} /\ bucket[l] \in Int /\ bucket[l] # NotFinite
  BY ConfigAssumption
<1>5. Clamp(bucket[l]) = bucket[l]
  BY <1>4 DEF Clamp
<1>6. CASE Verdict(cfg, l) = "sample"
  BY <1>4, <1>5, <1>6, <1>3 DEF StatusOf, Sampled
<1>7. CASE Verdict(cfg, l) = "enabled"
  <2>1. RampOf(cfg, l) = Full
    BY <1>7 DEF Verdict
  <2> QED
    BY <1>3, <1>4, <1>7, <2>1 DEF StatusOf
<1>8. CASE Verdict(cfg, l) = "ramped_down"
  <2>1. RampOf(cfg, l) = 0
    BY <1>8 DEF Verdict
  <2> QED
    BY <1>3, <1>4, <1>8, <2>1 DEF StatusOf
<1> QED
  BY <1>1, <1>6, <1>7, <1>8

\* With the deterministic sampler raising a ramp never turns a layer off for
\* a key it was on for (config.ts:25).
THEOREM RolloutHolds == Spec => []RolloutOnlyGrows
<1>1. IInv => RolloutOnlyGrows
  <2> SUFFICES ASSUME IInv, stable, NEW c \in Calls, NEW d \in Calls, NEW l \in Layers,
                      decision[c][l] = "enabled", decision[d][l] = "ramped_down"
               PROVE  RampOf(config[d], l) < RampOf(config[c], l)
    BY DEF RolloutOnlyGrows
  <2>1. /\ bucket[l] \in 0 .. Full - 1
        /\ config[c] \in Configs \cup {None}
        /\ config[d] \in Configs \cup {None}
    BY DEF IInv, TypeOK
  <2>2. StatusOf(config[c], l) = "enabled" /\ StatusOf(config[d], l) = "ramped_down"
    BY DEF IInv, Decided
  <2>3. RampOf(config[c], l) \in 0 .. Full /\ bucket[l] < RampOf(config[c], l)
    BY <2>1, <2>2, StatusRamps
  <2>4. RampOf(config[d], l) \in 0 .. Full /\ ~ (bucket[l] < RampOf(config[d], l))
    BY <2>1, <2>2, StatusRamps
  <2> QED
    BY <2>1, <2>3, <2>4, ConfigAssumption
<1> QED
  BY <1>1, InvHolds, PTL

\* An invalid TTL or ramp at run time came from the provider, never from the
\* default (dialcache.ts:644-654).
THEOREM InvalidHolds == Spec => []InvalidFromProvider
<1>1. IInv => InvalidFromProvider
  <2> SUFFICES ASSUME IInv, NEW c \in Calls, NEW l \in Layers,
                      decision[c][l] \in {"invalid_ttl", "invalid_ramp"}
               PROVE  \E o \in window[c] \ {None, Broken} :
                        o.ttl[l] \notin {Absent} \cup 1 .. MaxSafe \/ o.ramp[l] = NotFinite
    BY DEF InvalidFromProvider
  <2>1. Verdict(config[c], l) \in {"invalid_ttl", "invalid_ramp"}
    BY DEF IInv, Decided
  <2>2. /\ config[c] # None
        /\ \/ config[c].ttl[l] \notin {Absent} \cup 1 .. MaxSafe
           \/ config[c].ramp[l] = NotFinite
    BY <2>1 DEF Verdict, UsableTtl
  <2>3. PICK o \in window[c] \ {Broken} : default # Broken /\ config[c] = Effective(o)
    BY DecidedFrom
  <2>4. default # None => /\ default.ttl[l] \in {Absent} \cup 1 .. MaxSafe
                          /\ default.ramp[l] # NotFinite
    BY <2>3, ConfigAssumption DEF IInv, TypeOK
  <2>5. o # None
    BY <2>2, <2>3, <2>4 DEF Effective
  <2>6. /\ config[c].ttl[l] \in {o.ttl[l], IF default = None THEN Absent ELSE default.ttl[l]}
        /\ config[c].ramp[l] \in {o.ramp[l], IF default = None THEN Absent ELSE default.ramp[l]}
    BY <2>3, <2>5 DEF Effective, Merge, MergedLeaf, NoConfig
  <2> QED
    BY <2>2, <2>3, <2>4, <2>5, <2>6, ConfigAssumption
<1> QED
  BY <1>1, InvHolds, PTL

=============================================================================
