---------------------------- MODULE CacheIdentity ----------------------------
(***************************************************************************)
(* What names a cached value: use cases registered with an instance, the   *)
(* key a call is served under (src/key.ts), the Redis keys derived from it *)
(* (src/internal/redis-cache.ts) and the watermark key that an             *)
(* invalidation writes.  A text is a sequence of characters; the two hex   *)
(* digits of a percent-encoding count as one character.                    *)
(***************************************************************************)
EXTENDS Integers, SequencesExt

CONSTANTS Characters,
          Namespaces, KeyTypes, Ids, UseCases,   \* sets of texts
          ArgLists,    \* argument objects: sequences of [name, value] entries
          Texts,       \* names of arguments, in code unit order: a sequence
          Reserved,    \* the use case that names watermarks
          Undefined, Nil

\* A call as the application means it.
Identities == [ns : Namespaces, type : KeyTypes, id : Ids, args : ArgLists,
               useCase : UseCases \ {Reserved}, tracked : BOOLEAN]

\* The keys of an argument object differ.
ASSUME IdentityAssumption ==
  /\ Namespaces \cup KeyTypes \cup Ids \cup UseCases \subseteq Seq(Characters)
  /\ Texts \in Seq(Seq(Characters)) /\ IsInjective(Texts)
  /\ \A args \in ArgLists :
       /\ args \in Seq([name : ToSet(Texts), value : Seq(Characters) \cup {Undefined}])
       /\ \A i, j \in DOMAIN args : args[i].name = args[j].name => i = j
  /\ Undefined \notin Seq(Characters)
  /\ Nil \notin Identities /\ Reserved \in UseCases

VARIABLES useCases,    \* the registered use cases of each instance
          wrappers,    \* how many cached functions it returned for each
          latest,      \* the last call that got a key, or Nil
          marked       \* what the last invalidateRemote was for, or Nil

vars == <<useCases, wrappers, latest, marked>>

-----------------------------------------------------------------------------
Escaped == {":", "%", "#", "?", "=", "&", "{", "}"}
Hex == [c \in Escaped |->
  CASE c = ":" -> "3A" [] c = "%" -> "25" [] c = "#" -> "23" [] c = "?" -> "3F"
    [] c = "=" -> "3D" [] c = "&" -> "26" [] c = "{" -> "7B" [] c = "}" -> "7D"]

\* encodeURIComponent.  Faulty variant: the escape character itself is not
\* escaped.
encodeComponentPercent(t) ==
  FlattenSeq([i \in DOMAIN t |->
    IF t[i] \in Escaped \ {"%"} THEN <<"%", Hex[t[i]]>> ELSE <<t[i]>>])
encodeComponent(t) ==
  FlattenSeq([i \in DOMAIN t |->
    IF t[i] \in Escaped THEN <<"%", Hex[t[i]]>> ELSE <<t[i]>>])

HasBraces(t) == ToSet(t) \cap {"{", "}"} # {}

joinUrnComponents(ns, type, id) ==
  encodeComponent(ns) \o <<":">> \o encodeComponent(type) \o <<":">> \o encodeComponent(id)

redisClusterHashTag(t) == <<"{">> \o t \o <<"}">>

Rank(t) == CHOOSE i \in DOMAIN Texts : Texts[i] = t

\* The defined arguments in the order of their names.
normalizeArgs(args) ==
  LET defined == {e \in ToSet(args) : e.value # Undefined}
  IN CHOOSE sorted \in [1 .. Cardinality(defined) -> defined] :
       \A i, j \in DOMAIN sorted : i < j => Rank(sorted[i].name) < Rank(sorted[j].name)

EncodedArgs(args) ==
  FlattenSeq([i \in DOMAIN args |->
    <<IF i = 1 THEN "?" ELSE "&">> \o encodeComponent(args[i].name)
      \o <<"=">> \o encodeComponent(args[i].value)])

\* Faulty variant: tracking leaves no trace in the key.
prefixUntagged(d) == joinUrnComponents(d.ns, d.type, d.id)
prefix(d) == IF d.tracked THEN redisClusterHashTag(joinUrnComponents(d.ns, d.type, d.id))
                          ELSE joinUrnComponents(d.ns, d.type, d.id)

urn(d) == prefix(d) \o EncodedArgs(normalizeArgs(d.args)) \o <<"#">> \o encodeComponent(d.useCase)

redisKey(d) == urn(d) \o <<":", "dialcache-frame-v1">>

redisWatermarkKey(ns, type, id) ==
  redisClusterHashTag(joinUrnComponents(ns, type, id)) \o <<"#", "watermark">>

\* Redis Cluster hashes what stands between the first brace and the next
\* closing one, or all of the key.
Slot(k) ==
  LET from == SelectInSeq(k, LAMBDA ch : ch = "{")
      to   == SelectInSeq(k, LAMBDA ch : ch = "}")
  IN IF from # 0 /\ to > from + 1 THEN SubSeq(k, from + 1, to - 1) ELSE k

-----------------------------------------------------------------------------
Init ==
  /\ useCases = [ns \in Namespaces |-> {}]
  /\ wrappers = [ns \in Namespaces |-> [u \in UseCases |-> 0]]
  /\ latest = Nil
  /\ marked = Nil

\* cached(): the options are validated before the use case is registered.
\* Faulty variant: after.
RegisteredByEager(ns, u, valid) ==
  IF u # Reserved THEN useCases[ns] \cup {u} ELSE useCases[ns]
RegisteredBy(ns, u, valid) ==
  IF valid /\ u # Reserved THEN useCases[ns] \cup {u} ELSE useCases[ns]

\* Whether cached() returns.
MayRegister(ns, u) == u # Reserved /\ u \notin useCases[ns]

Cached(ns, u, valid) ==
  /\ useCases' = [useCases EXCEPT ![ns] = RegisteredBy(ns, u, valid)]
  /\ wrappers' = IF valid /\ MayRegister(ns, u)
                   THEN [wrappers EXCEPT ![ns][u] = @ + 1] ELSE wrappers
  /\ UNCHANGED <<latest, marked>>

\* A cached function or getOrLoad() builds its key; when that throws the
\* call loads without one.
BuildKey(d) ==
  /\ latest' = IF d.tracked /\ (HasBraces(d.type) \/ HasBraces(d.id)) THEN Nil ELSE d
  /\ UNCHANGED <<useCases, wrappers, marked>>

\* invalidateRemote() throws before it writes a watermark for such names.
InvalidateRemote(ns, type, id) ==
  /\ ~ HasBraces(type) /\ ~ HasBraces(id)
  /\ marked' = [ns |-> ns, type |-> type, id |-> id]
  /\ UNCHANGED <<useCases, wrappers, latest>>

Next ==
  \/ \E ns \in Namespaces, u \in UseCases, valid \in BOOLEAN : Cached(ns, u, valid)
  \/ \E d \in Identities : BuildKey(d)
  \/ \E ns \in Namespaces, type \in KeyTypes, id \in Ids : InvalidateRemote(ns, type, id)

Spec == Init /\ [][Next]_vars

-----------------------------------------------------------------------------
ArgMap(args) == {e \in ToSet(args) : e.value # Undefined}

SameIdentity(d, e) == [d EXCEPT !.args = ArgMap(d.args)] = [e EXCEPT !.args = ArgMap(e.args)]

\* Two calls share a cache key exactly when they are calls of one use case
\* for one entity with the same defined arguments, in whatever order these
\* were written: delimiters, escapes and empty texts in the components mix
\* nothing up and split nothing (key.ts:42-61).
KeysIdentify ==
  latest # Nil => \A d \in Identities : urn(d) = urn(latest) <=> SameIdentity(d, latest)

\* A value key is never a watermark key, and a tracked value key lives in
\* the cluster slot of the one watermark that guards it, so that the two-key
\* scripts may run and an invalidation reaches every use case of its entity
\* and no other entity (redis-cache.ts:154-172, key.ts:50-52).
WatermarksGuard ==
  latest # Nil /\ marked # Nil =>
    LET w == redisWatermarkKey(marked.ns, marked.type, marked.id) IN
    /\ redisKey(latest) # w
    /\ latest.tracked =>
         (Slot(redisKey(latest)) = Slot(w)
            <=> <<latest.ns, latest.type, latest.id>> = <<marked.ns, marked.type, marked.id>>)

\* A use case is registered exactly when a cached function of that name
\* exists, and then there is one: cached() that throws leaves the name free
\* for a corrected retry (dialcache.ts:271-274, 656-668).
OneWrapperEach ==
  \A ns \in Namespaces, u \in UseCases :
    wrappers[ns][u] = IF u \in useCases[ns] THEN 1 ELSE 0
=============================================================================
