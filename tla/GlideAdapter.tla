---------------------------- MODULE GlideAdapter ----------------------------
(***************************************************************************)
(* createValkeyGlideDialCacheClient (src/valkey-glide.ts): adapters that   *)
(* own five native Script handles each, the invocations that use them, and *)
(* dispose(), called at any moment, in step with the invocations or not.   *)
(*                                                                         *)
(* An invocation on a disposed adapter, a dispose() while invocations are  *)
(* in flight and a repeated dispose() throw or return before they change   *)
(* anything: they are stuttering steps here.                               *)
(***************************************************************************)
EXTENDS Integers, FiniteSets

CONSTANTS Adapters,
          Calls,       \* invocations, reused once they have returned
          Nil

VARIABLES state,       \* of each adapter
          held,        \* its handles: constructed and not released
          active,      \* activeInvocations
          call,        \* Nil or [adapter, script, settled] of an invocation
          draining     \* the application starts no more work on it

vars == <<state, held, active, call, draining>>

ScriptOrder == <<"read", "readTracked", "write", "writeTracked", "invalidate">>
Scripts == {ScriptOrder[i] : i \in 1 .. 5}
FirstScripts(n) == {ScriptOrder[i] : i \in 1 .. n}

Invocations == [adapter : Adapters, script : Scripts, settled : BOOLEAN]

ASSUME CallAssumption == IsFiniteSet(Calls) /\ Nil \notin Invocations

Init ==
  /\ state = [a \in Adapters |-> "absent"]
  /\ held = [a \in Adapters |-> {}]
  /\ active = [a \in Adapters |-> 0]
  /\ call = [c \in Calls |-> Nil]
  /\ draining = [a \in Adapters |-> FALSE]

-----------------------------------------------------------------------------
\* The Script constructors run one by one; if one throws there is no adapter,
\* and nobody to release the handles made before it.
Create(a) ==
  /\ state[a] = "absent"
  /\ \E n \in 0 .. 5 :
       /\ held' = [held EXCEPT ![a] = FirstScripts(n)]
       /\ state' = [state EXCEPT ![a] = IF n = 5 THEN "ready" ELSE "failed"]
  /\ UNCHANGED <<active, call, draining>>

ActiveAfterInvoke(a) == [active EXCEPT ![a] = @ + 1]
MayInvoke(a) == state[a] = "ready"

\* invoke(): from the disposed test to the await in one go.
Invoke(c, a, script) ==
  /\ call[c] = Nil
  /\ MayInvoke(a) /\ ~ draining[a]
  /\ active' = ActiveAfterInvoke(a)
  /\ call' = [call EXCEPT ![c] = [adapter |-> a, script |-> script, settled |-> FALSE]]
  /\ UNCHANGED <<state, held, draining>>

\* GLIDE resolves or rejects; the finally block runs in a later microtask.
Settle(c) ==
  /\ call[c] # Nil /\ ~ call[c].settled
  /\ call' = [call EXCEPT ![c].settled = TRUE]
  /\ UNCHANGED <<state, held, active, draining>>

ActiveAfterReturnKept(a) == active                         \* faulty variant
ActiveAfterReturn(a) == [active EXCEPT ![a] = @ - 1]

Return(c) ==
  /\ call[c] # Nil /\ call[c].settled
  /\ active' = ActiveAfterReturn(call[c].adapter)
  /\ call' = [call EXCEPT ![c] = Nil]
  /\ UNCHANGED <<state, held, draining>>

\* Handles are released one by one; a release that throws leaves the rest
\* unreleased, on an adapter that is disposed all the same.  Faulty variant:
\* the adapter counts as disposed only after the last release.
StateAfterReleasesLast(a, n) == [state EXCEPT ![a] = IF n = 5 THEN "disposed" ELSE @]
StateAfterReleases(a, n) == [state EXCEPT ![a] = "disposed"]

Dispose(a) ==
  /\ state[a] = "ready"
  /\ active[a] = 0
  /\ \E n \in 0 .. 5 :
       /\ held' = [held EXCEPT ![a] = Scripts \ FirstScripts(n)]
       /\ state' = StateAfterReleases(a, n)
  /\ UNCHANGED <<active, call, draining>>

\* The application's side of the documented shutdown (README.md:371-373).
Drain(a) ==
  /\ state[a] = "ready" /\ ~ draining[a]
  /\ draining' = [draining EXCEPT ![a] = TRUE]
  /\ UNCHANGED <<state, held, active, call>>

Next ==
  \/ \E a \in Adapters : Create(a) \/ Dispose(a) \/ Drain(a)
  \/ \E c \in Calls, a \in Adapters, script \in Scripts : Invoke(c, a, script)
  \/ \E c \in Calls : Settle(c) \/ Return(c)

Spec == Init /\ [][Next]_vars

\* GLIDE settles every invocation (its requestTimeout), microtasks run, and
\* an application that drains an adapter disposes of it when its operations
\* have finished.
FairSpec ==
  /\ Spec
  /\ \A c \in Calls : WF_vars(Settle(c)) /\ WF_vars(Return(c))
  /\ \A a \in Adapters : WF_vars(draining[a] /\ Dispose(a))

-----------------------------------------------------------------------------
TypeOK ==
  /\ state \in [Adapters -> {"absent", "failed", "ready", "disposed"}]
  /\ held \in [Adapters -> SUBSET Scripts]
  /\ active \in [Adapters -> Nat]
  /\ call \in [Calls -> Invocations \cup {Nil}]
  /\ draining \in [Adapters -> BOOLEAN]

InFlight(a) == {c \in Calls : call[c] # Nil /\ call[c].adapter = a}

\* The counter that dispose() trusts is exact, whether an invocation
\* resolved or rejected, and also between its settling and its finally block
\* (valkey-glide.ts:85-91).
CountExact == \A a \in Adapters : active[a] = Cardinality(InFlight(a))

\* GLIDE is never asked to run a script whose handle has been released: not
\* by an invocation racing dispose(), and not after a dispose() that failed
\* half way (valkey-glide.ts:82-84, 126-136).
HandlesHeld == \A c \in Calls : call[c] # Nil => call[c].script \in held[call[c].adapter]

\* Once an adapter is disposed of, nothing more is released and nothing is
\* started: releases happen at most once each (valkey-glide.ts:127-129).
DisposedForGood ==
  [][\A a \in Adapters : state[a] = "disposed" =>
       held'[a] = held[a] /\ active'[a] = 0 /\ state'[a] = "disposed"]_vars

\* An application that stops starting work gets to dispose of its adapter:
\* nothing keeps the counter above zero.
DrainEnds == \A a \in Adapters : draining[a] ~> state[a] = "disposed"
=============================================================================
