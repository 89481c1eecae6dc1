---------------------------- MODULE RequestScope ----------------------------
(***************************************************************************)
(* DialCacheContext (src/context.ts): which asynchronous work is enabled,  *)
(* and which request's memo it uses, when enable() and disable() nest, run *)
(* concurrently and leave unawaited children behind.                       *)
(*                                                                         *)
(* A task is one asynchronous activity: the callback of an enable() or     *)
(* disable(), or work started inside one.  AsyncLocalStorage gives a task  *)
(* the store of the task that started it; that store never changes, only   *)
(* the request holder it refers to does.  A holder is named by the task    *)
(* that created it, the callback of an outermost enable().                 *)
(***************************************************************************)
EXTENDS Integers, FiniteSets

CONSTANTS Tasks,
          Root,      \* the task outside of every enable()
          Nil

ASSUME TaskAssumption == Root \in Tasks /\ Nil \notin Tasks

VARIABLES store,     \* ContextStore of each task, NoStore before it starts
          ancestors, \* history: the tasks each was started under
          running,   \* tasks whose promise has not settled
          closed,    \* holders with closed set
          handle,    \* the RequestLocalCache a cached call of the task uses
          memo       \* RequestLocalCache.values, by holder: who stored one

scopeVars == <<store, ancestors, running, closed, handle, memo>>

NoStore == [enabled |-> FALSE, holder |-> Nil]

ScopeInit ==
  /\ store = [t \in Tasks |-> NoStore]
  /\ ancestors = [t \in Tasks |-> {}]
  /\ running = {Root}
  /\ closed = {}
  /\ handle = [t \in Tasks |-> Nil]
  /\ memo = [t \in Tasks |-> {}]

-----------------------------------------------------------------------------
isEnabled(t) == store[t].enabled /\ store[t].holder \notin closed \cup {Nil}

liveHolder(t) == IF store[t].holder \in closed THEN Nil ELSE store[t].holder

\* The holder enable() runs its callback u under: the request's, or a new one.
HolderFor(t, u) == IF liveHolder(t) # Nil THEN liveHolder(t) ELSE u

\* Task t starts u with store s; nothing obliges it to await u.
Start(t, u, s) ==
  /\ t \in running
  /\ u \notin running /\ ancestors[u] = {} /\ u # Root
  /\ store' = [store EXCEPT ![u] = s]
  /\ ancestors' = [ancestors EXCEPT ![u] = ancestors[t] \cup {t}]
  /\ running' = running \cup {u}
  /\ UNCHANGED <<closed, handle, memo>>

Enable(t, u)  == Start(t, u, [enabled |-> TRUE, holder |-> HolderFor(t, u)])

\* disable() remembers the request for an enable() inside it.
DisabledStoreForgets(t) == NoStore                         \* faulty variant
DisabledStore(t) == [enabled |-> FALSE, holder |-> liveHolder(t)]

Disable(t, u) == Start(t, u, DisabledStore(t))
Spawn(t, u)   == Start(t, u, store[t])

\* runOutermost closes the holder it created, and that one only.
ClosesNothing(t) == {}                                     \* faulty variant
Closes(t) == {t} \cap {store[t].holder}

Settle(t) ==
  /\ t \in running \ {Root}
  /\ running' = running \ {t}
  /\ closed' = closed \cup Closes(t)
  /\ memo' = [h \in Tasks |-> IF h \in Closes(t) THEN {} ELSE memo[h]]
  /\ UNCHANGED <<store, ancestors, handle>>

-----------------------------------------------------------------------------
\* A memoizing call of the task gets hold of the request's cache ...
Acquire(t) ==
  /\ t \in running
  /\ handle[t] = Nil
  /\ isEnabled(t)
  /\ handle' = [handle EXCEPT ![t] = store[t].holder]
  /\ UNCHANGED <<store, ancestors, running, closed, memo>>

\* ... and stores into it when its chain is done, however late that is.
AcceptsAlways(h) == TRUE                                   \* faulty variant
Accepts(h) == h \notin closed

Memoize(t) ==
  /\ handle[t] # Nil
  /\ memo' = IF Accepts(handle[t]) THEN [memo EXCEPT ![handle[t]] = @ \cup {t}] ELSE memo
  /\ handle' = [handle EXCEPT ![t] = Nil]
  /\ UNCHANGED <<store, ancestors, running, closed>>

ScopeNext ==
  \/ \E t, u \in Tasks : Enable(t, u) \/ Disable(t, u) \/ Spawn(t, u)
  \/ \E t \in Tasks : Settle(t) \/ Acquire(t) \/ Memoize(t)

ScopeSpec == ScopeInit /\ [][ScopeNext]_scopeVars

-----------------------------------------------------------------------------
ScopeTypeOK ==
  /\ store \in [Tasks -> [enabled : BOOLEAN, holder : Tasks \cup {Nil}]]
  /\ ancestors \in [Tasks -> SUBSET Tasks]
  /\ running \subseteq Tasks
  /\ closed \subseteq Tasks
  /\ handle \in [Tasks -> Tasks \cup {Nil}]
  /\ memo \in [Tasks -> SUBSET Tasks]

\* The callbacks of outermost enable() calls.
Outermost == {t \in Tasks : store[t].holder = t}

\* The requests still open around a task.
OpenAround(t) == (ancestors[t] \cup {t}) \cap Outermost \cap running

\* Work is enabled while, and only while, an outermost enable() around it has
\* not settled and no disable() is nearer: detached work of a finished request
\* is pass-through although it keeps its store (context.ts:48-51, 72-80).
EnabledWhileRequestRuns ==
  \A t \in Tasks : isEnabled(t) <=> store[t].enabled /\ OpenAround(t) # {}

\* All work inside a running outermost enable() belongs to that one request,
\* through any nesting of enable() and disable(), so it shares one memo; and
\* requests do not nest (context.ts:53-70).
OneRequestAround ==
  \A t \in Tasks : OpenAround(t) \subseteq {store[t].holder}

\* A request's memo holds only what its own work stored, and only while the
\* request runs: nothing leaks from one request into another or outlives it
\* (context.ts:18-28, 72-97).
MemoStaysInRequest ==
  \A h \in Tasks : \A t \in memo[h] : h \in OpenAround(t)

\* enable() is never a no-op: its callback starts enabled, also inside a
\* disable() and in detached work of a finished request (context.ts:53-61).
EnableEnables == [][\A t, u \in Tasks : Enable(t, u) => isEnabled(u)']_scopeVars
=============================================================================
