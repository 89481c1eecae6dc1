--------------------------- MODULE RequestProofs ---------------------------
(***************************************************************************)
(* Proofs about what surrounds a cached call: the request it belongs to    *)
(* (RequestScope, for any set of tasks) and the deadline of its loader     *)
(* (FallbackDeadline, for every timeout, clock resolution and timer        *)
(* error).  The two share no state; each has its inductive invariant.      *)
(*                                                                         *)
(* RequestScope: a task's holder is the task itself or one of its          *)
(* ancestors, an outermost enable(), and it is closed exactly when that    *)
(* has settled.  FallbackDeadline: no timer is lost or left behind, and    *)
(* the promise a caller holds implements Deadline.                         *)
(***************************************************************************)
EXTENDS RequestScope, FallbackDeadline, TLAPS

NotStarted(t) == t # Root /\ ancestors[t] = {}

HoldersAround ==
  \A t \in Tasks : store[t].holder # Nil =>
    /\ store[t].holder \in (ancestors[t] \cup {t}) \cap Outermost
    /\ store[t].holder \in closed <=> store[t].holder \notin running

ClosedSettled == closed \subseteq Outermost /\ \A h \in Outermost : h \in closed <=> h \notin running

Fresh ==
  /\ \A t \in Tasks : NotStarted(t) => t \notin running /\ store[t] = NoStore
  /\ \A t, u \in Tasks : NotStarted(t) => t \notin ancestors[u]
  /\ \A t \in Tasks : NotStarted(t) => handle[t] = Nil

HandlesHeld ==
  /\ \A t \in Tasks : handle[t] # Nil => handle[t] = store[t].holder
  /\ \A h \in Tasks : \A t \in memo[h] : h \notin closed /\ store[t].holder = h

\* The inductive invariant.
ScopeInv == ScopeTypeOK /\ HoldersAround /\ ClosedSettled /\ Fresh /\ OneRequestAround /\ HandlesHeld

LEMMA ScopeInitHolds == ScopeInit => ScopeInv
<1> SUFFICES ASSUME ScopeInit PROVE ScopeInv
  OBVIOUS
<1> USE TaskAssumption DEF ScopeInit, NoStore
<1>0. Outermost = {}
  BY DEF Outermost
<1>1. ScopeTypeOK
  BY DEF ScopeTypeOK
<1>2. HoldersAround /\ ClosedSettled /\ OneRequestAround
  BY <1>0 DEF HoldersAround, ClosedSettled, OneRequestAround, OpenAround
<1>3. Fresh /\ HandlesHeld
  BY DEF Fresh, HandlesHeld, NotStarted
<1> QED
  BY <1>1, <1>2, <1>3 DEF ScopeInv

\* Starting a task under a store that refers to the starter's live request, or
\* to the new task itself when the starter has none.
LEMMA StartHolds ==
  ASSUME ScopeInv, NEW t \in Tasks, NEW u \in Tasks,
         NEW s \in [enabled : BOOLEAN, holder : Tasks \cup {Nil}],
         Start(t, u, s),
         \/ s.holder = liveHolder(t)
         \/ s.holder = store[t].holder
         \/ s.holder = u /\ liveHolder(t) = Nil
  PROVE  ScopeInv'
<1> USE DEF ScopeInv
<1>0. /\ NotStarted(u) /\ t # u /\ t \in running
      /\ store'[u] = s /\ ancestors'[u] = ancestors[t] \cup {t}
      /\ \A v \in Tasks : v # u => store'[v] = store[v] /\ ancestors'[v] = ancestors[v]
      /\ running' = running \cup {u}
      /\ UNCHANGED <<closed, handle, memo>>
      /\ store[u].holder = Nil
      /\ u \notin closed
  BY TaskAssumption DEF Start, ScopeTypeOK, NotStarted, Fresh, NoStore, ClosedSettled, Outermost
<1>1. ScopeTypeOK'
  BY DEF Start, ScopeTypeOK
<1>2. /\ \A v \in Tasks : v # u => (v \in Outermost' <=> v \in Outermost)
      /\ u \in Outermost' <=> s.holder = u
      /\ u \notin Outermost
  BY <1>0, TaskAssumption DEF Outermost
<1>3. s.holder = u \/ s.holder = Nil \/ (s.holder = store[t].holder /\ s.holder # u)
  BY <1>0, TaskAssumption DEF liveHolder, HoldersAround, Outermost
<1>4. HoldersAround'
  <2>1. ASSUME NEW v \in Tasks, store'[v].holder # Nil, v # u
        PROVE  /\ store'[v].holder \in (ancestors'[v] \cup {v}) \cap Outermost'
               /\ store'[v].holder \in closed' <=> store'[v].holder \notin running'
    BY <1>0, <1>2, <2>1, TaskAssumption DEF HoldersAround, ScopeTypeOK
  <2>2. ASSUME store'[u].holder # Nil
        PROVE  /\ store'[u].holder \in (ancestors'[u] \cup {u}) \cap Outermost'
               /\ store'[u].holder \in closed' <=> store'[u].holder \notin running'
    <3>1. CASE s.holder = u
      BY <1>0, <1>2, <3>1
    <3>2. CASE s.holder = store[t].holder /\ s.holder # u
      BY <1>0, <1>2, <2>2, <3>2 DEF HoldersAround, ScopeTypeOK
    <3> QED
      BY <1>0, <1>3, <2>2, <3>1, <3>2
  <2> QED
    BY <2>1, <2>2 DEF HoldersAround
<1>5. ClosedSettled'
  BY <1>0, <1>2 DEF ClosedSettled, Outermost
<1>6. Fresh'
  <2>1. \A v \in Tasks : NotStarted(v)' => NotStarted(v) /\ v # u /\ v # t
    BY <1>0, TaskAssumption DEF NotStarted, Fresh
  <2> QED
    BY <1>0, <2>1 DEF Fresh, NoStore
<1>7. OneRequestAround'
  <2>1. ASSUME NEW v \in Tasks, v # u
        PROVE  OpenAround(v)' \subseteq {store'[v].holder}
    <3>1. u \notin ancestors[v] \cup {v}
      BY <1>0, <2>1 DEF Fresh
    <3>2. OpenAround(v)' = OpenAround(v)
      BY <1>0, <1>2, <2>1, <3>1 DEF OpenAround, ScopeTypeOK
    <3> QED
      BY <1>0, <2>1, <3>2 DEF OneRequestAround
  <2>2. OpenAround(u)' \subseteq OpenAround(t) \cup ({u} \cap {s.holder})
    BY <1>0, <1>2 DEF OpenAround, ScopeTypeOK, Outermost
  <2>3. \A w \in OpenAround(t) : w # Nil /\ w = store[t].holder /\ w = liveHolder(t) /\ w # u
    BY <1>0, TaskAssumption DEF OpenAround, OneRequestAround, ClosedSettled, liveHolder, Outermost
  <2>4. OpenAround(u)' \subseteq {store'[u].holder}
    BY <1>0, <2>2, <2>3
  <2> QED
    BY <2>1, <2>4 DEF OneRequestAround
<1>8. HandlesHeld'
  <2>1. handle[u] = Nil
    BY <1>0 DEF Fresh
  <2>2. \A v \in Tasks : handle'[v] # Nil => handle'[v] = store'[v].holder
    BY <1>0, <2>1 DEF HandlesHeld
  <2>3. ASSUME NEW h \in Tasks, NEW v \in memo[h]
        PROVE  v \in Tasks /\ v # u /\ h \notin closed /\ store[v].holder = h
    BY <1>0, <2>3, TaskAssumption DEF HandlesHeld, ScopeTypeOK
  <2>4. ASSUME NEW h \in Tasks, NEW v \in memo'[h]
        PROVE  h \notin closed' /\ store'[v].holder = h
    BY <1>0, <2>3, <2>4
  <2> QED
    BY <2>2, <2>4 DEF HandlesHeld
<1> QED
  BY <1>1, <1>4, <1>5, <1>6, <1>7, <1>8

LEMMA LiveHolderType ==
  ASSUME ScopeTypeOK, NEW t \in Tasks
  PROVE  /\ liveHolder(t) \in Tasks \cup {Nil}
         /\ store[t] \in [enabled : BOOLEAN, holder : Tasks \cup {Nil}]
  BY DEF ScopeTypeOK, liveHolder

LEMMA EnableHolds ==
  ASSUME ScopeInv, NEW t \in Tasks, NEW u \in Tasks, Enable(t, u)
  PROVE  ScopeInv'
<1> DEFINE s == [enabled |-> TRUE, holder |-> HolderFor(t, u)]
<1>1. s.holder = liveHolder(t) \/ (s.holder = u /\ liveHolder(t) = Nil)
  BY DEF HolderFor
<1>2. s \in [enabled : BOOLEAN, holder : Tasks \cup {Nil}]
  BY LiveHolderType DEF HolderFor, ScopeInv
<1>3. Start(t, u, s)
  BY DEF Enable
<1> HIDE DEF s
<1> QED
  BY <1>1, <1>2, <1>3, StartHolds

LEMMA DisableHolds ==
  ASSUME ScopeInv, NEW t \in Tasks, NEW u \in Tasks, Disable(t, u)
  PROVE  ScopeInv'
<1> DEFINE s == DisabledStore(t)
<1>1. s.holder = liveHolder(t) /\ s \in [enabled : BOOLEAN, holder : Tasks \cup {Nil}]
  BY LiveHolderType DEF DisabledStore, ScopeInv
<1>2. Start(t, u, s)
  BY DEF Disable
<1> HIDE DEF s
<1> QED
  BY <1>1, <1>2, StartHolds

LEMMA SpawnHolds ==
  ASSUME ScopeInv, NEW t \in Tasks, NEW u \in Tasks, Spawn(t, u)
  PROVE  ScopeInv'
<1> DEFINE s == store[t]
<1>1. s.holder = store[t].holder /\ s \in [enabled : BOOLEAN, holder : Tasks \cup {Nil}]
  BY LiveHolderType DEF ScopeInv
<1>2. Start(t, u, s)
  BY DEF Spawn
<1> HIDE DEF s
<1> QED
  BY <1>1, <1>2, StartHolds

LEMMA SettleHolds ==
  ASSUME ScopeInv, NEW t \in Tasks, Settle(t)
  PROVE  ScopeInv'
<1> USE DEF ScopeInv
<1>0. /\ t \in running /\ t # Root /\ running' = running \ {t}
      /\ closed' = closed \cup Closes(t)
      /\ \A h \in Tasks : memo'[h] = IF h \in Closes(t) THEN {} ELSE memo[h]
      /\ UNCHANGED <<store, ancestors, handle>>
      /\ Outermost' = Outermost
      /\ Closes(t) = {t} \cap Outermost
  BY DEF Settle, Outermost, Closes
<1>1. ScopeTypeOK'
  BY <1>0 DEF Settle, ScopeTypeOK, Outermost
<1>2. ClosedSettled'
  BY <1>0 DEF ClosedSettled, Outermost
<1>3. HoldersAround'
  BY <1>0, <1>2 DEF HoldersAround, ClosedSettled
<1>4. Fresh'
  BY <1>0 DEF Fresh, NotStarted
<1>5. OneRequestAround'
  BY <1>0 DEF OneRequestAround, OpenAround
<1>6. HandlesHeld'
  BY <1>0 DEF HandlesHeld
<1> QED
  BY <1>1, <1>2, <1>3, <1>4, <1>5, <1>6

LEMMA AcquireHolds ==
  ASSUME ScopeInv, NEW t \in Tasks, Acquire(t)
  PROVE  ScopeInv'
<1> USE DEF ScopeInv
<1>0. /\ \A u \in Tasks : handle'[u] = IF u = t THEN store[t].holder ELSE handle[u]
      /\ UNCHANGED <<store, ancestors, running, closed, memo>>
      /\ Outermost' = Outermost
  BY DEF Acquire, ScopeTypeOK, Outermost
<1>1. ScopeTypeOK'
  BY <1>0 DEF Acquire, ScopeTypeOK
<1>2. ~ NotStarted(t)
  BY DEF Acquire, Fresh
<1>3. HoldersAround' /\ ClosedSettled' /\ OneRequestAround'
  BY <1>0 DEF HoldersAround, ClosedSettled, OneRequestAround, OpenAround
<1>4. Fresh' /\ HandlesHeld'
  BY <1>0, <1>2 DEF Fresh, HandlesHeld, NotStarted
<1> QED
  BY <1>1, <1>3, <1>4

LEMMA MemoizeHolds ==
  ASSUME ScopeInv, NEW t \in Tasks, Memoize(t)
  PROVE  ScopeInv'
<1> USE DEF ScopeInv
<1>0. /\ \A u \in Tasks : handle'[u] = IF u = t THEN Nil ELSE handle[u]
      /\ UNCHANGED <<store, ancestors, running, closed>>
      /\ Outermost' = Outermost
      /\ handle[t] # Nil /\ handle[t] = store[t].holder /\ handle[t] \in Tasks
  BY DEF Memoize, ScopeTypeOK, Outermost, HandlesHeld
<1>1. \A h \in Tasks : \A u \in memo'[h] : u \in memo[h] \/ (u = t /\ h = store[t].holder /\ h \notin closed)
  BY <1>0 DEF Memoize, Accepts, ScopeTypeOK
<1>2. ScopeTypeOK'
  BY <1>0 DEF Memoize, ScopeTypeOK
<1>3. HoldersAround' /\ ClosedSettled' /\ OneRequestAround'
  BY <1>0 DEF HoldersAround, ClosedSettled, OneRequestAround, OpenAround
<1>4. Fresh' /\ HandlesHeld'
  BY <1>0, <1>1 DEF Fresh, HandlesHeld, NotStarted
<1> QED
  BY <1>2, <1>3, <1>4

LEMMA ScopeStepHolds == ScopeInv /\ [ScopeNext]_scopeVars => ScopeInv'
<1> SUFFICES ASSUME ScopeInv, [ScopeNext]_scopeVars PROVE ScopeInv'
  OBVIOUS
<1>1. CASE UNCHANGED scopeVars
  BY <1>1 DEF scopeVars, ScopeInv, ScopeTypeOK, HoldersAround, ClosedSettled, Fresh, NotStarted,
     OneRequestAround, OpenAround, Outermost, HandlesHeld
<1>2. CASE ScopeNext
  BY <1>2, EnableHolds, DisableHolds, SpawnHolds, SettleHolds, AcquireHolds, MemoizeHolds DEF ScopeNext
<1> QED
  BY <1>1, <1>2

-----------------------------------------------------------------------------
\* A task's holder is an outermost enable() around it, closed once settled.
THEOREM ScopeInvHolds == ScopeSpec => []ScopeInv
  BY ScopeInitHolds, ScopeStepHolds, PTL DEF ScopeSpec

\* Type correctness for any set of tasks.
THEOREM ScopeTypeCorrect == ScopeSpec => []ScopeTypeOK
<1>1. ScopeInv => ScopeTypeOK
  BY DEF ScopeInv
<1> QED
  BY <1>1, ScopeInvHolds, PTL

\* Work is enabled exactly while an outermost enable() around it runs and no
\* disable() is nearer.
THEOREM EnabledExactly == ScopeSpec => []EnabledWhileRequestRuns
<1>1. ASSUME ScopeInv, NEW t \in Tasks
      PROVE  isEnabled(t) <=> store[t].enabled /\ OpenAround(t) # {}
  <2>1. CASE isEnabled(t)
    <3>1. store[t].holder # Nil /\ store[t].holder \notin closed
      BY <2>1 DEF isEnabled
    <3>2. store[t].holder \in OpenAround(t)
      BY <1>1, <3>1 DEF ScopeInv, HoldersAround, OpenAround
    <3> QED
      BY <2>1, <3>2 DEF isEnabled
  <2>2. CASE store[t].enabled /\ OpenAround(t) # {}
    <3>1. PICK w \in OpenAround(t) : TRUE
      BY <2>2
    <3>2. store[t].holder = w /\ w # Nil /\ w \notin closed
      BY <1>1, <3>1, TaskAssumption DEF ScopeInv, OneRequestAround, OpenAround, ClosedSettled, Outermost
    <3> QED
      BY <2>2, <3>2 DEF isEnabled
  <2> QED
    BY <2>1, <2>2
<1>2. ScopeInv => EnabledWhileRequestRuns
  BY <1>1 DEF EnabledWhileRequestRuns
<1> QED
  BY <1>2, ScopeInvHolds, PTL

\* Requests do not nest, and nothing inside one belongs to another.
THEOREM OneRequest == ScopeSpec => []OneRequestAround
<1>1. ScopeInv => OneRequestAround
  BY DEF ScopeInv
<1> QED
  BY <1>1, ScopeInvHolds, PTL

\* A request's memo holds what its own work stored, only while it runs.
THEOREM MemoIsolated == ScopeSpec => []MemoStaysInRequest
<1>1. ASSUME ScopeInv, NEW h \in Tasks, NEW t \in memo[h]
      PROVE  h \in OpenAround(t)
  <2>1. h \notin closed /\ store[t].holder = h /\ t \in Tasks /\ h # Nil
    BY <1>1, TaskAssumption DEF ScopeInv, HandlesHeld, ScopeTypeOK
  <2> QED
    BY <1>1, <2>1 DEF ScopeInv, HoldersAround, OpenAround
<1>2. ScopeInv => MemoStaysInRequest
  BY <1>1 DEF MemoStaysInRequest
<1> QED
  BY <1>2, ScopeInvHolds, PTL

\* The callback of enable() starts enabled wherever enable() is called.
THEOREM EnableAlwaysEnables == ScopeSpec => EnableEnables
<1>1. ASSUME ScopeInv, NEW t \in Tasks, NEW u \in Tasks, Enable(t, u)
      PROVE  isEnabled(u)'
  <2>1. /\ store'[u].enabled /\ store'[u].holder = HolderFor(t, u)
        /\ closed' = closed /\ u \notin running /\ NotStarted(u)
    BY <1>1 DEF Enable, Start, ScopeInv, ScopeTypeOK, NotStarted
  <2>2. u \notin closed
    BY <1>1, <2>1, TaskAssumption DEF ScopeInv, Fresh, NoStore, ClosedSettled, Outermost
  <2> QED
    BY <2>1, <2>2, TaskAssumption DEF isEnabled, HolderFor, liveHolder
<1>2. ScopeInv /\ [ScopeNext]_scopeVars => [\A t, u \in Tasks : Enable(t, u) => isEnabled(u)']_scopeVars
  BY <1>1
<1> QED
  BY <1>2, ScopeInvHolds, PTL DEF ScopeSpec, EnableEnables

-----------------------------------------------------------------------------
\* Before the loader runs nothing is armed and nothing is answered, and
\* nothing is answered in its synchronous part.
Quiet ==
  /\ phase \in {"idle", "invalid"} => timeout = None
  /\ phase \in {"idle", "invalid"} => loader = "none"
  /\ phase # "waiting" => outcome = "pending"
  /\ phase = "starting" => loader = "running"

\* The inductive invariant.
IInv == TypeOK /\ ArmedWhileWaiting /\ Quiet

LEMMA ProductPositive ==
  ASSUME NEW a \in Nat \ {0}, NEW b \in Nat \ {0}
  PROVE  a * b \in Nat /\ a * b > 0
  OBVIOUS

\* A timer's due time is a number whatever the resolution.
LEMMA DueLater ==
  ASSUME NEW r \in Nat \ {0}, now \in Nat
  PROVE  DueAt(r) \in Nat
<1>1. Res \in Nat /\ Res > 0
  BY DeadlineAssumption
<1> DEFINE q == (r + Res - 1) \div Res
<1>2. q \in Nat
  BY <1>1
<1>3. Res * q \in Nat
  BY <1>1, <1>2
<1> QED
  BY <1>3 DEF DueAt

LEMMA ResolveUsable ==
  ASSUME NEW v \in Timeouts \cup {None, Absent}, Usable(v)
  PROVE  Resolve(v) \in (1 .. MaxDelay) \cup {None}
  BY DeadlineAssumption DEF Resolve, Usable

LEMMA RemainingInt ==
  ASSUME TypeOK, timeout # None
  PROVE  remaining \in Int /\ timeout * Res \in Int /\ elapsed \in Int
<1>1. timeout \in Int /\ Res \in Int /\ now \in Int /\ startedAt \in Int
  BY DeadlineAssumption DEF TypeOK
<1> QED
  BY <1>1 DEF remaining, elapsed

-----------------------------------------------------------------------------
LEMMA InitHolds == Init => IInv
  BY DeadlineAssumption DEF Init, IInv, TypeOK, ArmedWhileWaiting, Quiet

\* What every action but those on the clock has to establish.
LEMMA StepHolds ==
  ASSUME IInv, Next
  PROVE  IInv'
<1> USE DEF IInv
<1>1. ASSUME NEW v \in Timeouts \cup {None, Absent}, Refuse(v)
      PROVE  IInv'
  BY <1>1 DEF Refuse, TypeOK, ArmedWhileWaiting, Quiet
<1>2. ASSUME NEW v \in Timeouts \cup {None, Absent}, Begin(v)
      PROVE  IInv'
  <2>1. timeout' \in (1 .. MaxDelay) \cup {None}
    BY <1>2, ResolveUsable DEF Begin
  <2>2. TypeOK'
    BY <1>2, <2>1 DEF Begin, TypeOK
  <2>3. ArmedWhileWaiting' /\ Quiet'
    BY <1>2 DEF Begin, ArmedWhileWaiting, Quiet
  <2> QED
    BY <2>2, <2>3
<1>3. CASE Arm
  <2>1. CASE timeout = None
    BY <1>3, <2>1 DEF Arm, TypeOK, ArmedWhileWaiting, Quiet
  <2>2. CASE timeout # None /\ remaining <= 0
    BY <1>3, <2>2 DEF Arm, TypeOK, ArmedWhileWaiting, Quiet
  <2>3. CASE timeout # None /\ ~ remaining <= 0
    <3>1. remaining \in Nat \ {0}
      BY <2>3, RemainingInt
    <3>2. timer' = DueAt(remaining) /\ timer' \in Nat
      BY <1>3, <2>3, <3>1, DueLater DEF Arm, TypeOK
    <3>3. timer' # None
      BY <3>2, DeadlineAssumption
    <3> QED
      BY <1>3, <2>3, <3>2, <3>3 DEF Arm, TypeOK, ArmedWhileWaiting, Quiet
  <2> QED
    BY <2>1, <2>2, <2>3
<1>4. ASSUME NEW how \in {"resolved", "rejected"}, LoaderSettles(how)
      PROVE  IInv'
  BY <1>4 DEF LoaderSettles, TypeOK, ArmedWhileWaiting, Quiet
<1>5. CASE LoaderSeen
  BY <1>5 DEF LoaderSeen, TimerAfterSettled, TypeOK, ArmedWhileWaiting, Quiet
<1>6. CASE TimerFires
  <2>1. CASE outcome # "pending"
    BY <1>6, <2>1 DEF TimerFires, TypeOK, ArmedWhileWaiting, Quiet
  <2>2. CASE outcome = "pending" /\ Overdue
    BY <1>6, <2>2 DEF TimerFires, TypeOK, ArmedWhileWaiting, Quiet
  <2>3. CASE outcome = "pending" /\ ~ Overdue
    <3>1. remaining \in Nat \ {0}
      BY <1>6, <2>3, RemainingInt DEF TimerFires, Overdue, ArmedWhileWaiting
    <3>2. timer' = DueAt(remaining) /\ timer' \in Nat
      BY <1>6, <2>3, <3>1, DueLater DEF TimerFires, TimerRearmed, TypeOK
    <3>3. timer' # None
      BY <3>2, DeadlineAssumption
    <3> QED
      BY <1>6, <2>3, <3>2, <3>3 DEF TimerFires, TypeOK, ArmedWhileWaiting, Quiet
  <2> QED
    BY <2>1, <2>2, <2>3
<1>7. ASSUME NEW d \in 1 .. MaxTime, Tick(d)
      PROVE  IInv'
  BY <1>7, DeadlineAssumption DEF Tick, TypeOK, ArmedWhileWaiting, Quiet
<1> QED
  BY <1>1, <1>2, <1>3, <1>4, <1>5, <1>6, <1>7 DEF Next

LEMMA StutterHolds == IInv /\ UNCHANGED vars => IInv'
  BY DEF vars, IInv, TypeOK, ArmedWhileWaiting, Quiet

\* Every reachable state satisfies the inductive invariant.
THEOREM InvariantHolds == Spec => []IInv
<1>1. IInv /\ [Next]_vars => IInv'
  BY StepHolds, StutterHolds
<1> QED
  BY <1>1, InitHolds, PTL DEF Spec

\* Type correctness of withFallbackTimeout's state for every timeout, clock
\* resolution and timer error.
THEOREM TypeCorrect == Spec => []TypeOK
<1>1. IInv => TypeOK
  BY DEF IInv
<1> QED
  BY <1>1, InvariantHolds, PTL

\* An armed timer exists exactly while a bounded call waits: rearming after
\* an early timer never loses it, settling never leaves it behind.
THEOREM TimersHold == Spec => []ArmedWhileWaiting
<1>1. IInv => ArmedWhileWaiting
  BY DEF IInv
<1> QED
  BY <1>1, InvariantHolds, PTL

-----------------------------------------------------------------------------
\* The refinement mapping.
dueBy == IF timeout = None THEN None ELSE startedAt + timeout * Res
told  == IF phase \in {"idle", "invalid"} THEN phase ELSE outcome

LEMMA StepRefines ==
  ASSUME IInv, IInv', Next
  PROVE  Promised!Next \/ UNCHANGED <<now, dueBy, told>>
<1> USE DEF IInv
<1>1. ASSUME NEW v \in Timeouts \cup {None, Absent}, Refuse(v)
      PROVE  Promised!Refuse
  BY <1>1 DEF Refuse, Promised!Refuse
<1>2. ASSUME NEW v \in Timeouts \cup {None, Absent}, Begin(v)
      PROVE  Promised!Begin
  <2>1. CASE timeout' = None
    BY <1>2, <2>1 DEF Begin, Promised!Begin, Quiet
  <2>2. CASE timeout' # None
    <3>1. timeout' \in Nat \ {0} /\ Res \in Nat \ {0} /\ now \in Nat
      BY <2>2, DeadlineAssumption DEF TypeOK
    <3>2. timeout' * Res \in Nat /\ timeout' * Res > 0
      BY <3>1, ProductPositive
    <3>3. startedAt' + timeout' * Res \in Int /\ startedAt' + timeout' * Res > now
      BY <1>2, <3>1, <3>2 DEF Begin
    <3> QED
      BY <1>2, <2>2, <3>3 DEF Begin, Promised!Begin, Quiet
  <2> QED
    BY <2>1, <2>2
<1>3. CASE Arm
  <2>1. CASE timeout = None \/ remaining > 0
    BY <1>3, <2>1, RemainingInt DEF Arm, Quiet, dueBy, told
  <2>2. CASE timeout # None /\ remaining <= 0
    <3>1. dueBy # None /\ now >= dueBy
      BY <2>2, RemainingInt, DeadlineAssumption DEF dueBy, remaining, elapsed, TypeOK
    <3> QED
      BY <1>3, <2>2, <3>1 DEF Arm, Promised!TimeOut, Promised!Next, Quiet, dueBy
  <2> QED
    BY <2>1, <2>2, RemainingInt
<1>4. ASSUME NEW how \in {"resolved", "rejected"}, LoaderSettles(how)
      PROVE  UNCHANGED <<now, dueBy, told>>
  BY <1>4 DEF LoaderSettles, dueBy, told
<1>5. CASE LoaderSeen
  <2>0. phase = "waiting"
    BY <1>5 DEF LoaderSeen, Quiet, TypeOK
  <2>1. CASE outcome # "pending"
    BY <1>5, <2>1 DEF LoaderSeen, dueBy, told
  <2>2. CASE outcome = "pending" /\ InTime
    <3>1. dueBy # None => now < dueBy
      BY <2>2, RemainingInt, DeadlineAssumption DEF InTime, dueBy, remaining, elapsed, TypeOK
    <3>2. Promised!Outcome(loader)
      BY <1>5, <2>0, <2>2, <3>1 DEF LoaderSeen, Promised!Outcome, dueBy
    <3> QED
      BY <1>5, <3>2 DEF LoaderSeen, Promised!Next
  <2>3. CASE outcome = "pending" /\ ~ InTime
    <3>1. dueBy # None /\ now >= dueBy
      BY <2>3, RemainingInt, DeadlineAssumption DEF InTime, dueBy, remaining, elapsed, TypeOK
    <3>2. Promised!TimeOut
      BY <1>5, <2>0, <2>3, <3>1 DEF LoaderSeen, Promised!TimeOut, dueBy
    <3> QED
      BY <3>2 DEF Promised!Next
  <2> QED
    BY <2>1, <2>2, <2>3
<1>6. CASE TimerFires
  <2>0. phase = "waiting" /\ timeout # None /\ outcome = "pending"
    BY <1>6 DEF TimerFires, ArmedWhileWaiting
  <2>1. CASE Overdue
    <3>1. dueBy # None /\ now >= dueBy
      BY <2>0, <2>1, RemainingInt, DeadlineAssumption DEF Overdue, dueBy, remaining, elapsed, TypeOK
    <3> QED
      BY <1>6, <2>0, <2>1, <3>1 DEF TimerFires, Promised!TimeOut, Promised!Next, dueBy
  <2>2. CASE ~ Overdue
    BY <1>6, <2>0, <2>2 DEF TimerFires, dueBy, told
  <2> QED
    BY <2>1, <2>2
<1>7. ASSUME NEW d \in 1 .. MaxTime, Tick(d)
      PROVE  Promised!Pass
  <2>1. now' > now
    BY <1>7 DEF Tick, TypeOK
  <2> QED
    BY <1>7, <2>1 DEF Tick, Promised!Pass
<1> QED
  BY <1>1, <1>2, <1>3, <1>4, <1>5, <1>6, <1>7 DEF Next, Promised!Next

\* withFallbackTimeout implements Deadline: no early timeout, no late result,
\* one answer, whatever the event loop delays and however timers err.
THEOREM Refinement == Spec => ImplementsDeadline
<1>1. Init => Promised!Init
  BY DEF Init, Promised!Init
<1>2. IInv /\ IInv' /\ [Next]_vars => [Promised!Next]_<<now, dueBy, told>>
  <2>1. UNCHANGED vars => UNCHANGED <<now, dueBy, told>>
    BY DEF vars, dueBy, told
  <2> QED
    BY <2>1, StepRefines
<1>3. [][Promised!Next]_<<now, dueBy, told>> /\ Promised!Init => Promised!Spec
  BY DEF Promised!Spec, dueBy, told
<1> QED
  BY <1>1, <1>2, <1>3, InvariantHolds, PTL DEF Spec, ImplementsDeadline
=============================================================================
