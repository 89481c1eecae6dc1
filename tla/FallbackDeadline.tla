-------------------------- MODULE FallbackDeadline --------------------------
(***************************************************************************)
(* withFallbackTimeout (src/dialcache.ts) around one loader: the loader's  *)
(* promise races a Node timer, under a clock finer than the timer's.       *)
(*                                                                         *)
(* performance.now() is counted in ticks, Res of them to a millisecond;    *)
(* setTimeout takes whole milliseconds.  A timer may fire up to Early      *)
(* ticks before its time, and arbitrarily late when the event loop is      *)
(* busy; the reaction to the loader's promise may be late too, but runs    *)
(* before any timer that comes after the promise settled.                  *)
(***************************************************************************)
EXTENDS Integers

CONSTANTS None,            \* fallbackTimeoutMs: null
          Absent,          \* fallbackTimeoutMs left out
          Timeouts,        \* the numbers it may be set to
          DefaultTimeout,  \* DEFAULT_FALLBACK_TIMEOUT_MS
          MaxDelay,        \* MAX_TIMER_DELAY_MS
          Res, Early,
          MaxTime          \* bound on the clock, for model checking

ASSUME DeadlineAssumption ==
  /\ Timeouts \subseteq Int
  /\ MaxDelay \in Nat \ {0}
  /\ DefaultTimeout \in 1 .. MaxDelay
  /\ Res \in Nat \ {0}
  /\ Early \in Nat
  /\ MaxTime \in Nat
  /\ None \notin Int /\ Absent \notin Int /\ None # Absent

VARIABLES now,
          phase,      \* "idle", "starting", "waiting"; "invalid" options
          timeout,    \* timeoutMs, or None
          startedAt,
          timer,      \* when the armed timer is due, or None
          loader,     \* "running", its outcome, "seen" once reacted to
          outcome     \* of the promise the caller holds

vars == <<now, phase, timeout, startedAt, timer, loader, outcome>>

Init ==
  /\ now = 0
  /\ phase = "idle"
  /\ timeout = None
  /\ startedAt = 0
  /\ timer = None
  /\ loader = "none"
  /\ outcome = "pending"

-----------------------------------------------------------------------------
\* resolveFallbackTimeoutMs; every finite timeout is one a timer can wait for.
Resolve(v) == IF v = Absent THEN DefaultTimeout ELSE v

Usable(v) == v \in {None, Absent} \/ v \in 1 .. MaxDelay

elapsed   == now - startedAt
remaining == timeout * Res - elapsed

\* The time at which setTimeout(f, Math.ceil(remainingMs)) is due.
DueAt(ticks) == now + Res * ((ticks + Res - 1) \div Res)

Refuse(v) ==
  /\ phase = "idle"
  /\ ~ Usable(v)
  /\ phase' = "invalid"
  /\ UNCHANGED <<now, timeout, startedAt, timer, loader, outcome>>

\* The loader is called; its synchronous part takes what time it takes.
\* The bound leaves the clock room to reach the deadline.
Begin(v) ==
  /\ phase = "idle"
  /\ Usable(v)
  /\ v # None => now + Resolve(v) * Res <= MaxTime
  /\ timeout' = Resolve(v)
  /\ startedAt' = now
  /\ loader' = "running"
  /\ phase' = "starting"
  /\ UNCHANGED <<now, timer, outcome>>

\* It has returned a promise: give up at once, or arm the timer.
Arm ==
  /\ phase = "starting"
  /\ phase' = "waiting"
  /\ IF timeout = None THEN UNCHANGED <<timer, outcome>>
     ELSE IF remaining <= 0 THEN outcome' = "timeout" /\ UNCHANGED timer
     ELSE timer' = DueAt(remaining) /\ UNCHANGED outcome
  /\ UNCHANGED <<now, timeout, startedAt, loader>>

-----------------------------------------------------------------------------
LoaderSettles(how) ==
  /\ phase = "waiting"
  /\ loader = "running"
  /\ loader' = how
  /\ UNCHANGED <<now, phase, timeout, startedAt, timer, outcome>>

\* settleBeforeDeadline.  Faulty variants of its test and of its clean-up.
InTimeUnchecked == TRUE
InTime == timeout = None \/ remaining > 0

TimerAfterSettledKept == timer
TimerAfterSettled == None

LoaderSeen ==
  /\ loader \in {"resolved", "rejected"}
  /\ loader' = "seen"
  /\ IF outcome # "pending" THEN UNCHANGED <<timer, outcome>>
     ELSE /\ outcome' = IF InTime THEN loader ELSE "timeout"
          /\ timer' = TimerAfterSettled
  /\ UNCHANGED <<now, phase, timeout, startedAt>>

\* onTimer: a timer that fired early is armed again for what remains.
Overdue == remaining <= 0

TimerRearmedNever == None                                 \* faulty variant
TimerRearmed == DueAt(remaining)

TimerFires ==
  /\ timer # None
  /\ now >= timer - Early
  /\ loader \notin {"resolved", "rejected"}
  /\ IF outcome # "pending" THEN timer' = None /\ UNCHANGED outcome
     ELSE IF Overdue THEN outcome' = "timeout" /\ timer' = None
     ELSE timer' = TimerRearmed /\ UNCHANGED outcome
  /\ UNCHANGED <<now, phase, timeout, startedAt, loader>>

Tick(d) ==
  /\ now + d <= MaxTime
  /\ now' = now + d
  /\ UNCHANGED <<phase, timeout, startedAt, timer, loader, outcome>>

Next ==
  \/ \E v \in Timeouts \cup {None, Absent} : Refuse(v) \/ Begin(v)
  \/ Arm
  \/ \E how \in {"resolved", "rejected"} : LoaderSettles(how)
  \/ LoaderSeen
  \/ TimerFires
  \/ \E d \in 1 .. MaxTime : Tick(d)

Spec == Init /\ [][Next]_vars

\* Time passes, the synchronous part of a loader returns and the event loop
\* runs what is due; a loader owes nobody an outcome.
FairSpec ==
  /\ Spec
  /\ WF_vars(Arm) /\ WF_vars(LoaderSeen) /\ WF_vars(TimerFires)
  /\ WF_vars(\E d \in 1 .. MaxTime : Tick(d))
-----------------------------------------------------------------------------
TypeOK ==
  /\ now \in Nat
  /\ phase \in {"idle", "starting", "waiting", "invalid"}
  /\ timeout \in (1 .. MaxDelay) \cup {None}
  /\ startedAt \in Nat /\ startedAt <= now
  /\ timer \in Nat \cup {None}
  /\ loader \in {"none", "running", "resolved", "rejected", "seen"}
  /\ outcome \in {"pending", "resolved", "rejected", "timeout"}

\* A timer is armed exactly while a bounded call waits: no call is left to a
\* loader alone after an early timer, and none keeps the process alive with a
\* timer after it settled (clearTimer, dialcache.ts:854-859, 868-892).
ArmedWhileWaiting ==
  timer # None <=> phase = "waiting" /\ timeout # None /\ outcome = "pending"

\* The promise the caller holds.
Promised == INSTANCE Deadline WITH
  deadline <- IF timeout = None THEN None ELSE startedAt + timeout * Res,
  answer <- IF phase \in {"idle", "invalid"} THEN phase ELSE outcome

\* Whatever the event loop delays and however early a timer fires, a call
\* never times out before its deadline, never returns what its loader
\* produced at or after the deadline, and answers once.
ImplementsDeadline == Promised!Spec

\* A call with a timeout is answered even when its loader never settles,
\* although a timer may fire early every time it is armed.
BoundedCallAnswers == phase = "starting" /\ timeout # None ~> outcome # "pending"
=============================================================================
