------------------------------ MODULE Deadline ------------------------------
(***************************************************************************)
(* What a caller of a function with a fallback timeout is promised: the    *)
(* answer is the loader's outcome if the loader settles before the         *)
(* deadline and a timeout once the deadline has been reached, whichever    *)
(* the caller learns of first; the answer is given once and never changes. *)
(* Without a timeout the answer is the loader's outcome.                   *)
(***************************************************************************)
EXTENDS Integers

CONSTANTS None       \* no timeout

VARIABLES now,       \* the monotonic clock
          deadline,  \* when the running call times out, or None
          answer     \* "idle", "pending", then what the caller got

Begin ==
  /\ answer = "idle"
  /\ deadline' = None \/ (deadline' \in Int /\ deadline' > now)
  /\ answer' = "pending"
  /\ UNCHANGED now

Outcome(how) ==
  /\ answer = "pending"
  /\ deadline # None => now < deadline
  /\ answer' = how
  /\ UNCHANGED <<now, deadline>>

TimeOut ==
  /\ answer = "pending"
  /\ deadline # None
  /\ now >= deadline
  /\ answer' = "timeout"
  /\ UNCHANGED <<now, deadline>>

Pass ==
  /\ now' > now
  /\ UNCHANGED <<deadline, answer>>

\* Registering a function with an unusable timeout throws.
Refuse ==
  /\ answer = "idle"
  /\ answer' = "invalid"
  /\ UNCHANGED <<now, deadline>>

Init == now = 0 /\ deadline = None /\ answer = "idle"

Next ==
  \/ Begin
  \/ \E how \in {"resolved", "rejected"} : Outcome(how)
  \/ TimeOut
  \/ Pass
  \/ Refuse

Spec == Init /\ [][Next]_<<now, deadline, answer>>
=============================================================================
