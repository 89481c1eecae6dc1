---------------------------- MODULE FencedStore -----------------------------
(***************************************************************************)
(* What DialCache is promised by Redis for the entries of one (keyType,    *)
(* id): the abstract specification of the scripts modelled in              *)
(* WatermarkStore, and the store the DialCache instance of ReadThrough     *)
(* talks to (the DialCacheRedisClient contract of src/redis-client.ts).    *)
(*                                                                         *)
(*   - a read answers the value last stored, or nothing;                   *)
(*   - an invalidation hides every tracked value stored before it and      *)
(*     blocks tracked writes until time has passed its mark;               *)
(*   - a hidden value never comes back;                                    *)
(*   - time may drop any value, and may end a block but never start one.   *)
(***************************************************************************)
EXTENDS Integers

CONSTANTS Keys, Tracked, Payloads, Nil    \* Tracked is a subset of Keys

VARIABLES content,   \* what a read of each key answers
          blocked,   \* tracked writes are being rejected
          reply      \* the answer to the last command

storeVars == <<content, blocked>>

StoreTypeOK ==
  /\ content \in [Keys -> Payloads \cup {Nil}]
  /\ blocked \in BOOLEAN

StoreInit ==
  /\ content = [k \in Keys |-> Nil]
  /\ blocked = FALSE

\* A write by script: r is what the adapter reports, "stored", "refused"
\* (the script returned 0) or "error" (the script failed).
WriteEffect(k, p, r) ==
  /\ IF k \in Tracked /\ blocked
       THEN r \in {"refused", "error"} /\ content' = content
       ELSE r = "stored" /\ content' = [content EXCEPT ![k] = p]
  /\ UNCHANGED blocked

\* The tracked values become unreadable, and stay so.
HideTracked == content' = [k \in Keys |-> IF k \in Tracked THEN Nil ELSE content[k]]

InvalidateEffect == HideTracked /\ blocked' = TRUE

ElapseEffect ==
  /\ \E gone \in SUBSET Keys : content' = [k \in Keys |-> IF k \in gone THEN Nil ELSE content[k]]
  /\ blocked' \in {blocked, FALSE}

-----------------------------------------------------------------------------
Answer(op, k, out) == [op |-> op, key |-> k, out |-> out]

Read(k)       == reply' = Answer("read", k, content[k]) /\ UNCHANGED storeVars
Write(k, p)   == \E r \in {"stored", "refused", "error"} :
                   WriteEffect(k, p, r) /\ reply' = Answer("write", k, r)
Invalidate    == InvalidateEffect /\ reply' = Answer("invalidate", Nil, Nil)
Elapse        == ElapseEffect /\ UNCHANGED reply
\* Something outside DialCache overwrote the watermark.
LoseMark      == HideTracked /\ blocked' = TRUE /\ UNCHANGED reply

Init == StoreInit /\ reply = Answer("none", Nil, Nil)

Next ==
  \/ \E k \in Keys : Read(k)
  \/ \E k \in Keys, p \in Payloads : Write(k, p)
  \/ Invalidate
  \/ Elapse
  \/ LoseMark

Spec == Init /\ [][Next]_<<content, blocked, reply>>
=============================================================================
