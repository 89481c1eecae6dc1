-------------------------- MODULE ReadThroughProofs --------------------------
(***************************************************************************)
(* Proofs of the safety properties of ReadThrough, and of what             *)
(* ReadThroughMetrics reports of it, for any finite set of calls, any      *)
(* keys, any requests and any choice of layers.                            *)
(*                                                                         *)
(* The inductive invariant is built in layers, each of which uses the ones *)
(* before it:                                                              *)
(*                                                                         *)
(*   Base       types; a flight has a leader at work on its key, and the   *)
(*              follower counts are exact.  Whoever waits for a flight     *)
(*              waits for a chain of its key that is registered or over    *)
(*              (Following), or the counts would not survive a late join   *)
(*   Phases     what a call can have done where it is                      *)
(*   MemoKeyed  request-local flights are led by calls of their request    *)
(*   Timely     whatever is cached, on its way to Redis or returned was    *)
(*              loaded for its key, in time                                *)
(*   Backed     what Redis and its answers hold was accepted               *)
(*   Chained    a call is answered through two others at most, with what   *)
(*              the last one's loader says                                 *)
(*   Led        of the leaders of one key in one request at most one is    *)
(*              unfinished, and it leads because all others failed         *)
(*   MetricsInv the counters balance with where the calls are              *)
(*                                                                         *)
(* The proof for Base goes through the five ways in which any step can     *)
(* touch the flights (StepKinds); the later layers go through the actions  *)
(* that can change a variable (WhoSets...).  For the metrics, each step    *)
(* moves one call, and what that call contributes to a balance changes as  *)
(* what its report adds (Accounts, Keeping).  Liveness (EveryCallSettles)  *)
(* is not proved here.                                                     *)
(***************************************************************************)
EXTENDS ReadThroughMetrics, FiniteSetTheorems, TLAPS

\* The types of plan and flight.
Plans == [local : {"none", "miss"},
          remote : {"none", "off", "miss", "readError", "configError"}]
Flights == [leader : Calls, followers : Nat]

\* Calls that have been made, and the writes they left behind, have a key.
Known ==
  /\ \A c \in Calls : pc[c] = "idle" <=> req[c] = Nil
  /\ \A c \in late : pc[c] # "idle"

\* Parts of FlightsAreLed and of the accounting that the types rest on.
ChainsLead ==
  \A c \in Calls :
    pc[c] \in {"read", "readBack", "write", "writeBack", "settled"} => Leads(c)

FollowersFit == \A k \in Keys : flight[k] # Nil => flight[k].followers <= active

\* A call that has been made has a key and a scope.
LEMMA KeyKnown ==
  ASSUME TypeOK, Known, NEW c \in Calls, pc[c] # "idle"
  PROVE  /\ req[c] \in [key : Keys, scope : Scopes \cup {Outside}]
         /\ key(c) \in Keys /\ scope(c) \in Scopes \cup {Outside}
  BY DEF TypeOK, Known, key, scope

\* Every action keeps the types, given what keeps active from becoming
\* negative.
LEMMA TypeStep ==
  ASSUME TypeOK, Known, ChainsLead, FollowersFit, Next
  PROVE  TypeOK'
<1> USE DEF key, scope
<1>pc. pc \in [Calls -> Places]
  BY DEF TypeOK
<1>req. req \in [Calls -> [key : Keys, scope : Scopes \cup {Outside}] \cup {Nil}]
  BY DEF TypeOK
<1>memoRole. memoRole \in [Calls -> {"none", "leader", "joined"}]
  BY DEF TypeOK
<1>by. by \in [Calls -> Calls]
  BY DEF TypeOK
<1>plan. plan \in [Calls -> Plans]
  BY DEF TypeOK, Plans
<1>got. got \in [Calls -> Calls \cup {Nil, "stored", "refused", "error"}]
  BY DEF TypeOK
<1>load. load \in [Calls -> {"none", "running", "resolved", "rejected", "timedOut"}]
  BY DEF TypeOK
<1>res. res \in [Calls -> Calls \cup {Nil, Fail}]
  BY DEF TypeOK
<1>hasRedis. hasRedis \in BOOLEAN
  BY DEF TypeOK
<1>flight. flight \in [Keys -> Flights \cup {Nil}]
  BY DEF TypeOK, Flights
<1>active. active \in Nat
  BY DEF TypeOK
<1>local. local \in [Keys -> Calls \cup {Nil}]
  BY DEF TypeOK
<1>memo. memo \in [Scopes -> [Keys -> Calls \cup {Nil}]]
  BY DEF TypeOK
<1>memoFlight. memoFlight \in [Scopes -> [Keys -> Calls \cup {Nil}]]
  BY DEF TypeOK
<1>content. content \in [Keys -> Calls \cup {Nil}]
  BY DEF TypeOK, Store!StoreTypeOK
<1>blocked. blocked \in BOOLEAN
  BY DEF TypeOK, Store!StoreTypeOK
<1>open. open \subseteq Scopes
  BY DEF TypeOK
<1>late. late \subseteq Calls
  BY DEF TypeOK
<1>accepted. accepted \subseteq Calls
  BY DEF TypeOK
<1>1. ASSUME NEW c \in Calls, NEW k \in Keys, NEW s \in Scopes \cup {Outside}, Invoke(c, k, s)
      PROVE  TypeOK'
  <2>1. pc' \in [Calls -> Places]
    BY <1>1, <1>pc DEF Invoke, Goto, StartLoad, Places
  <2>2. req' \in [Calls -> [key : Keys, scope : Scopes \cup {Outside}] \cup {Nil}]
    BY <1>1, <1>req DEF Invoke
  <2>3. load' \in [Calls -> {"none", "running", "resolved", "rejected", "timedOut"}]
    BY <1>1, <1>load DEF Invoke, StartLoad
  <2>4. UNCHANGED <<memoRole, by, plan, got, res, hasRedis, flight, active, local, open, memo,
                    memoFlight, content, blocked, late, accepted>>
    BY <1>1 DEF Invoke, shared, scopeVars, redisVars
  <2> QED
    BY <2>1, <2>2, <2>3, <2>4 DEF TypeOK, Plans, Flights, Store!StoreTypeOK
<1>2. ASSUME NEW c \in Calls, Bypass(c)
      PROVE  TypeOK'
  <2>1. pc' \in [Calls -> Places]
    BY <1>2, <1>pc DEF Bypass, Goto, StartLoad, Places
  <2>2. load' \in [Calls -> {"none", "running", "resolved", "rejected", "timedOut"}]
    BY <1>2, <1>load DEF Bypass, StartLoad
  <2>3. UNCHANGED <<req, memoRole, by, plan, got, res, hasRedis, flight, active, local, open,
                    memo, memoFlight, content, blocked, late, accepted>>
    BY <1>2 DEF Bypass, shared, scopeVars, redisVars
  <2> QED
    BY <2>1, <2>2, <2>3 DEF TypeOK, Plans, Flights, Store!StoreTypeOK
<1>3. ASSUME NEW c \in Calls, SkipMemo(c)
      PROVE  TypeOK'
  <2>1. pc' \in [Calls -> Places]
    BY <1>3, <1>pc DEF SkipMemo, Goto, Places
  <2>2. UNCHANGED <<req, memoRole, by, plan, got, load, res, hasRedis, flight, active, local,
                    open, memo, memoFlight, content, blocked, late, accepted>>
    BY <1>3 DEF SkipMemo, shared, scopeVars, redisVars
  <2> QED
    BY <2>1, <2>2 DEF TypeOK, Plans, Flights, Store!StoreTypeOK
<1>4. ASSUME NEW c \in Calls, EnterMemo(c)
      PROVE  TypeOK'
  <2>1. key(c) \in Keys /\ scope(c) \in Scopes
    BY <1>4, KeyKnown, <1>open DEF EnterMemo, Enabled
  <2>2. pc' \in [Calls -> Places]
    BY <1>4, <1>pc DEF EnterMemo, Goto, Places
  <2>3. memoRole' \in [Calls -> {"none", "leader", "joined"}]
    BY <1>4, <1>memoRole DEF EnterMemo
  <2>4. by' \in [Calls -> Calls]
    BY <1>4, <2>1, <1>by, <1>memoFlight DEF EnterMemo
  <2>5. res' \in [Calls -> Calls \cup {Nil, Fail}]
    BY <1>4, <2>1, <1>res, <1>memo DEF EnterMemo
  <2>6. memoFlight' \in [Scopes -> [Keys -> Calls \cup {Nil}]]
    BY <1>4, <2>1, <1>memoFlight DEF EnterMemo
  <2>7. UNCHANGED <<req, plan, got, load, hasRedis, flight, active, local, open, memo,
                    content, blocked, late, accepted>>
    BY <1>4 DEF EnterMemo, shared, redisVars
  <2> QED
    BY <2>2, <2>3, <2>4, <2>5, <2>6, <2>7 DEF TypeOK, Plans, Flights, Store!StoreTypeOK
<1>5. ASSUME NEW c \in Calls, LocalOn(c)
      PROVE  TypeOK'
  <2>1. key(c) \in Keys
    BY <1>5, KeyKnown DEF LocalOn
  <2>2. pc' \in [Calls -> Places]
    BY <1>5, <1>pc DEF LocalOn, JoinProcess, SettleFlight, StartLoad, Goto, Places
  <2>3. flight' \in [Keys -> Flights \cup {Nil}]
    BY <1>5, <2>1, <1>flight, <1>active, ReadThroughAssumption DEF LocalOn, JoinProcess,
       NewFlight, Flights
  <2>4. active' \in Nat
    BY <1>5, <1>active DEF LocalOn, JoinProcess, NewFlight
  <2>5. by' \in [Calls -> Calls]
    BY <1>5, <2>1, <1>by, <1>flight, ReadThroughAssumption DEF LocalOn, JoinProcess,
       NewFlight, Flights
  <2>6. plan' \in [Calls -> Plans]
    BY <1>5, <1>plan DEF LocalOn, Plans
  <2>7. load' \in [Calls -> {"none", "running", "resolved", "rejected", "timedOut"}]
    BY <1>5, <1>load DEF LocalOn, StartLoad
  <2>8. res' \in [Calls -> Calls \cup {Nil, Fail}]
    BY <1>5, <2>1, <1>res, <1>local DEF LocalOn, SettleFlight
  <2>9. UNCHANGED <<req, memoRole, got, hasRedis, local, open, memo, memoFlight, content,
                    blocked, late, accepted>>
    BY <1>5 DEF LocalOn, scopeVars, redisVars
  <2> QED
    BY <2>2, <2>3, <2>4, <2>5, <2>6, <2>7, <2>8, <2>9 DEF TypeOK, Plans, Flights,
       Store!StoreTypeOK
<1>6. ASSUME NEW c \in Calls, LocalOff(c)
      PROVE  TypeOK'
  <2>1. pc' \in [Calls -> Places]
    BY <1>6, <1>pc DEF LocalOff, Goto, StartLoad, Places
  <2>2. load' \in [Calls -> {"none", "running", "resolved", "rejected", "timedOut"}]
    BY <1>6, <1>load DEF LocalOff, StartLoad
  <2>3. UNCHANGED <<req, memoRole, by, plan, got, res, hasRedis, flight, active, local, open,
                    memo, memoFlight, content, blocked, late, accepted>>
    BY <1>6 DEF LocalOff, shared, scopeVars, redisVars
  <2> QED
    BY <2>1, <2>2, <2>3 DEF TypeOK, Plans, Flights, Store!StoreTypeOK
<1>7. ASSUME NEW c \in Calls, RemoteOn(c)
      PROVE  TypeOK'
  <2>1. key(c) \in Keys
    BY <1>7, KeyKnown DEF RemoteOn
  <2>2. pc' \in [Calls -> Places]
    BY <1>7, <1>pc DEF RemoteOn, JoinProcess, Goto, Places
  <2>3. flight' \in [Keys -> Flights \cup {Nil}]
    BY <1>7, <2>1, <1>flight, ReadThroughAssumption DEF RemoteOn, JoinProcess, NewFlight,
       Flights
  <2>4. active' \in Nat
    BY <1>7, <1>active DEF RemoteOn, JoinProcess, NewFlight
  <2>5. by' \in [Calls -> Calls]
    BY <1>7, <2>1, <1>by, <1>flight, ReadThroughAssumption DEF RemoteOn, JoinProcess,
       NewFlight, Flights
  <2>6. UNCHANGED <<req, memoRole, plan, got, load, res, hasRedis, local, open, memo,
                    memoFlight, content, blocked, late, accepted>>
    BY <1>7 DEF RemoteOn, scopeVars, redisVars
  <2> QED
    BY <2>2, <2>3, <2>4, <2>5, <2>6 DEF TypeOK, Plans, Flights, Store!StoreTypeOK
<1>8. ASSUME NEW c \in Calls, NEW why \in {"off", "configError"}, RemoteOff(c, why)
      PROVE  TypeOK'
  <2>1. pc' \in [Calls -> Places]
    BY <1>8, <1>pc DEF RemoteOff, Goto, StartLoad, Places
  <2>2. plan' \in [Calls -> Plans]
    BY <1>8, <1>plan DEF RemoteOff, Plans
  <2>3. load' \in [Calls -> {"none", "running", "resolved", "rejected", "timedOut"}]
    BY <1>8, <1>load DEF RemoteOff, StartLoad
  <2>4. UNCHANGED <<req, memoRole, by, got, res, hasRedis, flight, active, local, open, memo,
                    memoFlight, content, blocked, late, accepted>>
    BY <1>8 DEF RemoteOff, shared, scopeVars, redisVars
  <2> QED
    BY <2>1, <2>2, <2>3, <2>4 DEF TypeOK, Plans, Flights, Store!StoreTypeOK
<1>9. ASSUME NEW c \in Calls, ReadExecuted(c)
      PROVE  TypeOK'
  <2>1. key(c) \in Keys
    BY <1>9, KeyKnown DEF ReadExecuted
  <2>2. pc' \in [Calls -> Places]
    BY <1>9, <1>pc DEF ReadExecuted, Goto, Places
  <2>3. got' \in [Calls -> Calls \cup {Nil, "stored", "refused", "error"}]
    BY <1>9, <2>1, <1>got, <1>content DEF ReadExecuted
  <2>4. UNCHANGED <<req, memoRole, by, plan, load, res, hasRedis, flight, active, local, open,
                    memo, memoFlight, content, blocked, late, accepted>>
    BY <1>9 DEF ReadExecuted, shared, scopeVars, redisVars
  <2> QED
    BY <2>2, <2>3, <2>4 DEF TypeOK, Plans, Flights, Store!StoreTypeOK
<1>10. ASSUME NEW c \in Calls, ReadHit(c)
      PROVE  TypeOK'
  <2>1. pc' \in [Calls -> Places]
    BY <1>10, <1>pc DEF ReadHit, SettleFlight, Goto, Places
  <2>2. res' \in [Calls -> Calls \cup {Nil, Fail}]
    BY <1>10, <1>res DEF ReadHit, SettleFlight
  <2>3. local' \in [Keys -> Calls \cup {Nil}]
    BY <1>10, <1>local DEF ReadHit, FillLocal
  <2>4. got' \in [Calls -> Calls \cup {Nil, "stored", "refused", "error"}]
    BY <1>10, <1>got DEF ReadHit
  <2>5. UNCHANGED <<req, memoRole, by, plan, load, hasRedis, flight, active, open, memo,
                    memoFlight, content, blocked, late, accepted>>
    BY <1>10 DEF ReadHit, scopeVars, redisVars
  <2> QED
    BY <2>1, <2>2, <2>3, <2>4, <2>5 DEF TypeOK, Plans, Flights, Store!StoreTypeOK
<1>11. ASSUME NEW c \in Calls, ReadMissed(c)
      PROVE  TypeOK'
  <2>1. pc' \in [Calls -> Places]
    BY <1>11, <1>pc DEF ReadMissed, Goto, StartLoad, Places
  <2>2. plan' \in [Calls -> Plans]
    BY <1>11, <1>plan DEF ReadMissed, Plans
  <2>3. load' \in [Calls -> {"none", "running", "resolved", "rejected", "timedOut"}]
    BY <1>11, <1>load DEF ReadMissed, StartLoad
  <2>4. got' \in [Calls -> Calls \cup {Nil, "stored", "refused", "error"}]
    BY <1>11, <1>got DEF ReadMissed
  <2>5. UNCHANGED <<req, memoRole, by, res, hasRedis, flight, active, local, open, memo,
                    memoFlight, content, blocked, late, accepted>>
    BY <1>11 DEF ReadMissed, shared, scopeVars, redisVars
  <2> QED
    BY <2>1, <2>2, <2>3, <2>4, <2>5 DEF TypeOK, Plans, Flights, Store!StoreTypeOK
<1>12. ASSUME NEW c \in Calls, Resolved(c)
      PROVE  TypeOK'
  <2>1. pc' \in [Calls -> Places]
    BY <1>12, <1>pc DEF Resolved, SettleFlight, AfterShared, Goto, Places
  <2>2. load' \in [Calls -> {"none", "running", "resolved", "rejected", "timedOut"}]
    BY <1>12, <1>load DEF Resolved
  <2>3. res' \in [Calls -> Calls \cup {Nil, Fail}]
    BY <1>12, <1>res DEF Resolved, SettleFlight
  <2>4. local' \in [Keys -> Calls \cup {Nil}]
    BY <1>12, <1>local DEF Resolved, FillLocal
  <2>5. UNCHANGED <<req, memoRole, by, plan, got, hasRedis, flight, active, open, memo,
                    memoFlight, content, blocked, late, accepted>>
    BY <1>12 DEF Resolved, scopeVars, redisVars
  <2> QED
    BY <2>1, <2>2, <2>3, <2>4, <2>5 DEF TypeOK, Plans, Flights, Store!StoreTypeOK
<1>13. ASSUME NEW c \in Calls, NEW how \in {"rejected", "timedOut"}, LoadFailed(c, how)
      PROVE  TypeOK'
  <2>1. pc' \in [Calls -> Places]
    BY <1>13, <1>pc DEF LoadFailed, SettleFlight, AfterShared, Goto, Places
  <2>2. load' \in [Calls -> {"none", "running", "resolved", "rejected", "timedOut"}]
    BY <1>13, <1>load DEF LoadFailed
  <2>3. res' \in [Calls -> Calls \cup {Nil, Fail}]
    BY <1>13, <1>res DEF LoadFailed, SettleFlight
  <2>4. UNCHANGED <<req, memoRole, by, plan, got, hasRedis, flight, active, local, open, memo,
                    memoFlight, content, blocked, late, accepted>>
    BY <1>13 DEF LoadFailed, shared, scopeVars, redisVars
  <2> QED
    BY <2>1, <2>2, <2>3, <2>4 DEF TypeOK, Plans, Flights, Store!StoreTypeOK
<1>14. ASSUME NEW c \in Calls, NEW how \in {"resolved", "rejected"}, RawSettled(c, how)
      PROVE  TypeOK'
  <2>1. pc' \in [Calls -> Places]
    BY <1>14, <1>pc DEF RawSettled, Goto, Places
  <2>2. load' \in [Calls -> {"none", "running", "resolved", "rejected", "timedOut"}]
    BY <1>14, <1>load DEF RawSettled
  <2>3. res' \in [Calls -> Calls \cup {Nil, Fail}]
    BY <1>14, <1>res DEF RawSettled
  <2>4. UNCHANGED <<req, memoRole, by, plan, got, hasRedis, flight, active, local, open, memo,
                    memoFlight, content, blocked, late, accepted>>
    BY <1>14 DEF RawSettled, shared, scopeVars, redisVars
  <2> QED
    BY <2>1, <2>2, <2>3, <2>4 DEF TypeOK, Plans, Flights, Store!StoreTypeOK
<1>15. ASSUME NEW c \in Calls, WriteExecuted(c)
      PROVE  TypeOK'
  <2>1. pc' \in [Calls -> Places]
    BY <1>15, <1>pc DEF WriteExecuted, Goto, Places
  <2>2. got' \in [Calls -> Calls \cup {Nil, "stored", "refused", "error"}]
    BY <1>15, <1>got DEF WriteExecuted
  <2>3. content' \in [Keys -> Calls \cup {Nil}]
    BY <1>15, <1>content DEF WriteExecuted, StoreWrite, Store!WriteEffect
  <2>4. blocked' \in BOOLEAN
    BY <1>15, <1>blocked DEF WriteExecuted, StoreWrite, Store!WriteEffect
  <2>5. accepted' \subseteq Calls
    BY <1>15, <1>accepted DEF WriteExecuted, StoreWrite
  <2>6. UNCHANGED <<req, memoRole, by, plan, load, res, hasRedis, flight, active, local, open,
                    memo, memoFlight, late>>
    BY <1>15 DEF WriteExecuted, shared, scopeVars, StoreWrite
  <2> QED
    BY <2>1, <2>2, <2>3, <2>4, <2>5, <2>6 DEF TypeOK, Plans, Flights, Store!StoreTypeOK
<1>16. ASSUME NEW c \in Calls, WriteFailed(c)
      PROVE  TypeOK'
  <2>1. pc' \in [Calls -> Places]
    BY <1>16, <1>pc DEF WriteFailed, Goto, Places
  <2>2. got' \in [Calls -> Calls \cup {Nil, "stored", "refused", "error"}]
    BY <1>16, <1>got DEF WriteFailed
  <2>3. late' \subseteq Calls
    BY <1>16, <1>late DEF WriteFailed
  <2>4. UNCHANGED <<req, memoRole, by, plan, load, res, hasRedis, flight, active, local, open,
                    memo, memoFlight, content, blocked, accepted>>
    BY <1>16 DEF WriteFailed, shared, scopeVars
  <2> QED
    BY <2>1, <2>2, <2>3, <2>4 DEF TypeOK, Plans, Flights, Store!StoreTypeOK
<1>17. ASSUME NEW c \in Calls, LateWrite(c)
      PROVE  TypeOK'
  <2>1. content' \in [Keys -> Calls \cup {Nil}]
    BY <1>17, <1>content DEF LateWrite, StoreWrite, Store!WriteEffect
  <2>2. blocked' \in BOOLEAN
    BY <1>17, <1>blocked DEF LateWrite, StoreWrite, Store!WriteEffect
  <2>3. accepted' \subseteq Calls
    BY <1>17, <1>accepted DEF LateWrite, StoreWrite
  <2>4. late' \subseteq Calls
    BY <1>17, <1>late DEF LateWrite
  <2>5. UNCHANGED <<pc, req, memoRole, by, plan, got, load, res, hasRedis, flight, active,
                    local, open, memo, memoFlight>>
    BY <1>17 DEF LateWrite, callVars, shared, scopeVars, StoreWrite
  <2> QED
    BY <2>1, <2>2, <2>3, <2>4, <2>5 DEF TypeOK, Plans, Flights, Store!StoreTypeOK
<1>18. ASSUME NEW c \in Calls, Written(c)
      PROVE  TypeOK'
  <2>1. pc' \in [Calls -> Places]
    BY <1>18, <1>pc DEF Written, SettleFlight, Goto, Places
  <2>2. res' \in [Calls -> Calls \cup {Nil, Fail}]
    BY <1>18, <1>res DEF Written, SettleFlight
  <2>3. local' \in [Keys -> Calls \cup {Nil}]
    BY <1>18, <1>local DEF Written, FillLocal
  <2>4. got' \in [Calls -> Calls \cup {Nil, "stored", "refused", "error"}]
    BY <1>18, <1>got DEF Written
  <2>5. UNCHANGED <<req, memoRole, by, plan, load, hasRedis, flight, active, open, memo,
                    memoFlight, content, blocked, late, accepted>>
    BY <1>18 DEF Written, scopeVars, redisVars
  <2> QED
    BY <2>1, <2>2, <2>3, <2>4, <2>5 DEF TypeOK, Plans, Flights, Store!StoreTypeOK
<1>19. ASSUME NEW c \in Calls, ClearFlight(c)
      PROVE  TypeOK'
  <2>1. key(c) \in Keys
    BY <1>19, KeyKnown DEF ClearFlight
  <2>2. flight[key(c)] # Nil
    BY <1>19 DEF ClearFlight, ChainsLead, Leads
  <2>3. pc' \in [Calls -> Places]
    BY <1>19, <1>pc DEF ClearFlight, AfterShared, Goto, Places
  <2>4. flight' \in [Keys -> Flights \cup {Nil}]
    BY <1>19, <1>flight, ReadThroughAssumption DEF ClearFlight
  <2>5. active' \in Nat
    BY <1>19, <2>1, <2>2, <1>active, <1>flight, ReadThroughAssumption DEF ClearFlight,
       ActiveAfterClear, Flights, FollowersFit
  <2>6. UNCHANGED <<req, memoRole, by, plan, got, load, res, hasRedis, local, open, memo,
                    memoFlight, content, blocked, late, accepted>>
    BY <1>19 DEF ClearFlight, scopeVars, redisVars
  <2> QED
    BY <2>3, <2>4, <2>5, <2>6 DEF TypeOK, Plans, Flights, Store!StoreTypeOK
<1>20. ASSUME NEW c \in Calls, ResumeShared(c)
      PROVE  TypeOK'
  <2>1. pc' \in [Calls -> Places]
    BY <1>20, <1>pc DEF ResumeShared, AfterShared, Goto, Places
  <2>2. res' \in [Calls -> Calls \cup {Nil, Fail}]
    BY <1>20, <1>res, <1>by DEF ResumeShared
  <2>3. UNCHANGED <<req, memoRole, by, plan, got, load, hasRedis, flight, active, local, open,
                    memo, memoFlight, content, blocked, late, accepted>>
    BY <1>20 DEF ResumeShared, shared, scopeVars, redisVars
  <2> QED
    BY <2>1, <2>2, <2>3 DEF TypeOK, Plans, Flights, Store!StoreTypeOK
<1>21. ASSUME NEW c \in Calls, Memoize(c)
      PROVE  TypeOK'
  <2>1. pc' \in [Calls -> Places]
    BY <1>21, <1>pc DEF Memoize, Goto, Places
  <2>2. memo' \in [Scopes -> [Keys -> Calls \cup {Nil}]]
    BY <1>21, <1>memo, <1>res DEF Memoize, Memoizes
  <2>3. UNCHANGED <<req, memoRole, by, plan, got, load, res, hasRedis, flight, active, local,
                    open, memoFlight, content, blocked, late, accepted>>
    BY <1>21 DEF Memoize, shared, redisVars
  <2> QED
    BY <2>1, <2>2, <2>3 DEF TypeOK, Plans, Flights, Store!StoreTypeOK
<1>22. ASSUME NEW c \in Calls, ClearMemoFlight(c)
      PROVE  TypeOK'
  <2>1. pc' \in [Calls -> Places]
    BY <1>22, <1>pc DEF ClearMemoFlight, Goto, Places
  <2>2. memoFlight' \in [Scopes -> [Keys -> Calls \cup {Nil}]]
    BY <1>22, <1>memoFlight DEF ClearMemoFlight
  <2>3. UNCHANGED <<req, memoRole, by, plan, got, load, res, hasRedis, flight, active, local,
                    open, memo, content, blocked, late, accepted>>
    BY <1>22 DEF ClearMemoFlight, shared, redisVars
  <2> QED
    BY <2>1, <2>2, <2>3 DEF TypeOK, Plans, Flights, Store!StoreTypeOK
<1>23. ASSUME NEW c \in Calls, ResumeMemo(c)
      PROVE  TypeOK'
  <2>1. pc' \in [Calls -> Places]
    BY <1>23, <1>pc DEF ResumeMemo, Goto, Places
  <2>2. res' \in [Calls -> Calls \cup {Nil, Fail}]
    BY <1>23, <1>res, <1>by DEF ResumeMemo
  <2>3. UNCHANGED <<req, memoRole, by, plan, got, load, hasRedis, flight, active, local, open,
                    memo, memoFlight, content, blocked, late, accepted>>
    BY <1>23 DEF ResumeMemo, shared, scopeVars, redisVars
  <2> QED
    BY <2>1, <2>2, <2>3 DEF TypeOK, Plans, Flights, Store!StoreTypeOK
<1>24. ASSUME NEW s \in Scopes, CloseScope(s)
      PROVE  TypeOK'
  <2>1. open' \subseteq Scopes
    BY <1>24, <1>open DEF CloseScope
  <2>2. memo' \in [Scopes -> [Keys -> Calls \cup {Nil}]]
    BY <1>24, <1>memo DEF CloseScope, NoEntries
  <2>3. memoFlight' \in [Scopes -> [Keys -> Calls \cup {Nil}]]
    BY <1>24, <1>memoFlight DEF CloseScope, NoEntries
  <2>4. UNCHANGED <<pc, req, memoRole, by, plan, got, load, res, hasRedis, flight, active,
                    local, content, blocked, late, accepted>>
    BY <1>24 DEF CloseScope, callVars, shared, redisVars
  <2> QED
    BY <2>1, <2>2, <2>3, <2>4 DEF TypeOK, Plans, Flights, Store!StoreTypeOK
<1>25. ASSUME NEW k \in Keys, DropLocal(k)
      PROVE  TypeOK'
  <2>1. local' \in [Keys -> Calls \cup {Nil}]
    BY <1>25, <1>local DEF DropLocal
  <2>2. UNCHANGED <<pc, req, memoRole, by, plan, got, load, res, hasRedis, flight, active,
                    open, memo, memoFlight, content, blocked, late, accepted>>
    BY <1>25 DEF DropLocal, callVars, scopeVars, redisVars
  <2> QED
    BY <2>1, <2>2 DEF TypeOK, Plans, Flights, Store!StoreTypeOK
<1>26. ASSUME InvalidateRemote
      PROVE  TypeOK'
  <2>1. content' \in [Keys -> Calls \cup {Nil}]
    BY <1>26, <1>content DEF InvalidateRemote, Store!InvalidateEffect, Store!HideTracked
  <2>2. blocked' \in BOOLEAN
    BY <1>26, <1>blocked DEF InvalidateRemote, Store!InvalidateEffect
  <2>3. UNCHANGED <<pc, req, memoRole, by, plan, got, load, res, hasRedis, flight, active,
                    local, open, memo, memoFlight, late, accepted>>
    BY <1>26 DEF InvalidateRemote, callVars, shared, scopeVars
  <2> QED
    BY <2>1, <2>2, <2>3 DEF TypeOK, Plans, Flights, Store!StoreTypeOK
<1>27. ASSUME RedisElapse
      PROVE  TypeOK'
  <2>1. content' \in [Keys -> Calls \cup {Nil}]
    BY <1>27, <1>content DEF RedisElapse, Store!ElapseEffect
  <2>2. blocked' \in BOOLEAN
    BY <1>27, <1>blocked DEF RedisElapse, Store!ElapseEffect
  <2>3. UNCHANGED <<pc, req, memoRole, by, plan, got, load, res, hasRedis, flight, active,
                    local, open, memo, memoFlight, late, accepted>>
    BY <1>27 DEF RedisElapse, callVars, shared, scopeVars
  <2> QED
    BY <2>1, <2>2, <2>3 DEF TypeOK, Plans, Flights, Store!StoreTypeOK
<1> QED
  BY <1>1, <1>2, <1>3, <1>4, <1>5, <1>6, <1>7, <1>8, <1>9, <1>10, <1>11, <1>12, <1>13,
     <1>14, <1>15, <1>16, <1>17, <1>18, <1>19, <1>20, <1>21, <1>22, <1>23, <1>24, <1>25,
     <1>26, <1>27
  DEF Next, Step, Loader
-----------------------------------------------------------------------------
\* How a step changes who leads and who follows whom.
\* Where a call leads for certain, where a leader can be, and where it has
\* stopped leading.
LeadingPlaces == {"read", "readBack", "write", "writeBack", "settled"}
LeaderPlaces == LeadingPlaces \cup {"remoteConfig", "load"}
After == {"chained", "memoSettled", "done"}

\* Everyone but c stays where it is.
Alone(c) == \A d \in Calls \ {c} : pc'[d] = pc[d] /\ req'[d] = req[d] /\ by'[d] = by[d]

\* Nobody moves.
Still == UNCHANGED <<pc, req, by, flight, active>> /\ late' \subseteq late

\* c goes on alone.
GoesOn(c) ==
  /\ Alone(c) /\ late' \subseteq late \cup {c} /\ UNCHANGED <<flight, active>>
  /\ pc[c] # "waitShared" /\ pc'[c] \notin {"waitShared", "idle"}
  /\ req'[c] # Nil
  /\ pc[c] # "idle" => req'[c] = req[c]
  /\ pc[c] # "idle" /\ Leads(c) => pc'[c] \in LeaderPlaces
  /\ pc'[c] \in LeadingPlaces => pc[c] # "idle" /\ Leads(c)
  /\ pc[c] \in After => pc'[c] \in After

\* c registers a flight.
Leading(c) ==
  /\ Alone(c) /\ late' \subseteq late \cup {c} /\ UNCHANGED <<req, by, active>>
  /\ pc[c] \in {"localConfig", "remoteConfig"} /\ pc'[c] \in LeaderPlaces
  /\ flight[key(c)] = Nil /\ NewFlight(c)

\* c joins the flight of its key.
Joining(c) ==
  /\ Alone(c) /\ late' \subseteq late \cup {c} /\ UNCHANGED req
  /\ pc[c] \in {"localConfig", "remoteConfig"}
  /\ flight[key(c)] # Nil /\ ~ Leads(c) /\ JoinProcess(c)

\* c clears the flight it led.
Clearing(c) ==
  /\ Alone(c) /\ late' \subseteq late \cup {c} /\ UNCHANGED <<req, by>>
  /\ pc[c] = "settled" /\ pc'[c] \in {"chained", "done"}
  /\ active' = ActiveAfterClear(key(c))
  /\ flight' = [flight EXCEPT ![key(c)] = Nil]

\* c goes on with the answer of the flight it waited for.
Resuming(c) ==
  /\ Alone(c) /\ late' \subseteq late \cup {c} /\ UNCHANGED <<req, by, flight, active>>
  /\ pc[c] = "waitShared" /\ pc[by[c]] \in After /\ pc'[c] \in {"chained", "done"}

\* Whatever the step, one call at most moves, and towards the flights it does
\* one of five things.
LEMMA StepKinds ==
  ASSUME TypeOK, Known, FlightsAreLed, Next
  PROVE  Still \/ \E c \in Calls : GoesOn(c) \/ Leading(c) \/ Joining(c) \/ Clearing(c) \/ Resuming(c)
<1> USE DEF Goto, StartLoad, SettleFlight, AfterShared, LeadingPlaces, LeaderPlaces, After
<1>pc. pc \in [Calls -> Places]
  BY DEF TypeOK
<1>req. req \in [Calls -> [key : Keys, scope : Scopes \cup {Outside}] \cup {Nil}]
  BY DEF TypeOK
<1>by. by \in [Calls -> Calls]
  BY DEF TypeOK

<1>lead. \A c \in Calls : Leads(c) /\ pc[c] # "idle" => pc[c] \in LeaderPlaces
  BY KeyKnown DEF Leads, FlightsAreLed, key
<1>idle. \A c \in Calls : pc[c] = "idle" => req[c] = Nil
  BY DEF Known
<1>made. \A c \in Calls : pc[c] # "idle" => req[c] # Nil
  BY DEF Known
<1>chain. \A c \in Calls : pc[c] \in LeadingPlaces => Leads(c)
  BY DEF FlightsAreLed
<1>1. ASSUME NEW c \in Calls, NEW k \in Keys, NEW s \in Scopes \cup {Outside}, Invoke(c, k, s)
      PROVE  GoesOn(c)
  BY <1>1, <1>pc, <1>req, <1>by, <1>idle, ReadThroughAssumption DEF Invoke, GoesOn, Alone,
     shared, redisVars
<1>2. ASSUME NEW c \in Calls, Bypass(c)
      PROVE  GoesOn(c)
  BY <1>2, <1>pc, <1>by, <1>made, <1>lead, <1>chain DEF Bypass, GoesOn, Alone, shared, redisVars
<1>3. ASSUME NEW c \in Calls, SkipMemo(c)
      PROVE  GoesOn(c)
  BY <1>3, <1>pc, <1>by, <1>made, <1>lead, <1>chain DEF SkipMemo, GoesOn, Alone, shared,
     redisVars
<1>4. ASSUME NEW c \in Calls, EnterMemo(c)
      PROVE  GoesOn(c)
  BY <1>4, <1>pc, <1>by, <1>made, <1>lead, <1>chain DEF EnterMemo, GoesOn, Alone, shared,
     redisVars
<1>5. ASSUME NEW c \in Calls, LocalOn(c)
      PROVE  Leading(c) \/ Joining(c)
  BY <1>5, <1>pc, <1>by, <1>made, <1>lead, <1>chain DEF LocalOn, GoesOn, Leading, Joining,
     Clearing, Resuming, JoinProcess, Alone, shared, redisVars
<1>6. ASSUME NEW c \in Calls, LocalOff(c)
      PROVE  GoesOn(c)
  BY <1>6, <1>pc, <1>by, <1>made, <1>lead, <1>chain DEF LocalOff, GoesOn, Alone, shared,
     redisVars
<1>7. ASSUME NEW c \in Calls, RemoteOn(c)
      PROVE  GoesOn(c) \/ Leading(c) \/ Joining(c)
  BY <1>7, <1>pc, <1>by, <1>made, <1>lead, <1>chain DEF RemoteOn, GoesOn, Leading, Joining,
     Clearing, Resuming, JoinProcess, Alone, shared, redisVars
<1>8. ASSUME NEW c \in Calls, NEW why \in {"off", "configError"}, RemoteOff(c, why)
      PROVE  GoesOn(c)
  BY <1>8, <1>pc, <1>by, <1>made, <1>lead, <1>chain DEF RemoteOff, GoesOn, Alone, shared,
     redisVars
<1>9. ASSUME NEW c \in Calls, ReadExecuted(c)
      PROVE  GoesOn(c)
  BY <1>9, <1>pc, <1>by, <1>made, <1>lead, <1>chain DEF ReadExecuted, GoesOn, Alone, shared,
     redisVars
<1>10. ASSUME NEW c \in Calls, ReadHit(c)
      PROVE  GoesOn(c)
  BY <1>10, <1>pc, <1>by, <1>made, <1>lead, <1>chain DEF ReadHit, GoesOn, Alone, shared,
     redisVars
<1>11. ASSUME NEW c \in Calls, ReadMissed(c)
      PROVE  GoesOn(c)
  BY <1>11, <1>pc, <1>by, <1>made, <1>lead, <1>chain DEF ReadMissed, GoesOn, Alone, shared,
     redisVars
<1>12. ASSUME NEW c \in Calls, Resolved(c)
      PROVE  GoesOn(c)
  BY <1>12, <1>pc, <1>by, <1>made, <1>lead, <1>chain DEF Resolved, GoesOn, Alone, shared,
     redisVars
<1>13. ASSUME NEW c \in Calls, NEW how \in {"rejected", "timedOut"}, LoadFailed(c, how)
      PROVE  GoesOn(c)
  BY <1>13, <1>pc, <1>by, <1>made, <1>lead, <1>chain DEF LoadFailed, GoesOn, Alone, shared,
     redisVars
<1>14. ASSUME NEW c \in Calls, NEW how \in {"resolved", "rejected"}, RawSettled(c, how)
      PROVE  GoesOn(c)
  BY <1>14, <1>pc, <1>by, <1>made, <1>lead, <1>chain DEF RawSettled, GoesOn, Alone, shared,
     redisVars
<1>15. ASSUME NEW c \in Calls, WriteExecuted(c)
      PROVE  GoesOn(c)
  BY <1>15, <1>pc, <1>by, <1>made, <1>lead, <1>chain DEF WriteExecuted, GoesOn, Alone,
     shared, redisVars
<1>16. ASSUME NEW c \in Calls, WriteFailed(c)
      PROVE  GoesOn(c)
  BY <1>16, <1>pc, <1>by, <1>made, <1>lead, <1>chain DEF WriteFailed, GoesOn, Alone, shared,
     redisVars
<1>17. ASSUME NEW c \in Calls, LateWrite(c)
      PROVE  Still
  BY <1>17 DEF LateWrite, Still, callVars, shared, redisVars
<1>18. ASSUME NEW c \in Calls, Written(c)
      PROVE  GoesOn(c)
  BY <1>18, <1>pc, <1>by, <1>made, <1>lead, <1>chain DEF Written, GoesOn, Alone, shared,
     redisVars
<1>19. ASSUME NEW c \in Calls, ClearFlight(c)
      PROVE  Clearing(c)
  BY <1>19, <1>pc, <1>by, <1>made, <1>lead, <1>chain DEF ClearFlight, GoesOn, Leading,
     Joining, Clearing, Resuming, JoinProcess, Alone, shared, redisVars
<1>20. ASSUME NEW c \in Calls, ResumeShared(c)
      PROVE  Resuming(c)
  BY <1>20, <1>pc, <1>by, <1>made, <1>lead, <1>chain DEF ResumeShared, GoesOn, Leading,
     Joining, Clearing, Resuming, JoinProcess, Alone, shared, redisVars
<1>21. ASSUME NEW c \in Calls, Memoize(c)
      PROVE  GoesOn(c)
  BY <1>21, <1>pc, <1>by, <1>made, <1>lead, <1>chain DEF Memoize, GoesOn, Alone, shared,
     redisVars
<1>22. ASSUME NEW c \in Calls, ClearMemoFlight(c)
      PROVE  GoesOn(c)
  BY <1>22, <1>pc, <1>by, <1>made, <1>lead, <1>chain DEF ClearMemoFlight, GoesOn, Alone,
     shared, redisVars
<1>23. ASSUME NEW c \in Calls, ResumeMemo(c)
      PROVE  GoesOn(c)
  BY <1>23, <1>pc, <1>by, <1>made, <1>lead, <1>chain DEF ResumeMemo, GoesOn, Alone, shared,
     redisVars
<1>24. ASSUME NEW s \in Scopes, CloseScope(s)
      PROVE  Still
  BY <1>24 DEF CloseScope, Still, callVars, shared, redisVars
<1>25. ASSUME NEW k \in Keys, DropLocal(k)
      PROVE  Still
  BY <1>25 DEF DropLocal, Still, callVars, shared, redisVars
<1>26. ASSUME InvalidateRemote
      PROVE  Still
  BY <1>26 DEF InvalidateRemote, Still, callVars, shared, redisVars
<1>27. ASSUME RedisElapse
      PROVE  Still
  BY <1>27 DEF RedisElapse, Still, callVars, shared, redisVars
<1> QED
  BY <1>1, <1>2, <1>3, <1>4, <1>5, <1>6, <1>7, <1>8, <1>9, <1>10, <1>11, <1>12, <1>13,
     <1>14, <1>15, <1>16, <1>17, <1>18, <1>19, <1>20, <1>21, <1>22, <1>23, <1>24, <1>25,
     <1>26, <1>27
  DEF Next, Step, Loader
-----------------------------------------------------------------------------
\* Whoever waits for a process flight waits for a chain of its own key, whose
\* flight is registered or which has settled.
Following ==
  \A c \in Calls : pc[c] = "waitShared" =>
    /\ req[by[c]] # Nil /\ key(by[c]) = key(c)
    /\ \/ flight[key(c)] # Nil /\ flight[key(c)].leader = by[c]
       \/ pc[by[c]] \in After

\* The first layer.
Base == TypeOK /\ Known /\ FlightsAreLed /\ Following /\ FollowerAccounting

\* The callers that active counts, and those a flight counts.
Counted == {c \in Calls : pc[c] = "waitShared" /\ flight[key(c)] # Nil
                          /\ flight[key(c)].leader = by[c]}

CountedFor(k) == {c \in Calls : pc[c] = "waitShared" /\ by[c] = flight[k].leader}

\* The sets that are counted are finite, as the calls are.
LEMMA CountedFinite ==
  /\ IsFiniteSet(Counted) /\ Cardinality(Counted) \in Nat
  /\ \A k : IsFiniteSet(CountedFor(k)) /\ Cardinality(CountedFor(k)) \in Nat
<1>1. Counted \in SUBSET Calls /\ \A k : CountedFor(k) \in SUBSET Calls
  BY DEF Counted, CountedFor
<1> QED
  BY <1>1, ReadThroughAssumption, FS_Subset, FS_CardinalityType

\* A registered flight has a leader that works on its key.
LEMMA LeaderWorks ==
  ASSUME Base, NEW k \in Keys, flight[k] # Nil
  PROVE  LET l == flight[k].leader IN
         l \in Calls /\ req[l] # Nil /\ key(l) = k /\ pc[l] \in LeaderPlaces
  BY DEF Base, TypeOK, FlightsAreLed, LeaderPlaces, LeadingPlaces

\* A flight's followers are the counted callers of its key.
LEMMA CountedByKey ==
  ASSUME Base, NEW k \in Keys, flight[k] # Nil
  PROVE  CountedFor(k) = {c \in Counted : key(c) = k}
<1> DEFINE l == flight[k].leader
<1>1. l \in Calls /\ key(l) = k /\ pc[l] \in LeaderPlaces
  BY LeaderWorks
<1>2. ASSUME NEW c \in Calls, pc[c] = "waitShared", by[c] = l
      PROVE  key(c) = k
  BY <1>1, <1>2 DEF Base, Following
<1> QED
  BY <1>2 DEF Counted, CountedFor

\* Clearing a flight does not make the total negative.
LEMMA FollowersFitIn ==
  ASSUME Base
  PROVE  FollowersFit
<1> SUFFICES ASSUME NEW k \in Keys, flight[k] # Nil
             PROVE  flight[k].followers <= active
  BY DEF FollowersFit
<1>1. CountedFor(k) \in SUBSET Counted
  BY CountedByKey
<1>2. flight[k].followers = Cardinality(CountedFor(k)) /\ active = Cardinality(Counted)
  BY DEF Base, FollowerAccounting, CountedFor, Counted
<1> QED
  BY <1>1, <1>2, CountedFinite, FS_Subset

\* FollowerAccounting in terms of them.
Accounted == /\ active = Cardinality(Counted)
             /\ \A k \in Keys : flight[k] # Nil => flight[k].followers = Cardinality(CountedFor(k))

\* FollowerAccounting, by the names of its sets.
LEMMA AccountingMeans == (FollowerAccounting <=> Accounted) /\ (FollowerAccounting <=> Accounted)'
  BY DEF FollowerAccounting, Accounted, Counted, CountedFor

\* A call that moves on stays known.
LEMMA KnownKept ==
  ASSUME Base, NEW c \in Calls, Alone(c), req' = req, late' \subseteq late \cup {c},
         pc[c] # "idle", pc'[c] # "idle"
  PROVE  Known'
<1>1. \A d \in Calls : pc'[d] = "idle" <=> req'[d] = Nil
  BY DEF Base, Known, Alone
<1>2. ASSUME NEW d \in late'
      PROVE  pc'[d] # "idle"
  BY <1>2 DEF Base, TypeOK, Known, Alone
<1> QED
  BY <1>1, <1>2 DEF Known

\* A step that leaves the calls alone.
LEMMA BaseStill ==
  ASSUME Base, Still
  PROVE  Known' /\ FlightsAreLed' /\ Following' /\ FollowerAccounting'
  BY DEF Base, Still, Known, FlightsAreLed, Following, FollowerAccounting, Leads, key

\* A call that goes on without joining, leading or leaving a flight.
LEMMA BaseQuiet ==
  ASSUME Base, NEW c \in Calls, GoesOn(c)
  PROVE  Known' /\ FlightsAreLed' /\ Following' /\ FollowerAccounting'
<1>1. Known'
  <2>1. \A d \in Calls : pc'[d] = "idle" <=> req'[d] = Nil
    BY DEF Base, Known, GoesOn, Alone
  <2>2. ASSUME NEW d \in late'
        PROVE  pc'[d] # "idle"
    BY <2>2 DEF Base, TypeOK, Known, GoesOn, Alone
  <2> QED
    BY <2>1, <2>2 DEF Known
<1>2. \A d \in Calls : pc[d] # "idle" => req'[d] = req[d] /\ key(d)' = key(d)
  BY DEF GoesOn, Alone, key
<1>3. \A d \in Calls : pc'[d] = "waitShared" <=> pc[d] = "waitShared"
  BY DEF GoesOn, Alone
<1>4. \A d \in Calls : pc[d] = "waitShared" => by'[d] = by[d] /\ key(d)' = key(d) /\ by[d] \in Calls
  BY <1>2 DEF GoesOn, Alone, Base, TypeOK
<1>5. FlightsAreLed'
  <2>1. ASSUME NEW d \in Calls, pc'[d] \in LeadingPlaces
        PROVE  Leads(d)'
    <3>1. pc[d] # "idle" /\ Leads(d)
      BY <2>1 DEF Base, FlightsAreLed, GoesOn, Alone, LeadingPlaces
    <3> QED
      BY <1>2, <3>1 DEF Leads, GoesOn
  <2>2. ASSUME NEW k \in Keys, flight'[k] # Nil, NEW l, l = flight'[k].leader
        PROVE  req'[l] # Nil /\ key(l)' = k /\ pc'[l] \in LeaderPlaces
    BY <1>2, <2>2, LeaderWorks DEF Base, Known, Leads, GoesOn, Alone
  <2> QED
    BY <2>1, <2>2 DEF FlightsAreLed, LeaderPlaces, LeadingPlaces
<1>6. Following'
  BY <1>2, <1>3, <1>4 DEF Base, Known, Following, GoesOn, Alone
<1>7. Counted' = Counted /\ \A k \in Keys : CountedFor(k)' = CountedFor(k)
  BY <1>3, <1>4 DEF Counted, CountedFor, GoesOn
<1>8. FollowerAccounting'
  BY <1>7, AccountingMeans DEF Base, GoesOn, Accounted
<1> QED
  BY <1>1, <1>5, <1>6, <1>8

\* A follower that goes on; its flight has been cleared before.
LEMMA BaseResuming ==
  ASSUME Base, NEW c \in Calls, Resuming(c)
  PROVE  Known' /\ FlightsAreLed' /\ Following' /\ FollowerAccounting'
<1>1. Known'
  BY KnownKept DEF Resuming
<1>2. FlightsAreLed'
  <2>1. ASSUME NEW d \in Calls, pc'[d] \in LeadingPlaces
        PROVE  Leads(d)'
    BY <2>1 DEF Base, FlightsAreLed, Resuming, Alone, LeadingPlaces, Leads, key
  <2>2. ASSUME NEW k \in Keys, flight'[k] # Nil, NEW l, l = flight'[k].leader
        PROVE  req'[l] # Nil /\ key(l)' = k /\ pc'[l] \in LeaderPlaces
    BY <2>2, LeaderWorks DEF Resuming, Alone, LeaderPlaces, LeadingPlaces, key
  <2> QED
    BY <2>1, <2>2 DEF FlightsAreLed, LeaderPlaces, LeadingPlaces
<1>3. Following'
  BY DEF Base, TypeOK, Following, Resuming, Alone, After, key
<1>4. ASSUME NEW k \in Keys, flight[k] # Nil
      PROVE  by[c] # flight[k].leader
  BY <1>4, LeaderWorks DEF Resuming, After, LeaderPlaces, LeadingPlaces
<1>5. Counted' = Counted
  <2>1. key(c) \in Keys
    BY KeyKnown DEF Resuming, Base
  <2> QED
    BY <1>4, <2>1 DEF Counted, Resuming, Alone, key
<1>6. \A k \in Keys : flight[k] # Nil => CountedFor(k)' = CountedFor(k)
  BY <1>4 DEF CountedFor, Resuming, Alone
<1>7. FollowerAccounting'
  BY <1>5, <1>6, AccountingMeans DEF Base, Resuming, Accounted
<1> QED
  BY <1>1, <1>2, <1>3, <1>7

\* A call that registers a flight: nobody waits for it yet.
LEMMA BaseLeading ==
  ASSUME Base, NEW c \in Calls, Leading(c)
  PROVE  Known' /\ FlightsAreLed' /\ Following' /\ FollowerAccounting'
<1>k. PICK k \in Keys : k = key(c)
  BY KeyKnown DEF Leading, Base
<1>0. flight[k] = Nil /\ pc[c] \in {"localConfig", "remoteConfig"}
      /\ pc'[c] \in LeaderPlaces /\ req[c] # Nil
  BY <1>k DEF Leading, Base, Known
<1>1. /\ flight'[k] # Nil /\ flight'[k].leader = c /\ flight'[k].followers = 0
      /\ \A j \in Keys : j # k => flight'[j] = flight[j]
  <2>1. [leader |-> c, followers |-> 0] # Nil
    BY ReadThroughAssumption
  <2> QED
    BY <1>k, <1>0, <2>1 DEF Leading, NewFlight, Base, TypeOK
<1>2. Known'
  BY <1>0, KnownKept DEF Leading, LeaderPlaces, LeadingPlaces
<1>3. \A d \in Calls : key(d)' = key(d)
  BY DEF key, Leading
<1>4. FlightsAreLed'
  <2>1. ASSUME NEW d \in Calls, pc'[d] \in LeadingPlaces
        PROVE  Leads(d)'
    <3>1. CASE d = c
      BY <1>k, <1>1, <1>3, <3>1 DEF Leads
    <3>2. CASE d # c
      <4>1. Leads(d) /\ pc[d] # "idle"
        BY <2>1, <3>2 DEF Base, FlightsAreLed, Leading, Alone, LeadingPlaces
      <4>2. key(d) \in Keys /\ key(d) # k
        BY <1>0, <4>1, KeyKnown DEF Leads, Base
      <4> QED
        BY <1>1, <1>3, <4>1, <4>2 DEF Leads
    <3> QED
      BY <3>1, <3>2
  <2>2. ASSUME NEW j \in Keys, flight'[j] # Nil, NEW l, l = flight'[j].leader
        PROVE  req'[l] # Nil /\ key(l)' = j /\ pc'[l] \in LeaderPlaces
    <3>1. CASE j = k
      BY <1>k, <1>0, <1>1, <1>3, <2>2, <3>1 DEF Leading
    <3>2. CASE j # k
      BY <1>0, <1>1, <1>3, <2>2, <3>2, LeaderWorks DEF Leading, Alone
    <3> QED
      BY <3>1, <3>2
  <2> QED
    BY <2>1, <2>2 DEF FlightsAreLed, LeaderPlaces, LeadingPlaces
<1>5. \A d \in Calls : pc'[d] = "waitShared" <=> pc[d] = "waitShared"
  BY <1>0 DEF Leading, Alone, LeaderPlaces, LeadingPlaces
<1>6. \A d \in Calls : pc[d] = "waitShared" =>
         by[d] # c /\ key(d) \in Keys /\ (key(d) = k => pc[by[d]] \in After)
  BY <1>k, <1>0, KeyKnown DEF Base, Following, After
<1>7. Following'
  BY <1>0, <1>1, <1>3, <1>5, <1>6 DEF Base, TypeOK, Following, Leading, Alone, After
<1>8. Counted' = Counted
  BY <1>0, <1>1, <1>3, <1>5, <1>6 DEF Counted, Leading
<1>9. CountedFor(k)' = {} /\ \A j \in Keys : j # k => CountedFor(j)' = CountedFor(j)
  BY <1>1, <1>3, <1>5, <1>6 DEF CountedFor, Leading
<1>10. FollowerAccounting'
  <2>1. active' = Cardinality(Counted')
    BY <1>8, AccountingMeans DEF Base, Leading, Accounted
  <2>2. flight'[k].followers = Cardinality(CountedFor(k)')
    BY <1>1, <1>9, FS_EmptySet
  <2>3. ASSUME NEW j \in Keys, j # k, flight'[j] # Nil
        PROVE  flight'[j].followers = Cardinality(CountedFor(j)')
    BY <2>3, <1>1, <1>9, AccountingMeans DEF Base, Accounted
  <2>4. Accounted'
    BY <2>1, <2>2, <2>3 DEF Accounted
  <2> QED
    BY <2>4, AccountingMeans
<1> QED
  BY <1>2, <1>4, <1>7, <1>10

\* A call that joins: one more is counted, in the total and with the flight.
LEMMA BaseJoining ==
  ASSUME Base, NEW c \in Calls, Joining(c)
  PROVE  Known' /\ FlightsAreLed' /\ Following' /\ FollowerAccounting'
<1>k. PICK k \in Keys : k = key(c)
  BY KeyKnown DEF Joining, Base
<1>l. PICK l \in Calls : l = flight[k].leader
  BY <1>k, LeaderWorks DEF Joining
<1>0. k = key(c) /\ l = flight[k].leader /\ flight[k] # Nil /\ pc[c] \in {"localConfig", "remoteConfig"} /\ req[c] # Nil
      /\ l # c /\ req[l] # Nil /\ key(l) = k /\ pc[l] \in LeaderPlaces
  BY <1>k, <1>l, LeaderWorks DEF Joining, Base, Known, Leads
<1>1. /\ flight'[k] # Nil /\ flight'[k].leader = l /\ flight'[k].followers = flight[k].followers + 1
      /\ \A j \in Keys : j # k => flight'[j] = flight[j]
  <2>1. flight[k] \in Flights
    BY <1>0 DEF Base, TypeOK, Flights
  <2>2. flight' = [flight EXCEPT ![k] = [flight[k] EXCEPT !.followers = flight[k].followers + 1]]
    BY <1>0 DEF Joining, JoinProcess
  <2>3. flight'[k] = [leader |-> l, followers |-> flight[k].followers + 1]
    BY <1>0, <2>1, <2>2 DEF Base, TypeOK, Flights
  <2>4. flight'[k] \in Flights /\ Nil \notin Flights
    BY <1>0, <2>1, <2>3, ReadThroughAssumption DEF Flights
  <2> QED
    BY <1>0, <2>2, <2>3, <2>4 DEF Base, TypeOK
<1>2. pc'[c] = "waitShared" /\ by'[c] = l /\ active' = active + 1
  BY <1>0 DEF Joining, JoinProcess, Goto, Base, TypeOK
<1>3. Known'
  BY <1>0, <1>2, KnownKept DEF Joining
<1>4. \A d \in Calls : key(d)' = key(d)
  BY DEF key, Joining
<1>5. FlightsAreLed'
  <2>1. ASSUME NEW d \in Calls, pc'[d] \in LeadingPlaces
        PROVE  Leads(d)'
    <3>1. d # c /\ pc[d] # "idle" /\ Leads(d)
      BY <1>2, <2>1 DEF Base, FlightsAreLed, Joining, Alone, LeadingPlaces
    <3>2. key(d) \in Keys
      BY <3>1, KeyKnown DEF Base
    <3> QED
      BY <1>0, <1>1, <1>4, <3>1, <3>2 DEF Leads
  <2>2. ASSUME NEW j \in Keys, flight'[j] # Nil, NEW m, m = flight'[j].leader
        PROVE  req'[m] # Nil /\ key(m)' = j /\ pc'[m] \in LeaderPlaces
    <3>1. CASE j = k
      BY <1>0, <1>1, <1>4, <2>2, <3>1 DEF Joining, Alone
    <3>2. CASE j # k
      <4>1. flight[j] # Nil /\ m = flight[j].leader
        BY <1>1, <2>2, <3>2
      <4>2. m \in Calls /\ req[m] # Nil /\ key(m) = j /\ pc[m] \in LeaderPlaces
        BY <4>1, LeaderWorks
      <4>3. m # c
        BY <1>0, <3>2, <4>2
      <4> QED
        BY <1>4, <4>2, <4>3 DEF Joining, Alone
    <3> QED
      BY <3>1, <3>2
  <2> QED
    BY <2>1, <2>2 DEF FlightsAreLed, LeaderPlaces, LeadingPlaces
<1>6. \A d \in Calls : d # c => by'[d] = by[d] /\ pc'[d] = pc[d]
  BY DEF Joining, Alone
<1>7. \A d \in Calls : pc[d] # "idle" => key(d) \in Keys
  BY KeyKnown DEF Base
<1>8. Following'
  <2>1. ASSUME NEW d \in Calls, d # c, pc[d] = "waitShared"
        PROVE  /\ req'[by'[d]] # Nil /\ key(by[d])' = key(d)'
               /\ \/ flight'[key(d)] # Nil /\ flight'[key(d)].leader = by[d]
                  \/ pc'[by'[d]] \in After
    <3>1. /\ by[d] \in Calls /\ by'[d] = by[d] /\ key(d) \in Keys
          /\ req[by[d]] # Nil /\ key(by[d]) = key(d)
      BY <1>6, <1>7, <2>1 DEF Base, TypeOK, Following
    <3>2. CASE flight[key(d)] # Nil /\ flight[key(d)].leader = by[d]
      BY <1>0, <1>1, <1>4, <3>1, <3>2 DEF Joining
    <3>3. CASE pc[by[d]] \in After
      BY <1>0, <1>4, <1>6, <3>1, <3>3 DEF Joining, After
    <3> QED
      BY <2>1, <3>2, <3>3 DEF Base, Following
  <2>2. /\ req'[by'[c]] # Nil /\ key(by[c])' = key(c)'
        /\ flight'[key(c)] # Nil /\ flight'[key(c)].leader = by'[c]
    BY <1>0, <1>1, <1>2, <1>4 DEF Joining, key
  <2> QED
    BY <1>2, <1>4, <1>6, <2>1, <2>2 DEF Following
<1>9. Counted' = Counted \cup {c} /\ c \notin Counted
  BY <1>0, <1>1, <1>2, <1>4, <1>6, <1>7 DEF Counted
<1>10. CountedFor(k)' = CountedFor(k) \cup {c} /\ c \notin CountedFor(k)
  BY <1>0, <1>1, <1>2, <1>6 DEF CountedFor
<1>11. ASSUME NEW j \in Keys, j # k, flight[j] # Nil
       PROVE  CountedFor(j)' = CountedFor(j)
  <2>1. flight[j].leader # l
    BY <1>0, <1>11, LeaderWorks
  <2> QED
    BY <1>0, <1>1, <1>2, <1>6, <1>11, <2>1 DEF CountedFor
<1>12. Accounted'
  <2>1. active' = Cardinality(Counted')
    BY <1>2, <1>9, CountedFinite, FS_AddElement, AccountingMeans DEF Base, Accounted
  <2>2. flight'[k].followers = Cardinality(CountedFor(k)')
    <3>1. Cardinality(CountedFor(k) \cup {c}) = Cardinality(CountedFor(k)) + 1
      BY <1>10, CountedFinite, FS_AddElement
    <3> QED
      BY <1>0, <1>1, <1>10, <3>1, AccountingMeans DEF Base, Accounted
  <2>3. ASSUME NEW j \in Keys, j # k, flight'[j] # Nil
        PROVE  flight'[j].followers = Cardinality(CountedFor(j)')
    BY <2>3, <1>1, <1>11, AccountingMeans DEF Base, Accounted
  <2> QED
    BY <2>1, <2>2, <2>3 DEF Accounted
<1> QED
  BY <1>3, <1>5, <1>8, <1>12, AccountingMeans

\* A leader that clears its flight: those counted with it are counted no more.
LEMMA BaseClearing ==
  ASSUME Base, NEW c \in Calls, Clearing(c)
  PROVE  Known' /\ FlightsAreLed' /\ Following' /\ FollowerAccounting'
<1>k. PICK k \in Keys : k = key(c)
  BY KeyKnown DEF Clearing, Base
<1>0. k = key(c) /\ flight[k] # Nil /\ flight[k].leader = c /\ pc[c] = "settled" /\ req[c] # Nil
  BY <1>k DEF Clearing, Base, Known, FlightsAreLed, Leads
<1>1. flight'[k] = Nil /\ \A j \in Keys : j # k => flight'[j] = flight[j]
  BY <1>0 DEF Clearing, Base, TypeOK
<1>2. pc'[c] \in {"chained", "done"} /\ \A d \in Calls : d # c => pc'[d] = pc[d]
  BY DEF Clearing, Alone
<1>3. Known'
  BY <1>0, <1>2, KnownKept DEF Clearing
<1>4. \A d \in Calls : key(d)' = key(d) /\ by'[d] = by[d]
  BY DEF key, Clearing
<1>5. \A d \in Calls : pc[d] # "idle" => key(d) \in Keys
  BY KeyKnown DEF Base
<1>6. FlightsAreLed'
  <2>1. ASSUME NEW d \in Calls, pc'[d] \in LeadingPlaces
        PROVE  Leads(d)'
    <3>1. d # c /\ pc[d] # "idle" /\ Leads(d)
      BY <1>2, <2>1 DEF Base, FlightsAreLed, LeadingPlaces
    <3> QED
      BY <1>0, <1>1, <1>4, <1>5, <3>1 DEF Leads
  <2>2. ASSUME NEW j \in Keys, flight'[j] # Nil, NEW m, m = flight'[j].leader
        PROVE  req'[m] # Nil /\ key(m)' = j /\ pc'[m] \in LeaderPlaces
    <3>1. j # k /\ flight[j] # Nil /\ m = flight[j].leader
      BY <1>1, <2>2
    <3>2. m \in Calls /\ req[m] # Nil /\ key(m) = j /\ pc[m] \in LeaderPlaces
      BY <3>1, LeaderWorks
    <3> QED
      BY <1>0, <1>2, <1>4, <3>1, <3>2 DEF Clearing
  <2> QED
    BY <2>1, <2>2 DEF FlightsAreLed, LeaderPlaces, LeadingPlaces
<1>7. Following'
  BY SMTT(30), <1>0, <1>1, <1>2, <1>4, <1>5 DEF Base, TypeOK, Following, Clearing, After
<1>8. Counted' = Counted \ CountedFor(k) /\ Counted \cap CountedFor(k) = CountedFor(k)
  <2>1. CountedFor(k) = {d \in Counted : key(d) = k}
    BY <1>0, CountedByKey
  <2> QED
    BY <1>0, <1>1, <1>2, <1>4, <1>5, <2>1 DEF Counted
<1>9. ASSUME NEW j \in Keys, j # k
      PROVE  CountedFor(j)' = CountedFor(j)
  BY <1>0, <1>1, <1>2, <1>4, <1>9 DEF CountedFor
<1>10. Accounted'
  <2>1. active' = active - flight[k].followers
    BY <1>0 DEF Clearing, ActiveAfterClear
  <2>2. Cardinality(Counted') = Cardinality(Counted) - Cardinality(CountedFor(k))
    <3>1. Cardinality(Counted \ CountedFor(k))
            = Cardinality(Counted) - Cardinality(Counted \cap CountedFor(k))
      BY CountedFinite, FS_Difference
    <3> QED
      BY <1>8, <3>1
  <2>3. active' = Cardinality(Counted')
    BY <1>0, <2>1, <2>2, AccountingMeans DEF Base, Accounted
  <2>4. ASSUME NEW j \in Keys, flight'[j] # Nil
        PROVE  flight'[j].followers = Cardinality(CountedFor(j)')
    BY <2>4, <1>1, <1>9, AccountingMeans DEF Base, Accounted
  <2> QED
    BY <2>3, <2>4 DEF Accounted
<1> QED
  BY <1>3, <1>6, <1>7, <1>10, AccountingMeans

\* Initially nobody leads or waits.
LEMMA BaseInit == Init => Base
<1> SUFFICES ASSUME Init PROVE Base
  OBVIOUS
<1>1. TypeOK
  BY ReadThroughAssumption DEF Init, TypeOK, Places, NoPlan, Store!StoreInit, Store!StoreTypeOK
<1>2. Known /\ FlightsAreLed /\ Following
  BY DEF Init, Known, FlightsAreLed, Following
<1>3. Counted = {} /\ \A k \in Keys : flight[k] = Nil
  BY DEF Init, Counted
<1>4. FollowerAccounting
  BY <1>3, FS_EmptySet, AccountingMeans DEF Init, Accounted
<1> QED
  BY <1>1, <1>2, <1>4 DEF Base

\* Base is inductive.
LEMMA BaseStep == Base /\ [Next]_vars => Base'
<1> SUFFICES ASSUME Base, [Next]_vars PROVE Base'
  OBVIOUS
<1>1. CASE Next
  <2>1. TypeOK'
    BY <1>1, TypeStep, FollowersFitIn DEF Base, ChainsLead, FlightsAreLed
  <2>2. Still \/ \E c \in Calls : GoesOn(c) \/ Leading(c) \/ Joining(c) \/ Clearing(c) \/ Resuming(c)
    BY <1>1, StepKinds DEF Base
  <2>3. Known' /\ FlightsAreLed' /\ Following' /\ FollowerAccounting'
    BY <2>2, BaseStill, BaseQuiet, BaseLeading, BaseJoining, BaseClearing, BaseResuming
  <2> QED
    BY <2>1, <2>3 DEF Base
<1>2. CASE UNCHANGED vars
  <2>1. TypeOK' /\ Still
    BY <1>2 DEF Base, TypeOK, Store!StoreTypeOK, Still, vars, callVars, shared, scopeVars,
       redisVars
  <2> QED
    BY <2>1, BaseStill DEF Base
<1> QED
  BY <1>1, <1>2

\* The invariant the others rest on.
THEOREM BaseHolds == Spec => []Base
  BY BaseInit, BaseStep, PTL DEF Spec

\* Every variable stays in its type; in particular activeProcessFollowers never
\* becomes negative.
THEOREM TypeCorrect == Spec => []TypeOK
  BY BaseHolds, PTL DEF Base

\* Flights have a leader at work and are never left behind
\* (dialcache.ts:715-756).
THEOREM FlightsHold == Spec => []FlightsAreLed
  BY BaseHolds, PTL DEF Base

\* The counts getCoalescingState reports are exact (dialcache.ts:721-722,
\* 748-753).
THEOREM CountHolds == Spec => []FollowerAccounting
  BY BaseHolds, PTL DEF Base

-----------------------------------------------------------------------------
\* How far a call is with its loader, and what a call that was never made has.
Phases ==
  \A c \in Calls :
    /\ pc[c] \in {"idle", "config", "localConfig", "remoteConfig", "read", "readBack",
                 "waitShared", "waitMemo"} => load[c] = "none"
    /\ pc[c] \in {"load", "raw"} => load[c] = "running"
    /\ pc[c] \in {"write", "writeBack"} => load[c] = "resolved"
    /\ pc[c] \in {"idle", "raw", "config"} => memoRole[c] = "none"
    /\ pc[c] \in {"chained", "memoSettled"} => memoRole[c] = "leader"
    /\ pc[c] = "idle" => got[c] = Nil /\ res[c] = Nil
    /\ pc[c] = "writeBack" => got[c] \in {"stored", "refused", "error"}

\* One obligation per action.
LEMMA PhasesStep ==
  ASSUME Base, Phases, Next
  PROVE  Phases'
<1>pc. pc \in [Calls -> Places]
  BY DEF Base, TypeOK
<1>load. load \in [Calls -> {"none", "running", "resolved", "rejected", "timedOut"}]
  BY DEF Base, TypeOK
<1>got. got \in [Calls -> Calls \cup {Nil, "stored", "refused", "error"}]
  BY DEF Base, TypeOK
<1>res. res \in [Calls -> Calls \cup {Nil, Fail}]
  BY DEF Base, TypeOK
<1>role. memoRole \in [Calls -> {"none", "leader", "joined"}]
  BY DEF Base, TypeOK
<1>1. ASSUME NEW c \in Calls, NEW k \in Keys, NEW s \in Scopes \cup {Outside}, Invoke(c, k, s)
      PROVE  Phases'
  BY <1>1, <1>pc, <1>load, <1>got, <1>res, <1>role
  DEF Invoke, Goto, StartLoad, Enabled, Phases
<1>2. ASSUME NEW c \in Calls, Bypass(c)
      PROVE  Phases'
  BY <1>2, <1>pc, <1>load, <1>got, <1>res, <1>role
  DEF Bypass, Goto, StartLoad, Phases
<1>3. ASSUME NEW c \in Calls, SkipMemo(c)
      PROVE  Phases'
  BY <1>3, <1>pc, <1>load, <1>got, <1>res, <1>role
  DEF SkipMemo, Goto, Phases
<1>4. ASSUME NEW c \in Calls, EnterMemo(c)
      PROVE  Phases'
  BY <1>4, <1>pc, <1>load, <1>got, <1>res, <1>role
  DEF EnterMemo, Goto, Enabled, Phases
<1>5. ASSUME NEW c \in Calls, LocalOn(c)
      PROVE  Phases'
  BY <1>5, <1>pc, <1>load, <1>got, <1>res, <1>role
  DEF LocalOn, JoinProcess, NewFlight, SettleFlight, StartLoad, Goto, Phases
<1>6. ASSUME NEW c \in Calls, LocalOff(c)
      PROVE  Phases'
  BY <1>6, <1>pc, <1>load, <1>got, <1>res, <1>role
  DEF LocalOff, Goto, StartLoad, Phases
<1>7. ASSUME NEW c \in Calls, RemoteOn(c)
      PROVE  Phases'
  BY <1>7, <1>pc, <1>load, <1>got, <1>res, <1>role
  DEF RemoteOn, JoinProcess, NewFlight, Goto, Phases
<1>8. ASSUME NEW c \in Calls, NEW why \in {"off", "configError"}, RemoteOff(c, why)
      PROVE  Phases'
  BY <1>8, <1>pc, <1>load, <1>got, <1>res, <1>role
  DEF RemoteOff, Goto, StartLoad, Phases
<1>9. ASSUME NEW c \in Calls, ReadExecuted(c)
      PROVE  Phases'
  BY <1>9, <1>pc, <1>load, <1>got, <1>res, <1>role
  DEF ReadExecuted, Goto, Phases
<1>10. ASSUME NEW c \in Calls, ReadHit(c)
      PROVE  Phases'
  BY <1>10, <1>pc, <1>load, <1>got, <1>res, <1>role
  DEF ReadHit, FillLocal, SettleFlight, Goto, Phases
<1>11. ASSUME NEW c \in Calls, ReadMissed(c)
      PROVE  Phases'
  BY <1>11, <1>pc, <1>load, <1>got, <1>res, <1>role
  DEF ReadMissed, Goto, StartLoad, Phases
<1>12. ASSUME NEW c \in Calls, Resolved(c)
      PROVE  Phases'
  BY <1>12, <1>pc, <1>load, <1>got, <1>res, <1>role
  DEF Resolved, SettleFlight, FillLocal, AfterShared, Goto, Phases
<1>13. ASSUME NEW c \in Calls, NEW how \in {"rejected", "timedOut"}, LoadFailed(c, how)
      PROVE  Phases'
  BY <1>13, <1>pc, <1>load, <1>got, <1>res, <1>role
  DEF LoadFailed, SettleFlight, AfterShared, Goto, Phases
<1>14. ASSUME NEW c \in Calls, NEW how \in {"resolved", "rejected"}, RawSettled(c, how)
      PROVE  Phases'
  BY <1>14, <1>pc, <1>load, <1>got, <1>res, <1>role
  DEF RawSettled, Goto, Phases
<1>15. ASSUME NEW c \in Calls, WriteExecuted(c)
      PROVE  Phases'
  BY <1>15, <1>pc, <1>load, <1>got, <1>res, <1>role
  DEF WriteExecuted, Goto, Phases
<1>16. ASSUME NEW c \in Calls, WriteFailed(c)
      PROVE  Phases'
  BY <1>16, <1>pc, <1>load, <1>got, <1>res, <1>role
  DEF WriteFailed, Goto, Phases
<1>17. ASSUME NEW c \in Calls, LateWrite(c)
      PROVE  Phases'
  BY <1>17 DEF LateWrite, Phases, callVars
<1>18. ASSUME NEW c \in Calls, Written(c)
      PROVE  Phases'
  BY <1>18, <1>pc, <1>load, <1>got, <1>res, <1>role
  DEF Written, FillLocal, SettleFlight, Goto, Phases
<1>19. ASSUME NEW c \in Calls, ClearFlight(c)
      PROVE  Phases'
  BY <1>19, <1>pc, <1>load, <1>got, <1>res, <1>role
  DEF ClearFlight, AfterShared, Goto, Phases
<1>20. ASSUME NEW c \in Calls, ResumeShared(c)
      PROVE  Phases'
  BY <1>20, <1>pc, <1>load, <1>got, <1>res, <1>role
  DEF ResumeShared, AfterShared, Goto, Phases
<1>21. ASSUME NEW c \in Calls, Memoize(c)
      PROVE  Phases'
  BY <1>21, <1>pc, <1>load, <1>got, <1>res, <1>role
  DEF Memoize, Goto, Phases
<1>22. ASSUME NEW c \in Calls, ClearMemoFlight(c)
      PROVE  Phases'
  BY <1>22, <1>pc, <1>load, <1>got, <1>res, <1>role
  DEF ClearMemoFlight, Goto, Phases
<1>23. ASSUME NEW c \in Calls, ResumeMemo(c)
      PROVE  Phases'
  BY <1>23, <1>pc, <1>load, <1>got, <1>res, <1>role
  DEF ResumeMemo, Goto, Phases
<1>24. ASSUME NEW s \in Scopes, CloseScope(s)
      PROVE  Phases'
  BY <1>24 DEF CloseScope, Phases, callVars
<1>25. ASSUME NEW k \in Keys, DropLocal(k)
      PROVE  Phases'
  BY <1>25 DEF DropLocal, Phases, callVars
<1>26. ASSUME InvalidateRemote
      PROVE  Phases'
  BY <1>26 DEF InvalidateRemote, Phases, callVars
<1>27. ASSUME RedisElapse
      PROVE  Phases'
  BY <1>27 DEF RedisElapse, Phases, callVars
<1> QED
  BY <1>1, <1>2, <1>3, <1>4, <1>5, <1>6, <1>7, <1>8, <1>9, <1>10, <1>11, <1>12, <1>13,
     <1>14, <1>15, <1>16, <1>17, <1>18, <1>19, <1>20, <1>21, <1>22, <1>23, <1>24, <1>25,
     <1>26, <1>27
  DEF Next, Step, Loader

-----------------------------------------------------------------------------
\* Which actions change what.
LEMMA WhoSetsReq ==
  ASSUME Next
  PROVE  \/ UNCHANGED req
         \/ \E c \in Calls, k \in Keys, s \in Scopes \cup {Outside} : Invoke(c, k, s)
  BY ZenonT(40) DEF Next, Step, Loader, Bypass, SkipMemo, EnterMemo, LocalOn, LocalOff,
     RemoteOn,
     RemoteOff, ReadExecuted, ReadHit, ReadMissed, Resolved, LoadFailed, RawSettled,
     WriteExecuted, WriteFailed, LateWrite, Written, ClearFlight, ResumeShared, Memoize,
     ClearMemoFlight, ResumeMemo, CloseScope, DropLocal, InvalidateRemote, RedisElapse,
     callVars

LEMMA WhoSetsRole ==
  ASSUME Next
  PROVE  \/ UNCHANGED memoRole
         \/ \E c \in Calls : EnterMemo(c)
  BY ZenonT(40) DEF Next, Step, Loader, Invoke, Bypass, SkipMemo, LocalOn, LocalOff, RemoteOn,
     RemoteOff, ReadExecuted, ReadHit, ReadMissed, Resolved, LoadFailed, RawSettled,
     WriteExecuted, WriteFailed, LateWrite, Written, ClearFlight, ResumeShared, Memoize,
     ClearMemoFlight, ResumeMemo, CloseScope, DropLocal, InvalidateRemote, RedisElapse,
     callVars

LEMMA WhoSetsBy ==
  ASSUME Next
  PROVE  \/ UNCHANGED by
         \/ \E c \in Calls : EnterMemo(c) \/ LocalOn(c) \/ RemoteOn(c)
  BY ZenonT(40) DEF Next, Step, Loader, Invoke, Bypass, SkipMemo, LocalOff, RemoteOff,
     ReadExecuted, ReadHit, ReadMissed, Resolved, LoadFailed, RawSettled, WriteExecuted,
     WriteFailed, LateWrite, Written, ClearFlight, ResumeShared, Memoize,
     ClearMemoFlight, ResumeMemo, CloseScope, DropLocal, InvalidateRemote, RedisElapse,
     callVars

LEMMA WhoSetsPlan ==
  ASSUME Next
  PROVE  \/ UNCHANGED plan
         \/ \E c \in Calls : LocalOn(c) \/ ReadMissed(c)
              \/ \E why \in {"off", "configError"} : RemoteOff(c, why)
  BY ZenonT(40) DEF Next, Step, Loader, Invoke, Bypass, SkipMemo, EnterMemo, LocalOff, RemoteOn,
     ReadExecuted, ReadHit, Resolved, LoadFailed, RawSettled, WriteExecuted,
     WriteFailed, LateWrite, Written, ClearFlight, ResumeShared, Memoize,
     ClearMemoFlight, ResumeMemo, CloseScope, DropLocal, InvalidateRemote, RedisElapse,
     callVars

LEMMA WhoSetsGot ==
  ASSUME Next
  PROVE  \/ UNCHANGED got
         \/ \E c \in Calls : ReadExecuted(c) \/ ReadHit(c) \/ ReadMissed(c) \/ WriteExecuted(c)
              \/ WriteFailed(c) \/ Written(c)
  BY ZenonT(40) DEF Next, Step, Loader, Invoke, Bypass, SkipMemo, EnterMemo, LocalOn, LocalOff,
     RemoteOn, RemoteOff, Resolved, LoadFailed, RawSettled, LateWrite, ClearFlight,
     ResumeShared, Memoize, ClearMemoFlight, ResumeMemo, CloseScope, DropLocal,
     InvalidateRemote, RedisElapse, callVars

LEMMA WhoSetsLoad ==
  ASSUME Next
  PROVE  \/ UNCHANGED load
         \/ \E c \in Calls, k \in Keys, s \in Scopes \cup {Outside} : Invoke(c, k, s)
         \/ \E c \in Calls :
              \/ Bypass(c) \/ LocalOn(c) \/ LocalOff(c) \/ ReadMissed(c) \/ Resolved(c)
              \/ \E why \in {"off", "configError"} : RemoteOff(c, why)
              \/ \E how \in {"rejected", "timedOut"} : LoadFailed(c, how)
              \/ \E how \in {"resolved", "rejected"} : RawSettled(c, how)
  BY ZenonT(40) DEF Next, Step, Loader, SkipMemo, EnterMemo, RemoteOn, ReadExecuted, ReadHit,
     WriteExecuted, WriteFailed, LateWrite, Written, ClearFlight, ResumeShared, Memoize,
     ClearMemoFlight, ResumeMemo, CloseScope, DropLocal, InvalidateRemote, RedisElapse,
     callVars

LEMMA WhoSetsRes ==
  ASSUME Next
  PROVE  \/ UNCHANGED res
         \/ \E c \in Calls :
              \/ EnterMemo(c) \/ LocalOn(c) \/ ReadHit(c) \/ Resolved(c) \/ Written(c)
              \/ ResumeShared(c) \/ ResumeMemo(c)
              \/ \E how \in {"rejected", "timedOut"} : LoadFailed(c, how)
              \/ \E how \in {"resolved", "rejected"} : RawSettled(c, how)
  BY ZenonT(40) DEF Next, Step, Loader, Invoke, Bypass, SkipMemo, LocalOff, RemoteOn, RemoteOff,
     ReadExecuted, ReadMissed, WriteExecuted, WriteFailed, LateWrite, ClearFlight,
     Memoize, ClearMemoFlight, CloseScope, DropLocal, InvalidateRemote, RedisElapse,
     callVars

LEMMA WhoSetsLocal ==
  ASSUME Next
  PROVE  \/ UNCHANGED local
         \/ \E c \in Calls : ReadHit(c) \/ Resolved(c) \/ Written(c)
         \/ \E k \in Keys : DropLocal(k)
  BY ZenonT(40) DEF Next, Step, Loader, Invoke, Bypass, SkipMemo, EnterMemo, LocalOn, LocalOff,
     RemoteOn, RemoteOff, ReadExecuted, ReadMissed, LoadFailed, RawSettled,
     WriteExecuted, WriteFailed, LateWrite, ClearFlight, ResumeShared, Memoize,
     ClearMemoFlight, ResumeMemo, CloseScope, InvalidateRemote, RedisElapse, shared

LEMMA WhoSetsOpen ==
  ASSUME Next
  PROVE  \/ UNCHANGED open
         \/ \E s \in Scopes : CloseScope(s)
  BY ZenonT(40) DEF Next, Step, Loader, Invoke, Bypass, SkipMemo, EnterMemo, LocalOn, LocalOff,
     RemoteOn, RemoteOff, ReadExecuted, ReadHit, ReadMissed, Resolved, LoadFailed,
     RawSettled, WriteExecuted, WriteFailed, LateWrite, Written, ClearFlight,
     ResumeShared, Memoize, ClearMemoFlight, ResumeMemo, DropLocal, InvalidateRemote,
     RedisElapse, scopeVars

LEMMA WhoSetsMemo ==
  ASSUME Next
  PROVE  \/ UNCHANGED memo
         \/ \E c \in Calls : Memoize(c)
         \/ \E s \in Scopes : CloseScope(s)
  BY ZenonT(40) DEF Next, Step, Loader, Invoke, Bypass, SkipMemo, EnterMemo, LocalOn, LocalOff,
     RemoteOn, RemoteOff, ReadExecuted, ReadHit, ReadMissed, Resolved, LoadFailed,
     RawSettled, WriteExecuted, WriteFailed, LateWrite, Written, ClearFlight,
     ResumeShared, ClearMemoFlight, ResumeMemo, DropLocal, InvalidateRemote,
     RedisElapse, scopeVars

LEMMA WhoSetsMemoFlight ==
  ASSUME Next
  PROVE  \/ UNCHANGED memoFlight
         \/ \E c \in Calls : EnterMemo(c) \/ ClearMemoFlight(c)
         \/ \E s \in Scopes : CloseScope(s)
  BY ZenonT(40) DEF Next, Step, Loader, Invoke, Bypass, SkipMemo, LocalOn, LocalOff, RemoteOn,
     RemoteOff, ReadExecuted, ReadHit, ReadMissed, Resolved, LoadFailed, RawSettled,
     WriteExecuted, WriteFailed, LateWrite, Written, ClearFlight, ResumeShared, Memoize,
     ResumeMemo, DropLocal, InvalidateRemote, RedisElapse, scopeVars

LEMMA WhoSetsContent ==
  ASSUME Next
  PROVE  \/ UNCHANGED content
         \/ \E c \in Calls : WriteExecuted(c) \/ LateWrite(c)
         \/ InvalidateRemote
         \/ RedisElapse
  BY ZenonT(40) DEF Next, Step, Loader, Invoke, Bypass, SkipMemo, EnterMemo, LocalOn, LocalOff,
     RemoteOn, RemoteOff, ReadExecuted, ReadHit, ReadMissed, Resolved, LoadFailed,
     RawSettled, WriteFailed, Written, ClearFlight, ResumeShared, Memoize,
     ClearMemoFlight, ResumeMemo, CloseScope, DropLocal, redisVars

LEMMA WhoSetsLate ==
  ASSUME Next
  PROVE  \/ UNCHANGED late
         \/ \E c \in Calls : WriteFailed(c) \/ LateWrite(c)
  BY ZenonT(40) DEF Next, Step, Loader, Invoke, Bypass, SkipMemo, EnterMemo, LocalOn, LocalOff,
     RemoteOn, RemoteOff, ReadExecuted, ReadHit, ReadMissed, Resolved, LoadFailed,
     RawSettled, WriteExecuted, Written, ClearFlight, ResumeShared, Memoize,
     ClearMemoFlight, ResumeMemo, CloseScope, DropLocal, InvalidateRemote, RedisElapse,
     redisVars

LEMMA WhoSetsAccepted ==
  ASSUME Next
  PROVE  \/ UNCHANGED accepted
         \/ \E c \in Calls : WriteExecuted(c) \/ LateWrite(c)
  BY ZenonT(40) DEF Next, Step, Loader, Invoke, Bypass, SkipMemo, EnterMemo, LocalOn, LocalOff,
     RemoteOn, RemoteOff, ReadExecuted, ReadHit, ReadMissed, Resolved, LoadFailed,
     RawSettled, WriteFailed, Written, ClearFlight, ResumeShared, Memoize,
     ClearMemoFlight, ResumeMemo, CloseScope, DropLocal, InvalidateRemote, RedisElapse,
     redisVars

-----------------------------------------------------------------------------
\* A closed request gets nothing: only an open one is entered or memoized in.
LEMMA ClosedStep ==
  ASSUME Base, ClosedScopeStaysEmpty, Next
  PROVE  ClosedScopeStaysEmpty'
<1>memo. memo \in [Scopes -> [Keys -> Calls \cup {Nil}]]
         /\ memoFlight \in [Scopes -> [Keys -> Calls \cup {Nil}]]
  BY DEF Base, TypeOK
<1>1. SUFFICES ASSUME NEW s \in Scopes \ open'
               PROVE  memo'[s] = NoEntries /\ memoFlight'[s] = NoEntries
  BY DEF ClosedScopeStaysEmpty
<1>2. s \notin open => memo[s] = NoEntries /\ memoFlight[s] = NoEntries
  BY <1>1 DEF ClosedScopeStaysEmpty
<1>3. CASE \E t \in Scopes : CloseScope(t)
  BY <1>1, <1>2, <1>3, <1>memo DEF CloseScope
<1>4. CASE UNCHANGED open
  <2>1. memo'[s] = memo[s]
    BY <1>1, <1>4, <1>memo, WhoSetsMemo DEF Memoize, Memoizes, CloseScope
  <2>2. memoFlight'[s] = memoFlight[s]
    <3>1. CASE \E c \in Calls : EnterMemo(c)
      BY <1>1, <1>4, <3>1, <1>memo DEF EnterMemo, Enabled
    <3>2. CASE \E c \in Calls : ClearMemoFlight(c)
      <4>1. PICK c \in Calls : ClearMemoFlight(c)
        BY <3>2
      <4>2. key(c) \in Keys
        BY <4>1, KeyKnown DEF ClearMemoFlight, Base
      <4>3. memoFlight[s][key(c)] # c
        BY <1>1, <1>2, <1>4, <4>2, ReadThroughAssumption DEF NoEntries
      <4> QED
        BY <1>memo, <4>1, <4>3 DEF ClearMemoFlight
    <3> QED
      BY <1>1, <1>4, <3>1, <3>2, WhoSetsMemoFlight DEF CloseScope
  <2> QED
    BY <1>1, <1>2, <1>4, <2>1, <2>2
<1> QED
  BY <1>3, <1>4, WhoSetsOpen

\* What outlives its request finds nothing there and leaves nothing there: a
\* closed scope's memo and flights stay empty (RequestLocalCache.close,
\* context.ts).
THEOREM ClosedStaysEmpty == Spec => []ClosedScopeStaysEmpty
<1>1. Init => ClosedScopeStaysEmpty
  BY DEF Init, ClosedScopeStaysEmpty
<1>2. Base /\ ClosedScopeStaysEmpty /\ [Next]_vars => ClosedScopeStaysEmpty'
  BY ClosedStep DEF vars, scopeVars, ClosedScopeStaysEmpty, NoEntries
<1> QED
  BY <1>1, <1>2, BaseHolds, PTL DEF Spec

-----------------------------------------------------------------------------
\* What has been loaded in time for a key.
TimelyFor(k) == {v \in Calls : load[v] = "resolved" /\ req[v].key = k}

\* What a loader has returned in time it has returned for good.
LEMMA LoadedStays ==
  ASSUME Base, Phases, Next
  PROVE  \A v \in Calls : load[v] = "resolved" => load'[v] = "resolved" /\ req'[v] = req[v]
<1>load. load \in [Calls -> {"none", "running", "resolved", "rejected", "timedOut"}]
  BY DEF Base, TypeOK
<1>req. req \in [Calls -> [key : Keys, scope : Scopes \cup {Outside}] \cup {Nil}]
  BY DEF Base, TypeOK
<1>1. \A v \in Calls : load[v] = "resolved" => load'[v] = "resolved"
  BY <1>load, WhoSetsLoad
  DEF Phases, Invoke, Bypass, LocalOn, LocalOff, ReadMissed, Resolved, RemoteOff, LoadFailed,
      RawSettled, StartLoad
<1>2. \A v \in Calls : load[v] = "resolved" => req'[v] = req[v]
  BY <1>req, WhoSetsReq DEF Phases, Invoke
<1> QED
  BY <1>1, <1>2

\* What is timely for a key stays so.
LEMMA TimelyGrows ==
  ASSUME Base, Phases, Next, NEW k
  PROVE  TimelyFor(k) \subseteq TimelyFor(k)'
  BY LoadedStays DEF TimelyFor

\* A call keeps its key and scope once made.
LEMMA KeyStays ==
  ASSUME Base, Next, NEW c \in Calls, pc[c] # "idle"
  PROVE  req'[c] = req[c] /\ key(c)' = key(c) /\ scope(c)' = scope(c) /\ pc'[c] # "idle"
<1>req. req \in [Calls -> [key : Keys, scope : Scopes \cup {Outside}] \cup {Nil}]
  BY DEF Base, TypeOK
<1>1. req'[c] = req[c]
  BY <1>req, WhoSetsReq DEF Invoke
<1>2. pc'[c] # "idle"
  BY <1>1, BaseStep DEF Base, Known
<1> QED
  BY <1>1, <1>2 DEF key, scope

\* A call starts to wait for a request-local flight by finding one.
LEMMA WhoWaitsForMemo ==
  ASSUME pc \in [Calls -> Places], by \in [Calls -> Calls], Next, NEW c \in Calls,
         pc'[c] = "waitMemo", pc[c] # "waitMemo"
  PROVE  EnterMemo(c) /\ memoFlight[scope(c)][key(c)] # Nil /\ by'[c] = memoFlight[scope(c)][key(c)]
<1>1. PICK d \in Calls : EnterMemo(d)
  BY ZenonT(40) DEF Next, Step, Loader, Invoke, Bypass, SkipMemo, LocalOn, LocalOff,
      RemoteOn, RemoteOff, ReadExecuted, ReadHit, ReadMissed, Resolved, LoadFailed,
      RawSettled, WriteExecuted, WriteFailed, LateWrite, Written, ClearFlight,
      ResumeShared, Memoize, ClearMemoFlight, ResumeMemo, CloseScope, DropLocal,
      InvalidateRemote, RedisElapse, AfterShared, Goto, JoinProcess, SettleFlight,
      StartLoad, callVars, Places
<1> QED
  BY <1>1 DEF EnterMemo, Goto

\* Request-local flights are led by calls of their request and key.
MemoKeyed ==
  /\ \A s \in Scopes, k \in Keys : memoFlight[s][k] # Nil =>
       LET d == memoFlight[s][k] IN
       /\ req[d] = [key |-> k, scope |-> s] /\ memoRole[d] = "leader" /\ pc[d] # "idle"
  /\ \A c \in Calls : pc[c] = "waitMemo" =>
       req[by[c]] = req[c] /\ memoRole[by[c]] = "leader" /\ pc[by[c]] # "idle"

\* A call that takes part in a request-local flight keeps its part.
LEMMA RoleStays ==
  ASSUME Base, Phases, Next, NEW c \in Calls, memoRole[c] # "none"
  PROVE  memoRole'[c] = memoRole[c] /\ req'[c] = req[c] /\ pc'[c] # "idle"
<1>role. memoRole \in [Calls -> {"none", "leader", "joined"}]
  BY DEF Base, TypeOK
<1>1. memoRole'[c] = memoRole[c]
  BY <1>role, WhoSetsRole DEF Phases, EnterMemo
<1>2. pc[c] # "idle"
  BY DEF Phases
<1> QED
  BY <1>1, <1>2, KeyStays

\* Who is registered, or waited for, in a request is a call of that request and
\* key.
LEMMA MemoKeyedStep ==
  ASSUME Base, Phases, MemoKeyed, Next
  PROVE  MemoKeyed'
<1>types. /\ pc \in [Calls -> Places] /\ by \in [Calls -> Calls]
          /\ memoRole \in [Calls -> {"none", "leader", "joined"}]
          /\ memoFlight \in [Scopes -> [Keys -> Calls \cup {Nil}]]
  BY DEF Base, TypeOK
<1>1. ASSUME NEW s \in Scopes, NEW k \in Keys, memoFlight'[s][k] # Nil, NEW d,
             d = memoFlight'[s][k]
      PROVE  req'[d] = [key |-> k, scope |-> s] /\ memoRole'[d] = "leader" /\ pc'[d] # "idle"
  <2>1. CASE d = memoFlight[s][k]
    <3>1. d \in Calls /\ req[d] = [key |-> k, scope |-> s] /\ memoRole[d] = "leader"
      BY <1>1, <2>1, <1>types DEF MemoKeyed
    <3> QED
      BY <3>1, RoleStays
  <2>2. CASE d # memoFlight[s][k]
    <3>a. /\ \A t \in Scopes : ~ CloseScope(t)
          /\ \A c \in Calls : ~ ClearMemoFlight(c)
      <4>1. ASSUME NEW t \in Scopes, CloseScope(t)
            PROVE  memoFlight'[s][k] \in {memoFlight[s][k], Nil}
        BY <1>1, <4>1, <1>types DEF CloseScope, NoEntries
      <4>2. ASSUME NEW c \in Calls, ClearMemoFlight(c)
            PROVE  memoFlight'[s][k] \in {memoFlight[s][k], Nil}
        BY <1>1, <4>2, <1>types DEF ClearMemoFlight
      <4> QED
        BY <1>1, <2>2, <4>1, <4>2
    <3>b. PICK c \in Calls : EnterMemo(c)
      BY <1>1, <2>2, <3>a, <1>types, WhoSetsMemoFlight
    <3>c. scope(c) \in Scopes /\ key(c) \in Keys
      BY <3>b, KeyKnown DEF EnterMemo, Enabled, Base, TypeOK
    <3>1. EnterMemo(c) /\ d = c /\ s = scope(c) /\ k = key(c) /\ memoFlight[s][k] = Nil
      <4>1. memoFlight' # memoFlight
        BY <1>1, <2>2
      <4>2. memoFlight' = [memoFlight EXCEPT ![scope(c)][key(c)] = c] /\ memoFlight[scope(c)][key(c)] = Nil
        BY <3>b, <4>1 DEF EnterMemo
      <4> QED
        BY <1>1, <2>2, <3>b, <3>c, <4>2, <1>types
    <3>2. memoRole'[c] = "leader" /\ pc[c] # "idle"
      BY <3>1, <1>types DEF EnterMemo
    <3>3. req[c] = [key |-> k, scope |-> s]
      BY <3>1, <3>2, KeyKnown DEF Base, key, scope
    <3> QED
      BY <3>1, <3>2, <3>3, KeyStays
  <2> QED
    BY <2>1, <2>2
<1>2. ASSUME NEW c \in Calls, pc'[c] = "waitMemo"
      PROVE  req'[by'[c]] = req'[c] /\ memoRole'[by'[c]] = "leader" /\ pc'[by'[c]] # "idle"
  <2>1. CASE pc[c] = "waitMemo"
    <3>1. by'[c] = by[c]
      BY <2>1, <1>types, WhoSetsBy DEF EnterMemo, LocalOn, RemoteOn, JoinProcess
    <3>2. by[c] \in Calls /\ req[by[c]] = req[c] /\ memoRole[by[c]] = "leader"
      BY <2>1, <1>types DEF MemoKeyed
    <3> QED
      BY <2>1, <3>1, <3>2, RoleStays, KeyStays
  <2>2. CASE pc[c] # "waitMemo"
    <3>1. EnterMemo(c) /\ memoFlight[scope(c)][key(c)] # Nil /\ by'[c] = memoFlight[scope(c)][key(c)]
      BY <1>2, <2>2, StepKinds, <1>types, WhoWaitsForMemo
    <3>2. pc[c] # "idle" /\ scope(c) \in Scopes /\ key(c) \in Keys
      BY <3>1, KeyKnown DEF EnterMemo, Enabled, Base, TypeOK
    <3>3. req[c] = [key |-> key(c), scope |-> scope(c)]
      BY <3>2, KeyKnown DEF Base, key, scope
    <3>4. by'[c] \in Calls /\ req[by'[c]] = req[c] /\ memoRole[by'[c]] = "leader"
      BY <3>1, <3>2, <3>3, <1>types DEF MemoKeyed
    <3> QED
      BY <3>2, <3>4, RoleStays, KeyStays
  <2> QED
    BY <2>1, <2>2
<1> QED
  BY <1>1, <1>2 DEF MemoKeyed

-----------------------------------------------------------------------------
\* Whatever a cache holds, Redis is about to get, or a call has been answered
\* was loaded in time for the key.
Timely ==
  /\ \A k \in Keys : local[k] # Nil => local[k] \in TimelyFor(k)
  /\ \A k \in Keys : content[k] # Nil => content[k] \in TimelyFor(k)
  /\ \A s \in Scopes, k \in Keys : memo[s][k] # Nil => memo[s][k] \in TimelyFor(k)
  /\ \A v \in late : load[v] = "resolved"
  /\ \A c \in Calls : got[c] \in Calls => got[c] \in TimelyFor(key(c))
  /\ \A c \in Calls : res[c] \in Calls => res[c] \in TimelyFor(key(c))

\* What the loader of a call returned in time is timely for its key.
LEMMA OwnLoadIsTimely ==
  ASSUME Base, NEW c \in Calls, load[c] = "resolved"
  PROVE  c \in TimelyFor(key(c))
  BY DEF TimelyFor, key

\* The local cache is filled by a Redis hit or by a loader that resolved in
\* time.
LEMMA TimelyLocal ==
  ASSUME Base, Phases, Timely, Next, NEW k \in Keys, local'[k] # Nil
  PROVE  local'[k] \in TimelyFor(k)'
<1>types. /\ local \in [Keys -> Calls \cup {Nil}] /\ pc \in [Calls -> Places]
          /\ load \in [Calls -> {"none", "running", "resolved", "rejected", "timedOut"}]
  BY DEF Base, TypeOK
<1>1. CASE local'[k] = local[k]
  BY <1>1, TimelyGrows DEF Timely
<1>2. CASE local'[k] # local[k]
  <2>1. PICK c \in Calls : ReadHit(c) \/ Resolved(c) \/ Written(c)
    BY <1>2, <1>types, WhoSetsLocal DEF DropLocal
  <2>2. key(c) \in Keys
    BY <2>1, KeyKnown DEF Base, ReadHit, Resolved, Written
  <2>3. CASE ReadHit(c)
    <3>1. k = key(c) /\ local'[k] = got[c] /\ got[c] \in Calls
      BY <1>2, <1>types, <2>2, <2>3 DEF ReadHit, FillLocal
    <3> QED
      BY <3>1, TimelyGrows DEF Timely
  <2>4. CASE Resolved(c)
    <3>1. k = key(c) /\ local'[k] = c /\ load'[c] = "resolved" /\ req' = req
      BY <1>2, <1>types, <2>2, <2>4 DEF Resolved, FillLocal
    <3> QED
      BY <3>1 DEF TimelyFor, key
  <2>5. CASE Written(c)
    <3>1. k = key(c) /\ local'[k] = c /\ load[c] = "resolved"
      BY <1>2, <1>types, <2>2, <2>5 DEF Written, FillLocal, Phases
    <3> QED
      BY <3>1, OwnLoadIsTimely, TimelyGrows
  <2> QED
    BY <2>1, <2>3, <2>4, <2>5
<1> QED
  BY <1>1, <1>2

\* Redis stores what a call loaded that was still writing, or whose write was
\* left behind.
LEMMA TimelyContent ==
  ASSUME Base, Phases, Timely, Next, NEW k \in Keys, content'[k] # Nil
  PROVE  content'[k] \in TimelyFor(k)'
<1>types. content \in [Keys -> Calls \cup {Nil}]
  BY DEF Base, TypeOK, Store!StoreTypeOK
<1>1. CASE content'[k] = content[k]
  BY <1>1, TimelyGrows DEF Timely
<1>2. CASE content'[k] # content[k]
  <2>1. PICK c \in Calls : WriteExecuted(c) \/ LateWrite(c)
    BY <1>2, <1>types, WhoSetsContent
    DEF InvalidateRemote, RedisElapse, Store!InvalidateEffect, Store!HideTracked,
        Store!ElapseEffect
  <2>2. load[c] = "resolved"
    BY <2>1 DEF WriteExecuted, LateWrite, Phases, Timely
  <2>3. PICK r \in {"stored", "refused", "error"} : Store!WriteEffect(key(c), c, r)
    BY <2>1 DEF WriteExecuted, LateWrite, StoreWrite
  <2>4. key(c) \in Keys
    BY <2>1, KeyKnown DEF Base, Known, WriteExecuted, LateWrite
  <2>5. k = key(c) /\ content'[k] = c
    BY <1>2, <1>types, <2>3, <2>4 DEF Store!WriteEffect
  <2> QED
    BY <2>2, <2>5, OwnLoadIsTimely, TimelyGrows
<1> QED
  BY <1>1, <1>2

\* The memo of a request is filled with an answer of its own key.
LEMMA TimelyMemo ==
  ASSUME Base, Phases, Timely, Next, NEW s \in Scopes, NEW k \in Keys, memo'[s][k] # Nil
  PROVE  memo'[s][k] \in TimelyFor(k)'
<1>types. /\ memo \in [Scopes -> [Keys -> Calls \cup {Nil}]]
          /\ res \in [Calls -> Calls \cup {Nil, Fail}]
          /\ memo' \in [Scopes -> [Keys -> Calls \cup {Nil}]]
  BY BaseStep DEF Base, TypeOK
<1>1. CASE memo'[s][k] = memo[s][k]
  BY <1>1, TimelyGrows DEF Timely
<1>2. CASE memo'[s][k] # memo[s][k]
  <2>1. PICK c \in Calls : Memoize(c)
    <3>1. \A t \in Scopes : ~ CloseScope(t)
      BY <1>2, <1>types DEF CloseScope, NoEntries
    <3> QED
      BY <1>2, <3>1, WhoSetsMemo
  <2>2. s = scope(c) /\ k = key(c) /\ memo'[s][k] = res[c]
    BY <1>2, <1>types, <2>1 DEF Memoize
  <2>3. res[c] \in Calls
    BY <1>2, <1>types, <2>1, <2>2, ReadThroughAssumption DEF Memoize, Memoizes
  <2> QED
    BY <2>2, <2>3, TimelyGrows DEF Timely
<1> QED
  BY <1>1, <1>2

\* A write is left behind by a call that has loaded in time.
LEMMA TimelyLate ==
  ASSUME Base, Phases, Timely, Next, NEW v \in late'
  PROVE  load'[v] = "resolved"
<1>1. v \in Calls /\ load[v] = "resolved"
  BY WhoSetsLate DEF Base, TypeOK, WriteFailed, LateWrite, Phases, Timely
<1> QED
  BY <1>1, LoadedStays

\* What Redis answers a read it held for the key.
LEMMA TimelyGot ==
  ASSUME Base, Phases, Timely, Next, NEW c \in Calls, got'[c] \in Calls
  PROVE  got'[c] \in TimelyFor(key(c))'
<1>types. /\ got \in [Calls -> Calls \cup {Nil, "stored", "refused", "error"}]
          /\ content \in [Keys -> Calls \cup {Nil}]
  BY DEF Base, TypeOK, Store!StoreTypeOK
<1>1. CASE got'[c] = got[c]
  <2>1. pc[c] # "idle"
    BY <1>1, ReadThroughAssumption DEF Phases
  <2> QED
    BY <1>1, <2>1, KeyStays, TimelyGrows DEF Timely
<1>2. CASE got'[c] # got[c]
  <2>1. ReadExecuted(c) /\ got'[c] = content[key(c)]
    BY <1>2, <1>types, WhoSetsGot, ReadThroughAssumption
    DEF ReadExecuted, ReadHit, ReadMissed, WriteExecuted, WriteFailed, Written
  <2>2. key(c) \in Keys /\ pc[c] # "idle"
    BY <2>1, KeyKnown DEF Base, ReadExecuted
  <2>3. got'[c] \in TimelyFor(key(c))
    BY <2>1, <2>2, ReadThroughAssumption DEF Timely
  <2> QED
    BY <2>2, <2>3, KeyStays, TimelyGrows
<1> QED
  BY <1>1, <1>2

\* An answer is what the call loaded itself, what a cache or Redis held for
\* its key, or the answer of a call of its key.
LEMMA TimelyRes ==
  ASSUME Base, Phases, MemoKeyed, Timely, Next, NEW c \in Calls, res'[c] \in Calls
  PROVE  res'[c] \in TimelyFor(key(c))'
<1>types. /\ res \in [Calls -> Calls \cup {Nil, Fail}] /\ by \in [Calls -> Calls]
          /\ load \in [Calls -> {"none", "running", "resolved", "rejected", "timedOut"}]
  BY DEF Base, TypeOK
<1>1. CASE res'[c] = res[c]
  <2>1. pc[c] # "idle"
    BY <1>1, ReadThroughAssumption DEF Phases
  <2> QED
    BY <1>1, <2>1, KeyStays, TimelyGrows DEF Timely
<1>2. CASE res'[c] # res[c]
  <2>1. \/ EnterMemo(c) \/ LocalOn(c) \/ ReadHit(c) \/ Resolved(c) \/ Written(c)
        \/ ResumeShared(c) \/ ResumeMemo(c) \/ RawSettled(c, "resolved")
    <3>1. \A d \in Calls, how \in {"rejected", "timedOut"} : ~ LoadFailed(d, how)
      BY <1>2, <1>types, ReadThroughAssumption DEF LoadFailed, SettleFlight
    <3>2. \A d \in Calls : ~ RawSettled(d, "rejected")
      BY <1>2, <1>types, ReadThroughAssumption DEF RawSettled
    <3>3. PICK d \in Calls :
            \/ EnterMemo(d) \/ LocalOn(d) \/ ReadHit(d) \/ Resolved(d) \/ Written(d)
            \/ ResumeShared(d) \/ ResumeMemo(d) \/ RawSettled(d, "resolved")
      BY <1>2, <3>1, <3>2, WhoSetsRes
    <3>4. d = c
      BY <1>2, <1>types, <3>3
      DEF EnterMemo, LocalOn, ReadHit, Resolved, Written, ResumeShared, ResumeMemo, RawSettled,
          SettleFlight
    <3> QED
      BY <3>3, <3>4
  <2>2. pc[c] # "idle" /\ key(c) \in Keys
    BY <2>1, KeyKnown
    DEF Base, EnterMemo, LocalOn, ReadHit, Resolved, Written, ResumeShared, ResumeMemo,
        RawSettled
  <2>3. ASSUME res'[c] \in TimelyFor(key(c))
        PROVE  res'[c] \in TimelyFor(key(c))'
    BY <2>2, <2>3, KeyStays, TimelyGrows
  <2>4. CASE EnterMemo(c)
    <3>1. scope(c) \in Scopes
      BY <2>4 DEF EnterMemo, Enabled, Base, TypeOK
    <3>2. res'[c] = memo[scope(c)][key(c)]
      BY <1>2, <1>types, <2>4 DEF EnterMemo
    <3> QED
      BY <2>2, <2>3, <3>1, <3>2, ReadThroughAssumption DEF Timely
  <2>5. CASE LocalOn(c)
    <3>1. res'[c] = local[key(c)]
      BY <1>2, <1>types, <2>5 DEF LocalOn, SettleFlight
    <3> QED
      BY <2>2, <2>3, <3>1, ReadThroughAssumption DEF Timely
  <2>6. CASE ReadHit(c)
    BY <1>types, <2>3, <2>6 DEF ReadHit, SettleFlight, Timely
  <2>7. CASE Resolved(c) \/ RawSettled(c, "resolved")
    <3>1. res'[c] = c
      BY <1>2, <1>types, <2>7 DEF Resolved, RawSettled, SettleFlight
    <3>2. load'[c] = "resolved"
      BY <1>types, <2>7 DEF Resolved, RawSettled
    <3> QED
      BY <3>1, <3>2 DEF TimelyFor, key
  <2>8. CASE Written(c)
    <3>1. res'[c] = c /\ load[c] = "resolved"
      BY <1>types, <2>8 DEF Written, SettleFlight, Phases
    <3> QED
      BY <2>3, <3>1, OwnLoadIsTimely
  <2>9. CASE ResumeShared(c) \/ ResumeMemo(c)
    <3>1. res'[c] = res[by[c]] /\ by[c] \in Calls
      BY <1>types, <2>9 DEF ResumeShared, ResumeMemo
    <3>2. key(by[c]) = key(c)
      BY <2>9 DEF ResumeShared, ResumeMemo, Base, Following, MemoKeyed, key
    <3> QED
      BY <2>3, <3>1, <3>2 DEF Timely
  <2> QED
    BY <2>1, <2>4, <2>5, <2>6, <2>7, <2>8, <2>9
<1> QED
  BY <1>1, <1>2

\* The layers up to Timely.
Served == Base /\ Phases /\ MemoKeyed /\ Timely

\* Initially nothing is cached or under way.
LEMMA ServedInit == Init => Served
<1> SUFFICES ASSUME Init PROVE Served
  OBVIOUS
<1>1. Phases /\ MemoKeyed
  BY DEF Init, Phases, MemoKeyed
<1>2. Timely
  BY ReadThroughAssumption DEF Init, Timely, Store!StoreInit
<1> QED
  BY <1>1, <1>2, BaseInit DEF Served

\* The layers up to Timely are inductive together.
LEMMA ServedStep == Served /\ [Next]_vars => Served'
<1> SUFFICES ASSUME Served, [Next]_vars PROVE Served'
  OBVIOUS
<1>1. Base'
  BY BaseStep DEF Served
<1>2. CASE Next
  <2>1. Phases' /\ MemoKeyed'
    BY <1>2, PhasesStep, MemoKeyedStep DEF Served
  <2>2. Timely'
    BY <1>2, TimelyLocal, TimelyContent, TimelyMemo, TimelyLate, TimelyGot, TimelyRes
    DEF Served, Timely
  <2> QED
    BY <1>1, <2>1, <2>2 DEF Served
<1>3. CASE UNCHANGED vars
  <2>1. Phases' /\ MemoKeyed'
    BY <1>3 DEF Served, vars, callVars, scopeVars, Phases, MemoKeyed
  <2>2. Timely'
    BY <1>3 DEF Served, vars, callVars, shared, scopeVars, redisVars, Timely, TimelyFor, key
  <2> QED
    BY <1>1, <2>1, <2>2 DEF Served
<1> QED
  BY <1>2, <1>3

\* The layers up to Timely hold together.
THEOREM ServedHolds == Spec => []Served
  BY ServedInit, ServedStep, PTL DEF Spec

\* Timely is stronger than the property.
LEMMA ServedTimely == Served => OnlyTimelyLoadsCached
<1> SUFFICES ASSUME Served, NEW k \in Keys
             PROVE  /\ local[k] # Nil => local[k] \in TimelyFor(k)
                    /\ content[k] # Nil => content[k] \in TimelyFor(k)
                    /\ \A s \in Scopes : memo[s][k] # Nil => memo[s][k] \in TimelyFor(k)
                    /\ \A v \in late : key(v) = k => v \in TimelyFor(k)
  BY DEF OnlyTimelyLoadsCached, TimelyFor
<1>1. \A v \in late : key(v) = k => v \in TimelyFor(k)
  BY OwnLoadIsTimely DEF Served, Timely, Base, TypeOK
<1> QED
  BY <1>1 DEF Served, Timely

\* No layer ever holds, and no delayed write brings to Redis, a rejection, a
\* value that came after its deadline or another key's value
\* (dialcache.ts:505-538).
THEOREM OnlyTimelyHolds == Spec => []OnlyTimelyLoadsCached
  BY ServedHolds, ServedTimely, PTL

-----------------------------------------------------------------------------
\* For a call whose chain used Redis: what it read was accepted, so was what it
\* is told was stored; and a flight's leader that loads knows of the layer.
Backed ==
  /\ \A k \in Keys : content[k] # Nil => content[k] \in accepted
  /\ \A c \in Calls : got[c] \in Calls => got[c] \in accepted
  /\ \A c \in Calls : pc[c] = "writeBack" /\ got[c] = "stored" => c \in accepted
  /\ hasRedis => \A c \in Calls : pc[c] = "load" /\ Leads(c) => plan[c].remote # "none"
  /\ LocalBackedByStore

\* The ways into the loader.
LEMMA WhoStartsLoading ==
  ASSUME pc \in [Calls -> Places], Next, NEW c \in Calls, pc'[c] = "load", pc[c] # "load"
  PROVE  \/ \E k \in Keys, s \in Scopes \cup {Outside} : Invoke(c, k, s)
         \/ Bypass(c) \/ LocalOn(c) \/ LocalOff(c) \/ ReadMissed(c)
         \/ \E why \in {"off", "configError"} : RemoteOff(c, why)
<1>1. PICK d \in Calls : \/ \E k \in Keys, s \in Scopes \cup {Outside} : Invoke(d, k, s)
                        \/ Bypass(d) \/ LocalOn(d) \/ LocalOff(d) \/ ReadMissed(d)
                        \/ \E why \in {"off", "configError"} : RemoteOff(d, why)
  BY ZenonT(40) DEF Next, Step, Loader, SkipMemo, EnterMemo, RemoteOn, ReadExecuted, ReadHit,
     Resolved, LoadFailed, RawSettled, WriteExecuted, WriteFailed, LateWrite, Written,
     ClearFlight, ResumeShared, Memoize, ClearMemoFlight, ResumeMemo, CloseScope,
     DropLocal, InvalidateRemote, RedisElapse, Goto, JoinProcess, SettleFlight,
     AfterShared, callVars, Places
<1> QED
  BY <1>1 DEF Invoke, Bypass, LocalOn, LocalOff, ReadMissed, RemoteOff, StartLoad, JoinProcess,
     SettleFlight, Goto

\* The ways to the answer of a write.
LEMMA WhoArrivesBack ==
  ASSUME pc \in [Calls -> Places], Next, NEW c \in Calls,
         pc'[c] = "writeBack", pc[c] # "writeBack"
  PROVE  WriteExecuted(c) \/ WriteFailed(c)
<1>1. PICK d \in Calls : WriteExecuted(d) \/ WriteFailed(d)
  BY ZenonT(40) DEF Next, Step, Loader, Invoke, Bypass, SkipMemo, EnterMemo, LocalOn, LocalOff,
     RemoteOn, RemoteOff, ReadExecuted, ReadHit, ReadMissed, Resolved, LoadFailed,
     RawSettled, LateWrite, Written, ClearFlight, ResumeShared, Memoize,
     ClearMemoFlight, ResumeMemo, CloseScope, DropLocal, InvalidateRemote, RedisElapse,
     Goto, StartLoad, JoinProcess, SettleFlight, AfterShared, callVars, Places
<1> QED
  BY <1>1 DEF WriteExecuted, WriteFailed, Goto

\* A call that loads does not come to lead while it does.
LEMMA LeadsStill ==
  ASSUME Base, Next, NEW c \in Calls, pc[c] = "load", Leads(c)'
  PROVE  Leads(c)
<1>k. PICK k \in Keys : k = key(c) /\ key(c)' = k
  BY KeyKnown, KeyStays DEF Base
<1>1. flight'[k] # Nil /\ flight'[k].leader = c
  BY <1>k DEF Leads
<1>types. flight \in [Keys -> Flights \cup {Nil}]
  BY DEF Base, TypeOK, Flights
<1>2. CASE Still \/ \E d \in Calls : GoesOn(d) \/ Resuming(d)
  BY <1>k, <1>1, <1>2 DEF Leads, Still, GoesOn, Resuming
<1>3. ASSUME NEW d \in Calls, Leading(d) \/ Joining(d) \/ Clearing(d)
      PROVE  flight[k] # Nil /\ flight[k].leader = c
  <2>1. d # c
    BY <1>3 DEF Leading, Joining, Clearing
  <2>2. PICK j \in Keys : j = key(d)
    BY <1>3, KeyKnown DEF Base, Leading, Joining, Clearing
  <2>3. CASE Leading(d)
    BY <1>1, <1>types, <2>1, <2>2, <2>3 DEF Leading, NewFlight
  <2>4. CASE Clearing(d)
    BY <1>1, <1>types, <2>1, <2>2, <2>4 DEF Clearing
  <2>5. CASE Joining(d)
    <3>1. flight[j] # Nil /\ flight' = [flight EXCEPT ![j] = [flight[j] EXCEPT !.followers = flight[j].followers + 1]]
      BY <2>2, <2>5 DEF Joining, JoinProcess
    <3>2. flight[j] \in Flights
      BY <1>types, <3>1
    <3> QED
      BY <1>1, <1>types, <3>1, <3>2 DEF Flights
  <2> QED
    BY <1>3, <2>3, <2>4, <2>5
<1>4. Still \/ \E d \in Calls : GoesOn(d) \/ Leading(d) \/ Joining(d) \/ Clearing(d) \/ Resuming(d)
  BY StepKinds DEF Base
<1> QED
  BY <1>k, <1>2, <1>3, <1>4 DEF Leads

\* History only grows, and redisCache is set once.
LEMMA AcceptedGrows ==
  ASSUME Next
  PROVE  accepted \subseteq accepted' /\ hasRedis' = hasRedis
<1>1. accepted \subseteq accepted'
  BY WhoSetsAccepted DEF WriteExecuted, LateWrite, StoreWrite
<1>2. hasRedis' = hasRedis
  BY ZenonT(40) DEF Next, Step, Loader, Invoke, Bypass, SkipMemo, EnterMemo, LocalOn,
     LocalOff, RemoteOn,
     RemoteOff, ReadExecuted, ReadHit, ReadMissed, Resolved, LoadFailed, RawSettled, WriteExecuted,
     WriteFailed, LateWrite, Written, ClearFlight, ResumeShared, Memoize, ClearMemoFlight,
     ResumeMemo, CloseScope, DropLocal, InvalidateRemote, RedisElapse, shared
<1> QED
  BY <1>1, <1>2

\* Redis holds only values it accepted.
LEMMA BackedContent ==
  ASSUME Base, Backed, Next, NEW k \in Keys, content'[k] # Nil
  PROVE  content'[k] \in accepted'
<1>types. content \in [Keys -> Calls \cup {Nil}]
  BY DEF Base, TypeOK, Store!StoreTypeOK
<1>1. CASE content'[k] = content[k]
  BY <1>1, AcceptedGrows DEF Backed
<1>2. CASE content'[k] # content[k]
  <2>1. PICK c \in Calls : WriteExecuted(c) \/ LateWrite(c)
    BY <1>2, <1>types, WhoSetsContent
    DEF InvalidateRemote, RedisElapse, Store!InvalidateEffect, Store!HideTracked,
        Store!ElapseEffect
  <2>2. PICK r \in {"stored", "refused", "error"} : StoreWrite(c, r)
    BY <2>1 DEF WriteExecuted, LateWrite
  <2>3. key(c) \in Keys
    BY <2>1, KeyKnown DEF Base, Known, WriteExecuted, LateWrite
  <2>4. content'[k] = c /\ r = "stored"
    BY <1>2, <1>types, <2>2, <2>3 DEF StoreWrite, Store!WriteEffect
  <2> QED
    BY <2>2, <2>4 DEF StoreWrite
<1> QED
  BY <1>1, <1>2

\* A hit is an accepted value, and so is a write that reports stored.
LEMMA BackedGot ==
  ASSUME Base, Phases, Backed, Next, NEW c \in Calls
  PROVE  /\ got'[c] \in Calls => got'[c] \in accepted'
         /\ pc'[c] = "writeBack" /\ got'[c] = "stored" => c \in accepted'
<1>types. /\ got \in [Calls -> Calls \cup {Nil, "stored", "refused", "error"}]
          /\ pc \in [Calls -> Places]
          /\ content \in [Keys -> Calls \cup {Nil}]
  BY DEF Base, TypeOK, Store!StoreTypeOK
<1>1. ASSUME got'[c] \in Calls
      PROVE  got'[c] \in accepted'
  <2>1. CASE got'[c] = got[c]
    BY <1>1, <2>1, AcceptedGrows DEF Backed
  <2>2. CASE got'[c] # got[c]
    <3>1. ReadExecuted(c) /\ got'[c] = content[key(c)]
      BY <1>1, <2>2, <1>types, WhoSetsGot, ReadThroughAssumption
      DEF ReadExecuted, ReadHit, ReadMissed, WriteExecuted, WriteFailed, Written
    <3>2. key(c) \in Keys
      BY <3>1, KeyKnown DEF Base, ReadExecuted
    <3> QED
      BY <1>1, <3>1, <3>2, ReadThroughAssumption, AcceptedGrows DEF Backed
  <2> QED
    BY <2>1, <2>2
<1>2. ASSUME pc'[c] = "writeBack", got'[c] = "stored"
      PROVE  c \in accepted'
  <2>1. CASE pc[c] = "writeBack"
    <3>1. got'[c] = got[c]
      BY <1>2, <2>1, <1>types, WhoSetsGot, ReadThroughAssumption
      DEF ReadExecuted, ReadHit, ReadMissed, WriteExecuted, WriteFailed, Written
    <3> QED
      BY <1>2, <2>1, <3>1, AcceptedGrows DEF Backed
  <2>2. CASE pc[c] # "writeBack"
    <3>1. WriteExecuted(c) \/ WriteFailed(c)
      BY <1>2, <2>2, <1>types, WhoArrivesBack
    <3>2. WriteExecuted(c)
      BY <1>2, <3>1, <1>types DEF WriteFailed
    <3> QED
      BY <1>2, <3>2, <1>types DEF WriteExecuted, StoreWrite
  <2> QED
    BY <2>1, <2>2
<1> QED
  BY <1>1, <1>2

\* With Redis configured, a flight's leader that loads has resolved the remote
\* layer.
LEMMA BackedPlan ==
  ASSUME Base, Backed, Next, hasRedis', NEW c \in Calls, pc'[c] = "load", Leads(c)'
  PROVE  plan'[c].remote # "none"
<1>types. /\ pc \in [Calls -> Places] /\ plan \in [Calls -> Plans]
          /\ flight \in [Keys -> Flights \cup {Nil}]
  BY DEF Base, TypeOK, Plans, Flights
<1>1. CASE pc[c] = "load"
  <2>1. plan'[c] = plan[c]
    BY <1>1, <1>types, WhoSetsPlan DEF LocalOn, ReadMissed, RemoteOff
  <2>2. Leads(c)
    BY <1>1, LeadsStill
  <2> QED
    BY <1>1, <2>1, <2>2, AcceptedGrows DEF Backed
<1>2. CASE pc[c] # "load"
  <2>1. \/ \E k \in Keys, s \in Scopes \cup {Outside} : Invoke(c, k, s)
        \/ Bypass(c) \/ LocalOn(c) \/ LocalOff(c) \/ ReadMissed(c)
        \/ \E why \in {"off", "configError"} : RemoteOff(c, why)
    BY <1>2, <1>types, WhoStartsLoading
  <2>2. hasRedis
    BY AcceptedGrows
  <2>3. CASE ReadMissed(c) \/ \E why \in {"off", "configError"} : RemoteOff(c, why)
    BY <2>3, <1>types DEF ReadMissed, RemoteOff, Plans
  <2>4. CASE LocalOn(c) \/ LocalOff(c)
    BY <1>2, <2>2, <2>4, <1>types DEF LocalOn, LocalOff, JoinProcess, SettleFlight,
       StartLoad, Goto
  <2>5. CASE Bypass(c) \/ \E k \in Keys, s \in Scopes \cup {Outside} : Invoke(c, k, s)
    <3>1. pc[c] \in {"idle", "config"} /\ flight' = flight
      BY <2>5 DEF Bypass, Invoke, shared
    <3>2. req'[c] # Nil /\ key(c)' \in Keys
      BY BaseStep, <1>2, KeyKnown DEF Base, Known, key, TypeOK
    <3>3. PICK k \in Keys : k = key(c)'
      BY <3>2
    <3>4. flight[k] # Nil /\ flight[k].leader = c
      BY <3>1, <3>3 DEF Leads
    <3> QED
      BY <3>1, <3>4, LeaderWorks DEF LeaderPlaces, LeadingPlaces
  <2> QED
    BY <2>1, <2>3, <2>4, <2>5
<1> QED
  BY <1>1, <1>2

\* The local cache of a tracked key is filled with what Redis accepted or did
\* not have to.
LEMMA BackedLocal ==
  ASSUME Base, Phases, Timely, Backed, Next
  PROVE  LocalBackedByStore'
<1>types. /\ local \in [Keys -> Calls \cup {Nil}] /\ plan \in [Calls -> Plans]
          /\ load \in [Calls -> {"none", "running", "resolved", "rejected", "timedOut"}]
  BY DEF Base, TypeOK, Plans
<1>0. SUFFICES ASSUME hasRedis, NEW k \in Tracked, local'[k] # Nil
               PROVE  local'[k] \in accepted' \/ plan'[local'[k]].remote = "off"
  BY AcceptedGrows DEF LocalBackedByStore
<1>k. k \in Keys
  BY ReadThroughAssumption
<1>1. CASE local'[k] = local[k]
  <2>1. local[k] \in Calls /\ load[local[k]] = "resolved"
    BY <1>0, <1>k, <1>1 DEF Timely, TimelyFor
  <2>2. plan'[local[k]] = plan[local[k]]
    BY <2>1, <1>types, WhoSetsPlan DEF LocalOn, ReadMissed, RemoteOff, Phases
  <2> QED
    BY <1>0, <1>1, <2>2, AcceptedGrows DEF Backed, LocalBackedByStore
<1>2. CASE local'[k] # local[k]
  <2>1. PICK c \in Calls : ReadHit(c) \/ Resolved(c) \/ Written(c)
    BY <1>0, <1>k, <1>2, <1>types, WhoSetsLocal DEF DropLocal
  <2>2. key(c) \in Keys
    BY <2>1, KeyKnown DEF Base, ReadHit, Resolved, Written
  <2>3. CASE ReadHit(c)
    <3>1. local'[k] = got[c] /\ got[c] \in Calls
      BY <1>2, <1>k, <1>types, <2>2, <2>3 DEF ReadHit, FillLocal
    <3> QED
      BY <3>1, AcceptedGrows DEF Backed
  <2>4. CASE Resolved(c)
    <3>1. /\ k = key(c) /\ local'[k] = c /\ plan' = plan /\ pc[c] = "load" /\ Leads(c)
          /\ ~ SkipsWrite(c) /\ ~ WritesRemote(c)
      BY <1>2, <1>k, <1>types, <2>2, <2>4 DEF Resolved, FillLocal
    <3>2. plan[c].remote \in {"none", "off", "miss", "readError", "configError"}
      BY <1>types DEF Plans
    <3>3. plan[c].remote # "none"
      BY <1>0, <3>1 DEF Backed
    <3> QED
      BY <3>1, <3>2, <3>3 DEF SkipsWrite, WritesRemote
  <2>5. CASE Written(c)
    <3>1. k = key(c) /\ local'[k] = c /\ pc[c] = "writeBack" /\ ~ SuppressedBy(c, got[c])
      BY <1>2, <1>k, <1>types, <2>2, <2>5 DEF Written, FillLocal
    <3>2. got[c] = "stored"
      BY <3>1 DEF SuppressedBy, Phases
    <3> QED
      BY <3>1, <3>2, AcceptedGrows DEF Backed
  <2> QED
    BY <2>1, <2>3, <2>4, <2>5
<1> QED
  BY <1>1, <1>2

\* For tracked keys the local cache holds only what Redis accepted, or what was
\* loaded while policy kept Redis out of it (dialcache.ts:524-537).
THEOREM LocalBackedHolds == Spec => []LocalBackedByStore
<1>1. Init => Backed
  BY ReadThroughAssumption DEF Init, Backed, LocalBackedByStore, Store!StoreInit
<1>2. Served /\ Backed /\ [Next]_vars => Backed'
  <2>1. ASSUME Served, Backed, Next
        PROVE  Backed'
    BY <2>1, BackedContent, BackedGot, BackedPlan, BackedLocal DEF Served, Backed
  <2>2. ASSUME Backed, UNCHANGED vars
        PROVE  Backed'
    BY <2>2 DEF Backed, LocalBackedByStore, vars, callVars, shared, redisVars, Leads, key
  <2> QED
    BY <2>1, <2>2
<1>3. Backed => LocalBackedByStore
  BY DEF Backed
<1> QED
  BY <1>1, <1>2, <1>3, ServedHolds, PTL DEF Spec

-----------------------------------------------------------------------------
\* A call that has its answer.
Answered == {"settled", "chained", "memoSettled", "done"}

\* What the loader r says of an answer v.
Verdict(r, v) ==
  CASE load[r] = "resolved"                 -> v = r
    [] load[r] \in {"rejected", "timedOut"} -> v = Fail
    [] OTHER                                -> v \in Calls

\* Who answers whom: a call waits for nobody, for the leader of a process
\* flight, who waits for nobody, or for the leader of a request-local one.
Chained ==
  \A c \in Calls :
    /\ memoRole[c] = "joined" => pc[c] \in {"waitMemo", "done"}
    /\ pc[c] = "waitMemo" => memoRole[c] = "joined"
    /\ pc[c] \notin After \cup {"waitShared", "waitMemo"} => by[c] = c
    /\ pc[c] = "waitShared" => by[by[c]] = by[c] /\ memoRole[by[c]] # "joined"
    /\ pc[c] \in Answered /\ memoRole[c] # "joined" =>
         by[by[c]] = by[c] /\ pc[by[c]] \in Answered /\ Verdict(by[c], res[c])
    /\ pc[c] = "done" /\ memoRole[c] = "joined" =>
         /\ memoRole[by[c]] = "leader" /\ req[by[c]] = req[c]
         /\ pc[by[c]] = "done" /\ res[c] = res[by[c]]

\* A waiting call waits on or is answered, and an answered call stays so.
LEMMA PlacesLeft ==
  ASSUME pc \in [Calls -> Places], Next, NEW c \in Calls
  PROVE  /\ pc[c] \in Answered => pc'[c] \in Answered
         /\ pc[c] \in After => pc'[c] \in After
         /\ pc[c] = "waitShared" => pc'[c] \in After \cup {"waitShared"}
         /\ pc[c] = "waitMemo" => pc'[c] \in {"waitMemo", "done"}
         /\ pc[c] = "memoSettled" => pc'[c] \in {"memoSettled", "done"}
         /\ pc[c] = "done" => pc'[c] = "done"
<1>1. pc'[c] = pc[c] \/ pc[c] = "idle" \/ \E d \in Calls : Step(d) \/ Loader(d)
  BY DEF Next, Invoke, LateWrite, CloseScope, DropLocal, InvalidateRemote, RedisElapse,
     callVars,
     Goto, StartLoad
<1>2. ASSUME NEW d \in Calls, Step(d) \/ Loader(d)
      PROVE  \/ pc[d] \notin Answered \cup {"waitShared", "waitMemo"}
             \/ ClearFlight(d) \/ ResumeShared(d) \/ Memoize(d) \/ ClearMemoFlight(d) \/ ResumeMemo(d)
  BY ZenonT(40), <1>2
  DEF Step, Loader, Bypass, SkipMemo, EnterMemo, LocalOn, LocalOff, RemoteOn, RemoteOff,
      ReadExecuted,
      ReadHit, ReadMissed, Resolved, LoadFailed, RawSettled, WriteExecuted, WriteFailed, Written,
      Answered
<1>3. ASSUME NEW d \in Calls, Step(d) \/ Loader(d), d # c
      PROVE  pc'[c] = pc[c]
  BY ZenonT(40), <1>3
  DEF Step, Loader, Bypass, SkipMemo, EnterMemo, LocalOn, LocalOff, RemoteOn,
     RemoteOff, ReadExecuted, ReadHit, ReadMissed, Resolved, LoadFailed, RawSettled,
     WriteExecuted, WriteFailed, Written, ClearFlight, ResumeShared, Memoize,
     ClearMemoFlight, ResumeMemo, Goto, StartLoad, JoinProcess, SettleFlight
<1> QED
  BY <1>1, <1>2, <1>3 DEF ClearFlight, ResumeShared, Memoize, ClearMemoFlight, ResumeMemo,
     AfterShared,
     Goto, Answered, After

\* The ways to an answer.
LEMMA WhoAnswers ==
  ASSUME pc \in [Calls -> Places], Next, NEW c \in Calls, pc'[c] \in Answered, pc[c] \notin Answered
  PROVE  \/ EnterMemo(c) \/ LocalOn(c) \/ ReadHit(c) \/ Resolved(c) \/ Written(c)
         \/ ResumeShared(c) \/ ResumeMemo(c)
         \/ \E how \in {"rejected", "timedOut"} : LoadFailed(c, how)
         \/ \E how \in {"resolved", "rejected"} : RawSettled(c, how)
<1>1. PICK d \in Calls :
         \/ EnterMemo(d) \/ LocalOn(d) \/ ReadHit(d) \/ Resolved(d) \/ Written(d)
         \/ ResumeShared(d) \/ ResumeMemo(d)
         \/ \E how \in {"rejected", "timedOut"} : LoadFailed(d, how)
         \/ \E how \in {"resolved", "rejected"} : RawSettled(d, how)
  BY ZenonT(40) DEF Next, Step, Loader, Invoke, Bypass, SkipMemo, LocalOff, RemoteOn, RemoteOff,
     ReadExecuted, ReadMissed, WriteExecuted, WriteFailed, LateWrite, ClearFlight,
     Memoize, ClearMemoFlight, CloseScope, DropLocal, InvalidateRemote, RedisElapse,
     Goto, StartLoad, JoinProcess, AfterShared, callVars, Places, Answered, After
<1>2. d = c
  BY <1>1
  DEF EnterMemo, LocalOn, ReadHit, Resolved, Written, ResumeShared, ResumeMemo, LoadFailed,
      RawSettled, JoinProcess, SettleFlight, StartLoad, Goto
<1> QED
  BY <1>1, <1>2

\* The part in a request-local flight is decided on entry.
LEMMA RoleFixed ==
  ASSUME Base, Next, NEW c \in Calls, pc[c] # "config"
  PROVE  memoRole'[c] = memoRole[c]
<1>role. memoRole \in [Calls -> {"none", "leader", "joined"}]
  BY DEF Base, TypeOK
<1> QED
  BY <1>role, WhoSetsRole DEF EnterMemo

\* Nothing changes an answer.
LEMMA AnsweredStays ==
  ASSUME Base, Next, NEW c \in Calls, pc[c] \in Answered
  PROVE  /\ pc'[c] \in Answered /\ memoRole'[c] = memoRole[c] /\ req'[c] = req[c]
         /\ by'[c] = by[c] /\ load'[c] = load[c] /\ res'[c] = res[c]
         /\ pc[c] = "done" => pc'[c] = "done"
<1>types. /\ pc \in [Calls -> Places] /\ by \in [Calls -> Calls]
          /\ load \in [Calls -> {"none", "running", "resolved", "rejected", "timedOut"}]
          /\ res \in [Calls -> Calls \cup {Nil, Fail}]
  BY DEF Base, TypeOK
<1>1. pc'[c] \in Answered /\ (pc[c] = "done" => pc'[c] = "done")
  BY <1>types, PlacesLeft
<1>2. memoRole'[c] = memoRole[c] /\ req'[c] = req[c]
  BY RoleFixed, KeyStays DEF Answered
<1>3. by'[c] = by[c]
  BY <1>types, WhoSetsBy DEF Answered, EnterMemo, LocalOn, RemoteOn, JoinProcess
<1>4. load'[c] = load[c]
  BY <1>types, WhoSetsLoad
  DEF Answered, Invoke, Bypass, LocalOn, LocalOff, ReadMissed, Resolved, RemoteOff, LoadFailed,
      RawSettled, StartLoad
<1>5. res'[c] = res[c]
  BY ZenonT(40), <1>types, WhoSetsRes
  DEF Answered, EnterMemo, LocalOn, ReadHit, Resolved, Written, ResumeShared, ResumeMemo,
      LoadFailed,
      RawSettled, SettleFlight
<1> QED
  BY <1>1, <1>2, <1>3, <1>4, <1>5

\* A call starts to wait for a process flight by joining it.
LEMMA WhoWaitsShared ==
  ASSUME Base, Next, NEW c \in Calls, pc'[c] = "waitShared", pc[c] # "waitShared"
  PROVE  Joining(c)
<1>1. Still \/ \E d \in Calls : GoesOn(d) \/ Leading(d) \/ Joining(d) \/ Clearing(d) \/ Resuming(d)
  BY StepKinds DEF Base
<1> QED
  BY <1>1 DEF Still, GoesOn, Leading, Joining, Clearing, Resuming, Alone, LeaderPlaces,
     LeadingPlaces

\* Only who waits for another's flight is served by another.
LEMMA ChainedRoles ==
  ASSUME Base, Phases, Chained, Next, NEW c \in Calls
  PROVE  /\ memoRole'[c] = "joined" => pc'[c] \in {"waitMemo", "done"}
         /\ pc'[c] = "waitMemo" => memoRole'[c] = "joined"
         /\ pc'[c] \notin After \cup {"waitShared", "waitMemo"} => by'[c] = c
<1>types. /\ pc \in [Calls -> Places] /\ by \in [Calls -> Calls]
          /\ memoRole \in [Calls -> {"none", "leader", "joined"}]
  BY DEF Base, TypeOK
<1>1. ASSUME memoRole'[c] = "joined"
      PROVE  pc'[c] \in {"waitMemo", "done"}
  <2>1. CASE memoRole[c] = "joined"
    BY <2>1, <1>types, PlacesLeft DEF Chained
  <2>2. CASE memoRole[c] # "joined"
    BY <1>1, <2>2, <1>types, WhoSetsRole DEF EnterMemo, Goto
  <2> QED
    BY <2>1, <2>2
<1>2. ASSUME pc'[c] = "waitMemo"
      PROVE  memoRole'[c] = "joined"
  <2>1. CASE pc[c] = "waitMemo"
    BY <2>1, RoleFixed DEF Chained
  <2>2. CASE pc[c] # "waitMemo"
    BY <1>2, <2>2, <1>types, WhoWaitsForMemo DEF EnterMemo
  <2> QED
    BY <2>1, <2>2
<1>3. ASSUME pc'[c] \notin After \cup {"waitShared", "waitMemo"}
      PROVE  by'[c] = c
  <2>1. by[c] = c
    BY <1>3, <1>types, PlacesLeft DEF Chained, After
  <2>2. by'[c] = by[c]
    BY <1>3, <1>types, WhoSetsBy
    DEF EnterMemo, LocalOn, RemoteOn, JoinProcess, Goto
  <2> QED
    BY <2>1, <2>2
<1> QED
  BY <1>1, <1>2, <1>3

\* Whoever leads a process flight waits for nobody.
LEMMA ChainedWait ==
  ASSUME Base, Phases, Chained, Next, NEW c \in Calls, pc'[c] = "waitShared"
  PROVE  by'[by'[c]] = by'[c] /\ memoRole'[by'[c]] # "joined"
<1>types. /\ pc \in [Calls -> Places] /\ by \in [Calls -> Calls]
  BY DEF Base, TypeOK
<1>1. CASE pc[c] = "waitShared"
  <2>1. by'[c] = by[c]
    BY <1>1, <1>types, WhoSetsBy DEF EnterMemo, LocalOn, RemoteOn, JoinProcess
  <2>2. PICK b \in Calls : b = by[c]
    BY <1>types
  <2>3. by[b] = b /\ memoRole[b] # "joined" /\ key(b) = key(c)
    BY <1>1, <2>2 DEF Chained, Base, Following
  <2>4. (pc[b] \in LeaderPlaces /\ Leads(b)) \/ pc[b] \in After
    <3>1. key(c) \in Keys
      BY <1>1, KeyKnown DEF Base
    <3> QED
      BY <1>1, <2>2, <2>3, <3>1, LeaderWorks DEF Base, Following, Leads
  <2>5. memoRole'[b] = memoRole[b]
    BY <2>4, RoleFixed DEF LeaderPlaces, LeadingPlaces, After
  <2>6. by'[b] = by[b]
    BY <2>4, <1>types, WhoSetsBy
    DEF EnterMemo, LocalOn, RemoteOn, JoinProcess, LeaderPlaces, LeadingPlaces, After
  <2> QED
    BY <2>1, <2>2, <2>3, <2>5, <2>6
<1>2. CASE pc[c] # "waitShared"
  <2>1. Joining(c)
    BY <1>2, WhoWaitsShared
  <2>2. PICK k \in Keys : k = key(c)
    BY <2>1, KeyKnown DEF Base, Joining
  <2>3. PICK l \in Calls : l = flight[k].leader
    BY <2>1, <2>2, LeaderWorks DEF Joining
  <2>4. pc[l] \in LeaderPlaces /\ l # c
    BY <2>1, <2>2, <2>3, LeaderWorks DEF Joining, Leads
  <2>5. by[l] = l /\ memoRole[l] # "joined"
    BY <2>4 DEF Chained, LeaderPlaces, LeadingPlaces, After
  <2>6. by'[c] = l /\ by'[l] = by[l] /\ pc[l] # "config"
    BY <2>1, <2>2, <2>3, <2>4, <1>types
    DEF Joining, Alone, JoinProcess, LeaderPlaces, LeadingPlaces
  <2>7. memoRole'[l] = memoRole[l]
    BY <2>6, RoleFixed
  <2> QED
    BY <2>5, <2>6, <2>7
<1> QED
  BY <1>1, <1>2

\* Each way to an answer agrees with the loader it came from.
LEMMA ChainedAnswer ==
  ASSUME Base, Phases, MemoKeyed, Timely, Chained, Next, NEW c \in Calls,
         pc'[c] \in Answered, memoRole'[c] # "joined"
  PROVE  by'[by'[c]] = by'[c] /\ pc'[by'[c]] \in Answered /\ Verdict(by[c], res[c])'
<1>types. /\ pc \in [Calls -> Places] /\ by \in [Calls -> Calls]
          /\ load \in [Calls -> {"none", "running", "resolved", "rejected", "timedOut"}]
          /\ res \in [Calls -> Calls \cup {Nil, Fail}]
  BY DEF Base, TypeOK
<1>1. CASE pc[c] \in Answered
  <2>1. PICK b \in Calls : b = by[c]
    BY <1>types
  <2>2. memoRole[c] # "joined" /\ by'[c] = by[c] /\ res'[c] = res[c]
    BY <1>1, AnsweredStays
  <2>3. by[b] = b /\ pc[b] \in Answered /\ Verdict(b, res[c])
    BY <1>1, <2>1, <2>2 DEF Chained
  <2>4. by'[b] = b /\ pc'[b] \in Answered /\ load'[b] = load[b]
    BY <2>3, AnsweredStays
  <2> QED
    BY <2>1, <2>2, <2>3, <2>4 DEF Verdict
<1>2. CASE pc[c] \notin Answered
  <2>1. \/ EnterMemo(c) \/ LocalOn(c) \/ ReadHit(c) \/ Resolved(c) \/ Written(c)
        \/ ResumeShared(c) \/ ResumeMemo(c)
        \/ \E how \in {"rejected", "timedOut"} : LoadFailed(c, how)
        \/ \E how \in {"resolved", "rejected"} : RawSettled(c, how)
    BY <1>2, <1>types, WhoAnswers
  <2>2. key(c) \in Keys
    BY <2>1, KeyKnown
    DEF Base, EnterMemo, LocalOn, ReadHit, Resolved, Written, ResumeShared, ResumeMemo,
        LoadFailed,
        RawSettled
  <2>3. ASSUME by[c] = c, by' = by,
               CASE load'[c] = "resolved"                 -> res'[c] = c
                 [] load'[c] \in {"rejected", "timedOut"} -> res'[c] = Fail
                 [] OTHER                                 -> res'[c] \in Calls
        PROVE  by'[by'[c]] = by'[c] /\ pc'[by'[c]] \in Answered /\ Verdict(by[c], res[c])'
    BY <2>3 DEF Verdict
  <2>4. CASE EnterMemo(c)
    <3>1. by[c] = c /\ load[c] = "none" /\ load' = load /\ scope(c) \in Scopes
      BY <2>4 DEF EnterMemo, Enabled, Base, TypeOK, Chained, Phases, After
    <3>2. by' = by /\ res'[c] = memo[scope(c)][key(c)] /\ res'[c] # Nil
      BY <2>4, <1>2, <1>types DEF EnterMemo, Goto, Answered
    <3>3. res'[c] \in Calls
      BY <2>2, <3>1, <3>2 DEF Timely, TimelyFor
    <3> QED
      BY <2>3, <3>1, <3>2, <3>3
  <2>5. CASE LocalOn(c)
    <3>1. by[c] = c /\ load[c] = "none"
      BY <2>5 DEF LocalOn, Chained, Phases, After
    <3>2. by' = by /\ load' = load /\ res'[c] = local[key(c)] /\ res'[c] # Nil
      BY <2>5, <1>2, <1>types DEF LocalOn, JoinProcess, SettleFlight, StartLoad, Goto, Answered
    <3>3. res'[c] \in Calls
      BY <2>2, <3>2 DEF Timely, TimelyFor
    <3> QED
      BY <2>3, <3>1, <3>2, <3>3
  <2>6. CASE ReadHit(c)
    <3>1. by[c] = c /\ load[c] = "none"
      BY <2>6 DEF ReadHit, Chained, Phases, After
    <3>2. by' = by /\ load' = load /\ res'[c] \in Calls
      BY <2>6, <1>types DEF ReadHit, SettleFlight
    <3> QED
      BY <2>3, <3>1, <3>2
  <2>7. CASE Resolved(c) \/ RawSettled(c, "resolved")
    <3>1. by[c] = c
      BY <2>7 DEF Resolved, RawSettled, Chained, After
    <3>2. by' = by /\ load'[c] = "resolved" /\ res'[c] = c
      BY <2>7, <1>2, <1>types DEF Resolved, RawSettled, SettleFlight, Goto, Answered
    <3> QED
      BY <2>3, <3>1, <3>2
  <2>8. CASE Written(c)
    <3>1. by[c] = c /\ load[c] = "resolved"
      BY <2>8 DEF Written, Chained, Phases, After
    <3>2. by' = by /\ load' = load /\ res'[c] = c
      BY <2>8, <1>types DEF Written, SettleFlight
    <3> QED
      BY <2>3, <3>1, <3>2
  <2>9. CASE RawSettled(c, "rejected") \/ \E how \in {"rejected", "timedOut"} : LoadFailed(c, how)
    <3>1. by[c] = c
      BY <2>9 DEF LoadFailed, RawSettled, Chained, After
    <3>2. by' = by /\ load'[c] \in {"rejected", "timedOut"} /\ res'[c] = Fail
      BY <2>9, <1>types DEF LoadFailed, RawSettled, SettleFlight
    <3> QED
      BY <2>3, <3>1, <3>2
  <2>10. CASE ResumeShared(c)
    <3>1. PICK b \in Calls : b = by[c]
      BY <1>types
    <3>2. /\ pc[b] \in Answered /\ by' = by /\ load' = load /\ pc[c] = "waitShared"
          /\ res'[c] = res[b]
      BY <2>10, <3>1, <1>types DEF ResumeShared, Answered
    <3>3. by[b] = b /\ memoRole[b] # "joined"
      BY <3>1, <3>2 DEF Chained
    <3>4. Verdict(b, res[b])
      BY <3>2, <3>3 DEF Chained
    <3>5. pc'[b] \in Answered
      BY <3>2, AnsweredStays
    <3> QED
      BY <3>1, <3>2, <3>3, <3>4, <3>5 DEF Verdict
  <2>11. CASE ResumeMemo(c)
    <3>1. memoRole'[c] = "joined"
      BY <2>11, RoleFixed DEF ResumeMemo, Chained
    <3> QED
      BY <3>1
  <2> QED
    BY <2>1, <2>4, <2>5, <2>6, <2>7, <2>8, <2>9, <2>10, <2>11
<1> QED
  BY <1>1, <1>2

\* A joined call returns what the leader of the request-local flight did.
LEMMA ChainedJoined ==
  ASSUME Base, Phases, MemoKeyed, Chained, Next, NEW c \in Calls,
         pc'[c] = "done", memoRole'[c] = "joined"
  PROVE  /\ memoRole'[by'[c]] = "leader" /\ req'[by'[c]] = req'[c]
         /\ pc'[by'[c]] = "done" /\ res'[c] = res'[by'[c]]
<1>types. /\ pc \in [Calls -> Places] /\ by \in [Calls -> Calls]
          /\ res \in [Calls -> Calls \cup {Nil, Fail}]
          /\ memoRole \in [Calls -> {"none", "leader", "joined"}]
  BY DEF Base, TypeOK
<1>0. memoRole[c] = "joined"
  BY <1>types, WhoSetsRole DEF EnterMemo, Goto
<1>b. PICK b \in Calls : b = by[c]
  BY <1>types
<1>1. CASE pc[c] = "done"
  <2>1. memoRole[b] = "leader" /\ req[b] = req[c] /\ pc[b] = "done" /\ res[c] = res[b]
    BY <1>0, <1>1, <1>b DEF Chained
  <2> QED
    BY <1>1, <1>b, <2>1, AnsweredStays DEF Answered
<1>2. CASE pc[c] # "done"
  <2>1. pc[c] = "waitMemo"
    BY <1>0, <1>2 DEF Chained
  <2>2. ResumeMemo(c)
    BY <2>1, <1>types, WhoAnswers
    DEF Answered, EnterMemo, LocalOn, ReadHit, Resolved, Written, ResumeShared,
        LoadFailed, RawSettled
  <2>3. memoRole[b] = "leader" /\ req[b] = req[c] /\ pc[b] = "done" /\ b # c
    BY <2>1, <2>2, <1>b DEF MemoKeyed, ResumeMemo
  <2>4. by' = by /\ req' = req /\ res'[c] = res[b] /\ res'[b] = res[b]
    BY <2>2, <2>3, <1>b, <1>types DEF ResumeMemo
  <2> QED
    BY <1>b, <2>3, <2>4, AnsweredStays DEF Answered
<1> QED
  BY <1>1, <1>2

\* Answers stay chained.
LEMMA ChainedStep == Served /\ Chained /\ [Next]_vars => Chained'
<1>1. ASSUME Served, Chained, Next
      PROVE  Chained'
  <2> SUFFICES ASSUME NEW c \in Calls
      PROVE  /\ memoRole'[c] = "joined" => pc'[c] \in {"waitMemo", "done"}
             /\ pc'[c] = "waitMemo" => memoRole'[c] = "joined"
             /\ pc'[c] \notin After \cup {"waitShared", "waitMemo"} => by'[c] = c
             /\ pc'[c] = "waitShared" => by'[by'[c]] = by'[c] /\ memoRole'[by'[c]] # "joined"
             /\ pc'[c] \in Answered /\ memoRole'[c] # "joined" =>
                  by'[by'[c]] = by'[c] /\ pc'[by'[c]] \in Answered /\ Verdict(by[c], res[c])'
             /\ pc'[c] = "done" /\ memoRole'[c] = "joined" =>
                  /\ memoRole'[by'[c]] = "leader" /\ req'[by'[c]] = req'[c]
                  /\ pc'[by'[c]] = "done" /\ res'[c] = res'[by'[c]]
    BY DEF Chained
  <2> QED
    BY <1>1, ChainedRoles, ChainedWait, ChainedAnswer, ChainedJoined DEF Served
<1>2. ASSUME Chained, UNCHANGED vars
      PROVE  Chained'
  BY <1>2 DEF Chained, Verdict, vars, callVars
<1> QED
  BY <1>1, <1>2

\* Answers go through two other calls at most.
THEOREM ChainedHolds == Spec => []Chained
<1>1. Init => Chained
  BY DEF Init, Chained, After, Answered
<1> QED
  BY <1>1, ChainedStep, ServedHolds, PTL DEF Spec

\* A call's answer is its loader's verdict, or a cached value when no loader
\* was needed: caching never decides success (dialcache.ts:337-346, 599-626).
THEOREM LoaderDecidesHolds == Spec => []LoaderDecides
<1>1. TypeOK /\ Chained => LoaderDecides
  <2> SUFFICES ASSUME TypeOK, Chained, NEW c \in Calls, pc[c] = "done"
               PROVE  Verdict(by[by[c]], res[c])
    BY DEF LoaderDecides, Root, Verdict
  <2>1. by[c] \in Calls
    BY DEF TypeOK
  <2>2. CASE memoRole[c] = "joined"
    BY <2>1, <2>2 DEF Chained, Answered
  <2>3. CASE memoRole[c] # "joined"
    BY <2>3 DEF Chained, Answered
  <2> QED
    BY <2>2, <2>3
<1> QED
  BY <1>1, TypeCorrect, ChainedHolds, PTL

-----------------------------------------------------------------------------
\* A leader of a request-local flight that has not memoized, or has.
Pending(c)  == memoRole[c] = "leader" /\ pc[c] \notin {"memoSettled", "done"}
Memoized(c) == memoRole[c] = "leader" /\ pc[c] \in {"memoSettled", "done"}

\* While a request is open its one unfinished leader of a key is in
\* memoFlight, and its memo has what any finished one returned; and whoever
\* leads after another led because that other one had failed.
Led ==
  /\ \A c \in Calls : memoRole[c] = "leader" /\ pc[c] # "done" /\ scope(c) \in open =>
       memoFlight[scope(c)][key(c)] = c
  /\ \A c \in Calls : Memoized(c) /\ scope(c) \in open /\ res[c] \in Calls =>
       memo[scope(c)][key(c)] = res[c]
  /\ \A c, d \in Calls : Pending(c) /\ memoRole[d] = "leader" /\ d # c /\ req[d] = req[c] =>
       pc[d] = "done" /\ res[d] \notin Calls
  /\ \A c, d \in Calls : Memoized(c) /\ Memoized(d) /\ req[d] = req[c]
                         /\ res[c] \in Calls /\ res[d] \in Calls => res[c] = res[d]

\* A call comes to lead a request-local flight by finding none.
LEMMA WhoLeads ==
  ASSUME Base, Next, NEW c \in Calls, memoRole'[c] = "leader", memoRole[c] # "leader"
  PROVE  EnterMemo(c) /\ memoFlight[scope(c)][key(c)] = Nil
<1>role. memoRole \in [Calls -> {"none", "leader", "joined"}]
  BY DEF Base, TypeOK
<1>1. PICK d \in Calls : EnterMemo(d)
  BY <1>role, WhoSetsRole
<1> QED
  BY <1>role, <1>1 DEF EnterMemo

\* Where a request is closed, no call comes to lead in it.
LEMMA OpenShrinks ==
  ASSUME Next
  PROVE  open' \subseteq open
  BY WhoSetsOpen DEF CloseScope

\* A leader stays one, keeps its request, and once memoized its answer.
LEMMA LeaderStays ==
  ASSUME Base, Phases, Next, NEW c \in Calls, memoRole[c] = "leader"
  PROVE  /\ memoRole'[c] = "leader" /\ req'[c] = req[c]
         /\ scope(c)' = scope(c) /\ key(c)' = key(c)
         /\ Memoized(c) => pc'[c] \in {"memoSettled", "done"} /\ res'[c] = res[c]
         /\ pc[c] = "done" => pc'[c] = "done"
<1>1. pc[c] \notin {"idle", "config"}
  BY DEF Phases
<1>2. memoRole'[c] = "leader"
  BY <1>1, RoleFixed
<1>3. req'[c] = req[c]
  BY <1>1, KeyStays
<1>4. ASSUME Memoized(c)
      PROVE  res'[c] = res[c] /\ pc'[c] \in {"memoSettled", "done"}
  <2>1. pc[c] \in Answered
    BY <1>4 DEF Memoized, Answered
  <2>2. res'[c] = res[c] /\ (pc[c] = "done" => pc'[c] = "done")
    BY <2>1, AnsweredStays
  <2>3. pc \in [Calls -> Places]
    BY DEF Base, TypeOK
  <2>4. pc[c] = "memoSettled" => pc'[c] \in {"memoSettled", "done"}
    BY <2>3, PlacesLeft
  <2> QED
    BY <1>4, <2>2, <2>4 DEF Memoized
<1>5. pc[c] = "done" => pc'[c] = "done"
  BY AnsweredStays DEF Answered
<1> QED
  BY <1>2, <1>3, <1>4, <1>5 DEF scope, key

\* Until a leader has done with its flight it is the one registered, as long
\* as the request is open.
LEMMA LedFlight ==
  ASSUME Base, Phases, Led, Next, NEW c \in Calls,
         memoRole'[c] = "leader", pc'[c] # "done", scope(c)' \in open'
  PROVE  memoFlight'[scope(c)'][key(c)'] = c
<1>types. memoFlight \in [Scopes -> [Keys -> Calls \cup {Nil}]] /\ pc \in [Calls -> Places]
          /\ open \subseteq Scopes
  BY DEF Base, TypeOK
<1>1. PICK s \in Scopes, k \in Keys : s = scope(c) /\ k = key(c) /\ s = scope(c)' /\ k = key(c)'
  <2>1. pc[c] # "idle"
    BY WhoLeads DEF EnterMemo, Phases
  <2>2. scope(c)' = scope(c) /\ key(c)' = key(c) /\ key(c) \in Keys
    BY <2>1, KeyStays, KeyKnown DEF Base
  <2>3. scope(c) \in Scopes
    BY <1>types, <2>2, OpenShrinks
  <2> QED
    BY <2>2, <2>3
<1>2. s \in open
  BY <1>1, OpenShrinks
<1>3. CASE memoRole[c] # "leader"
  <2>1. EnterMemo(c) /\ memoFlight[s][k] = Nil
    BY <1>1, <1>3, WhoLeads
  <2> QED
    BY <1>1, <2>1, <1>types DEF EnterMemo
<1>4. CASE memoRole[c] = "leader"
  <2>1. pc[c] # "done"
    BY <1>4, LeaderStays
  <2>2. memoFlight[s][k] = c
    BY <1>1, <1>2, <1>4, <2>1 DEF Led
  <2>3. CASE UNCHANGED memoFlight
    BY <1>1, <2>2, <2>3
  <2>4. ASSUME NEW d \in Calls, EnterMemo(d)
        PROVE  memoFlight'[s][k] = c
    BY <1>types, <2>2, <2>4, ReadThroughAssumption DEF EnterMemo
  <2>5. ASSUME NEW d \in Calls, ClearMemoFlight(d)
        PROVE  memoFlight'[s][k] = c
    <3>1. d # c
      BY <2>5, <1>types DEF ClearMemoFlight, Goto
    <3> QED
      BY <1>types, <2>2, <2>5, <3>1 DEF ClearMemoFlight
  <2>6. ASSUME NEW t \in Scopes, CloseScope(t)
        PROVE  memoFlight'[s][k] = c
    <3>1. t # s
      BY <1>1, <2>6 DEF CloseScope
    <3> QED
      BY <1>types, <2>2, <2>6, <3>1 DEF CloseScope
  <2> QED
    BY <1>1, <2>3, <2>4, <2>5, <2>6, WhoSetsMemoFlight
<1> QED
  BY <1>3, <1>4

\* What a settled chain does next.
LEMMA WhoMovesOn ==
  ASSUME pc \in [Calls -> Places], Next, NEW c \in Calls, pc[c] \in {"settled", "chained"},
         pc'[c] # pc[c]
  PROVE  ClearFlight(c) \/ Memoize(c)
<1>1. \A d \in Calls : Step(d) \/ Loader(d) \/ LateWrite(d) => d = c \/ pc'[c] = pc[c]
  BY ZenonT(40) DEF Step, Loader, LateWrite, callVars, Bypass, SkipMemo, EnterMemo, LocalOn,
     LocalOff, RemoteOn,
     RemoteOff, ReadExecuted, ReadHit, ReadMissed, Resolved, LoadFailed, RawSettled,
     WriteExecuted, WriteFailed, Written, ClearFlight, ResumeShared, Memoize,
     ClearMemoFlight, ResumeMemo, Goto, StartLoad, JoinProcess, SettleFlight
<1>2. Step(c) \/ Loader(c)
  BY <1>1 DEF Next, Invoke, LateWrite, CloseScope, DropLocal, InvalidateRemote, RedisElapse,
     callVars, Goto, StartLoad
<1> QED
  BY ZenonT(40), <1>2
  DEF Step, Loader, Bypass, SkipMemo, EnterMemo, LocalOn, LocalOff, RemoteOn, RemoteOff,
      ReadExecuted,
      ReadHit, ReadMissed, Resolved, LoadFailed, RawSettled, WriteExecuted, WriteFailed, Written,
      ResumeShared, ClearMemoFlight, ResumeMemo

\* A leader gets past its memoizing only by memoizing.
LEMMA WhoSettlesMemo ==
  ASSUME Base, Phases, Chained, Next, NEW c \in Calls, Pending(c), pc'[c] \in {"memoSettled", "done"}
  PROVE  Memoize(c)
<1>types. pc \in [Calls -> Places]
  BY DEF Base, TypeOK
<1>1. pc[c] \in {"settled", "chained"} \/ pc[c] \notin Answered
  BY DEF Pending, Answered
<1>2. CASE pc[c] \notin Answered
  <2>1. \/ EnterMemo(c) \/ LocalOn(c) \/ ReadHit(c) \/ Resolved(c) \/ Written(c)
        \/ ResumeShared(c) \/ ResumeMemo(c)
        \/ \E how \in {"rejected", "timedOut"} : LoadFailed(c, how)
        \/ \E how \in {"resolved", "rejected"} : RawSettled(c, how)
    BY <1>2, <1>types, WhoAnswers DEF Answered
  <2>2. ~ EnterMemo(c) /\ ~ ResumeMemo(c) /\ \A how : ~ RawSettled(c, how)
    BY DEF Pending, Phases, Chained, EnterMemo, ResumeMemo, RawSettled
  <2> QED
    BY <2>1, <2>2, <1>types
    DEF Pending, LocalOn, ReadHit, Resolved, Written, ResumeShared, LoadFailed, JoinProcess,
        SettleFlight, StartLoad, AfterShared, Goto
<1>3. CASE pc[c] \in {"settled", "chained"}
  <2>1. ClearFlight(c) \/ Memoize(c)
    BY <1>3, <1>types, WhoMovesOn
  <2> QED
    BY <2>1, <1>types DEF ClearFlight, AfterShared, Goto, Pending
<1> QED
  BY <1>1, <1>2, <1>3

\* A step that memoizes c, for the first time.
LEMMA WhoMemoizes ==
  ASSUME Base, Phases, Chained, Next, NEW c \in Calls, Memoized(c)', ~ Memoized(c)
  PROVE  \/ Memoize(c)
         \/ EnterMemo(c) /\ memoFlight[scope(c)][key(c)] = Nil /\ res'[c] = memo[scope(c)][key(c)]
            /\ memo[scope(c)][key(c)] # Nil
<1>types. /\ memoRole \in [Calls -> {"none", "leader", "joined"}] /\ pc \in [Calls -> Places]
          /\ res \in [Calls -> Calls \cup {Nil, Fail}]
  BY DEF Base, TypeOK
<1>1. CASE memoRole[c] # "leader"
  <2>1. EnterMemo(c) /\ memoFlight[scope(c)][key(c)] = Nil
    BY <1>1, WhoLeads DEF Memoized
  <2> QED
    BY <1>types, <2>1 DEF EnterMemo, Goto, Memoized
<1>2. CASE memoRole[c] = "leader"
  BY <1>2, WhoSettlesMemo DEF Memoized, Pending
<1> QED
  BY <1>1, <1>2

\* Two leaders of one request and key.
LEMMA SameRequest ==
  ASSUME Base, NEW c \in Calls, NEW d \in Calls, pc[c] # "idle", pc[d] # "idle",
         key(c) = key(d), scope(c) = scope(d)
  PROVE  req[c] = req[d]
  BY DEF Base, TypeOK, Known, key, scope

\* Only the unfinished leader of a key writes the memo, and it does so once.
LEMMA LedMemo ==
  ASSUME Base, Phases, Chained, Led, Next, NEW c \in Calls,
         Memoized(c)', scope(c)' \in open', res'[c] \in Calls
  PROVE  memo'[scope(c)'][key(c)'] = res'[c]
<1>types. /\ memo \in [Scopes -> [Keys -> Calls \cup {Nil}]] /\ open \subseteq Scopes
          /\ res \in [Calls -> Calls \cup {Nil, Fail}]
  BY DEF Base, TypeOK
<1>1. PICK s \in Scopes, k \in Keys : s = scope(c) /\ k = key(c) /\ s = scope(c)' /\ k = key(c)'
  <2>1. pc[c] # "idle"
    BY WhoLeads DEF EnterMemo, Phases, Memoized
  <2>2. scope(c)' = scope(c) /\ key(c)' = key(c) /\ key(c) \in Keys
    BY <2>1, KeyStays, KeyKnown DEF Base
  <2>3. scope(c) \in Scopes
    BY <1>types, <2>2, OpenShrinks
  <2> QED
    BY <2>2, <2>3
<1>2. s \in open
  BY <1>1, OpenShrinks
<1>3. CASE ~ Memoized(c)
  <2>1. CASE Memoize(c)
    <3>1. res'[c] = res[c] /\ Memoizes(c)
      BY <1>1, <1>2, <2>1, ReadThroughAssumption DEF Memoize, Memoizes
    <3>2. memo' = [memo EXCEPT ![s][k] = res[c]]
      BY <1>1, <2>1, <3>1 DEF Memoize
    <3> QED
      BY <1>1, <1>types, <3>1, <3>2
  <2>2. CASE EnterMemo(c) /\ res'[c] = memo[s][k]
    BY <1>1, <2>2 DEF EnterMemo
  <2> QED
    BY <1>1, <1>3, <2>1, <2>2, WhoMemoizes
<1>4. CASE Memoized(c)
  <2>1. res'[c] = res[c] /\ memo[s][k] = res[c]
    BY <1>1, <1>2, <1>4, LeaderStays DEF Memoized, Led
  <2>2. ASSUME NEW d \in Calls, Memoize(d)
        PROVE  memo'[s][k] = memo[s][k]
    <3>1. Pending(d) /\ d # c
      BY <1>4, <2>2 DEF Memoize, Phases, Pending, Memoized
    <3>2. ASSUME key(d) = k, scope(d) = s
          PROVE  FALSE
      <4>1. req[d] = req[c]
        BY <1>1, <1>4, <2>2, <3>2, SameRequest DEF Memoize, Memoized
      <4>2. res[c] \notin Calls
        BY <1>4, <3>1, <4>1 DEF Led, Memoized
      <4> QED
        BY <2>1, <4>2
    <3> QED
      BY <2>2, <3>2, <1>types DEF Memoize
  <2>3. ASSUME NEW t \in Scopes, CloseScope(t)
        PROVE  memo'[s][k] = memo[s][k]
    <3>1. t # s
      BY <1>1, <2>3 DEF CloseScope
    <3> QED
      BY <1>types, <2>3, <3>1 DEF CloseScope
  <2> QED
    BY <1>1, <2>1, <2>2, <2>3, WhoSetsMemo
<1> QED
  BY <1>3, <1>4

\* What a call that comes to lead finds of the other leaders.
LEMMA LeadersBefore ==
  ASSUME Base, Phases, Led, Next, NEW c \in Calls, NEW d \in Calls, d # c,
         EnterMemo(c), memoFlight[scope(c)][key(c)] = Nil,
         memoRole'[d] = "leader", req'[d] = req'[c]
  PROVE  /\ memoRole[d] = "leader" /\ pc[d] = "done" /\ pc'[d] = "done" /\ res'[d] = res[d]
         /\ res[d] \in Calls => memo[scope(c)][key(c)] = res[d]
<1>1. memoRole[d] = "leader"
  BY DEF EnterMemo, Base, TypeOK
<1>2. req[d] = req[c] /\ scope(d) = scope(c) /\ key(d) = key(c) /\ scope(d) \in open
  BY DEF EnterMemo, Enabled, scope, key
<1>3. pc[d] = "done"
  BY <1>1, <1>2, ReadThroughAssumption DEF Led
<1> QED
  BY <1>1, <1>2, <1>3, LeaderStays DEF Led, Memoized

\* A call leads after another only when the other has failed.
LEMMA LedPending ==
  ASSUME Base, Phases, Chained, Led, Next, NEW c \in Calls, NEW d \in Calls,
         Pending(c)', memoRole'[d] = "leader", d # c, req'[d] = req'[c]
  PROVE  pc'[d] = "done" /\ res'[d] \notin Calls
<1>types. pc \in [Calls -> Places] /\ memoRole \in [Calls -> {"none", "leader", "joined"}]
  BY DEF Base, TypeOK
<1>1. CASE memoRole[c] # "leader"
  <2>1. EnterMemo(c) /\ memoFlight[scope(c)][key(c)] = Nil
    BY <1>1, WhoLeads DEF Pending
  <2>2. memo[scope(c)][key(c)] = Nil
    BY <2>1, <1>types DEF EnterMemo, Goto, Pending
  <2> QED
    BY <2>1, <2>2, LeadersBefore, ReadThroughAssumption
<1>2. CASE memoRole[c] = "leader" /\ memoRole[d] # "leader"
  <2>1. EnterMemo(d) /\ memoFlight[scope(d)][key(d)] = Nil
    BY <1>2, WhoLeads
  <2>2. pc'[c] = "done"
    BY <1>2, <2>1, LeadersBefore DEF Pending
  <2> QED
    BY <2>2 DEF Pending
<1>3. CASE memoRole[c] = "leader" /\ memoRole[d] = "leader"
  <2>1. Pending(c) /\ req[d] = req[c]
    BY <1>3, LeaderStays DEF Pending, Memoized
  <2>2. pc[d] = "done" /\ res[d] \notin Calls
    BY <1>3, <2>1 DEF Led
  <2> QED
    BY <1>3, <2>2, LeaderStays DEF Memoized
<1> QED
  BY <1>1, <1>2, <1>3

\* A newly memoized answer agrees with the answers before it.
LEMMA AgreesWithNew ==
  ASSUME Base, Phases, Chained, Led, Next, NEW c \in Calls, NEW d \in Calls, d # c,
         Memoized(c)', ~ Memoized(c), memoRole'[d] = "leader", req'[d] = req'[c],
         res'[d] \in Calls, pc'[d] = "done" \/ pc'[d] = "memoSettled"
  PROVE  res'[c] = res'[d]
<1>1. CASE Memoize(c)
  <2>1. Pending(c) /\ memoRole[d] = "leader" /\ req[d] = req[c] /\ res[d] = res'[d]
    BY <1>1 DEF Memoize, Phases, Pending
  <2> QED
    BY <2>1 DEF Led
<1>2. CASE EnterMemo(c) /\ memoFlight[scope(c)][key(c)] = Nil /\ res'[c] = memo[scope(c)][key(c)]
  BY <1>2, LeadersBefore
<1> QED
  BY <1>1, <1>2, WhoMemoizes

\* Finished leaders of one request and key agree.
LEMMA LedAgree ==
  ASSUME Base, Phases, Chained, Led, Next, NEW c \in Calls, NEW d \in Calls,
         Memoized(c)', Memoized(d)', req'[d] = req'[c], res'[c] \in Calls, res'[d] \in Calls
  PROVE  res'[c] = res'[d]
<1>1. CASE Memoized(c) /\ Memoized(d)
  BY <1>1, LeaderStays DEF Memoized, Led
<1>2. CASE ~ Memoized(c)
  BY <1>2, AgreesWithNew DEF Memoized
<1>3. CASE ~ Memoized(d)
  BY <1>3, AgreesWithNew DEF Memoized
<1> QED
  BY <1>1, <1>2, <1>3

\* Leaders stay ordered.
LEMMA LedStep == Served /\ Chained /\ Led /\ [Next]_vars => Led'
<1>1. ASSUME Served, Chained, Led, Next
      PROVE  Led'
  BY <1>1, LedFlight, LedMemo, LedPending, LedAgree DEF Served, Led, Pending, Memoized
<1>2. ASSUME Led, UNCHANGED vars
      PROVE  Led'
  BY <1>2 DEF Led, Pending, Memoized, vars, callVars, scopeVars, key, scope
<1> QED
  BY <1>1, <1>2

\* All memoizing calls of a key in one request that succeed return the same
\* value (dialcache.ts:420-440, 688-713).
THEOREM RequestConsistencyHolds == Spec => []RequestConsistency
<1>1. Init => Led
  BY DEF Init, Led, Pending, Memoized
<1>2. TypeOK /\ Chained /\ Led => RequestConsistency
  <2> SUFFICES ASSUME TypeOK, Chained, Led, NEW c \in Calls, NEW d \in Calls,
                      memoRole[c] # "none", memoRole[d] # "none",
                      pc[c] \in {"memoSettled", "done"}, pc[d] \in {"memoSettled", "done"},
                      req[c] = req[d], res[c] \in Calls, res[d] \in Calls
               PROVE  res[c] = res[d]
    BY DEF RequestConsistency
  <2>1. ASSUME NEW x \in Calls, memoRole[x] # "none", pc[x] \in {"memoSettled", "done"}
        PROVE  \E y \in Calls : Memoized(y) /\ req[y] = req[x] /\ res[y] = res[x]
    <3>1. CASE memoRole[x] = "leader"
      BY <2>1, <3>1 DEF Memoized
    <3>2. CASE memoRole[x] = "joined"
      BY <2>1, <3>2 DEF Chained, Memoized, TypeOK
    <3> QED
      BY <2>1, <3>1, <3>2 DEF TypeOK
  <2> QED
    BY <2>1 DEF Led
<1> QED
  BY <1>1, <1>2, LedStep, ServedHolds, ChainedHolds, TypeCorrect, PTL DEF Spec

-----------------------------------------------------------------------------
\* Reporting restricts nothing: what a step with metrics does to the calls
\* and caches is a step without.
LEMMA MetricsStepIsStep == MetricsNext => Next \/ UNCHANGED vars
<1> SUFFICES ASSUME MetricsNext PROVE Next
  OBVIOUS
<1>1. ASSUME NEW c \in Calls, NEW k \in Keys, NEW s \in Scopes \cup {Outside}, ReportInvoke(c, k, s)
      PROVE  Next
  BY <1>1 DEF ReportInvoke, Next
<1>2. ASSUME NEW c \in Calls, ReportBypass(c)
      PROVE  Next
  BY <1>2 DEF ReportBypass, Next, Step
<1>3. ASSUME NEW c \in Calls, ReportStep(c)
      PROVE  Next
  <2>1. Step(c) \/ Loader(c)
    BY <1>3, Zenon DEF ReportStep, Quiet, Step, Loader
  <2> QED
    BY <2>1 DEF Next
<1> QED
  BY <1>1, <1>2, <1>3, Zenon DEF MetricsNext, Next

\* By construction the observed chain is the chain with samples added to its
\* steps: the invariants of ReadThrough can be used for it.  (That adapters
\* which throw are harmless is not modelled; dialcache.ts:928-953.)
LEMMA MetricsChangeNothing == MetricsSpec => Spec
<1>1. MetricsInit => Init
  BY DEF MetricsInit
<1>2. [MetricsNext]_<<vars, metricVars>> => [Next]_vars
  BY MetricsStepIsStep
<1> QED
  BY <1>1, <1>2, PTL DEF MetricsSpec, Spec

-----------------------------------------------------------------------------
\* The calls that no answer, hit or outcome has been counted for.
Unanswered == {"idle", "config", "localConfig", "remoteConfig", "read", "readBack", "load"}

\* The remote layer was sought and gave no value: what a loader is then
\* attributed to.
Sought == {"miss", "readError", "configError"}

Reckoned   == {c \in Calls : pc[c] \notin Unanswered}
Unobserved == {c \in Calls : outside[c] = "raw"}
Owed       == {c \in Calls : pc[c] = "load" /\ outside[c] # "noop" /\ plan[c].remote \in Sought}
PastNoop   == {c \in Calls : outside[c] = "noop" /\ pc[c] # "load"}

\* What the counters say: calls answered, and failures of the remote layer.
Total    == (Sum3("request") - Sum3("miss")) + Coalesced + Fallbacks
Failures == count[<<"miss", "remote">>] + count[<<"error", "cache_read">>]
            + count[<<"config_error", "remote">>]

CountTypeOK ==
  /\ count \in [Samples -> Nat]
  /\ outside \in [Calls -> {"no", "raw", "noop"}]

\* A call learns of the remote layer only by what makes it load, and is
\* outside of the layers only on the ways around them.
Fits(p, o, rem) ==
  /\ p \in {"idle", "config", "localConfig", "remoteConfig", "read", "readBack"} => rem = "none"
  /\ p \in {"idle", "config"} => o = "no"
  /\ o = "raw" => p \in {"raw", "done"}
  /\ o = "noop" =>
       p \in {"load", "write", "writeBack", "settled", "chained", "memoSettled", "done"}

CallsFit == \A c \in Calls : Fits(pc[c], outside[c], plan[c].remote)

\* At every moment, not only when all calls are done.
Balanced ==
  /\ Cardinality(Reckoned) = Total + Cardinality(Unobserved)
  /\ count[<<"fallback", "remote">>] + Cardinality(Owed) = Failures
  /\ count[<<"fallback", "noop">>] = Cardinality(PastNoop)

\* The inductive invariant, given Base.
MetricsInv == CountTypeOK /\ CallsFit /\ Balanced

-----------------------------------------------------------------------------
\* What a step adds to a number that is 1 for the members of a set.
Has(c, S) == IF c \in S THEN 1 ELSE 0

LEMMA OneMoves ==
  ASSUME NEW S, NEW T, NEW c, IsFiniteSet(S), S \ {c} = T \ {c}
  PROVE  /\ Cardinality(S) \in Int /\ Cardinality(T) \in Int
         /\ Cardinality(T) - Cardinality(S) = Has(c, T) - Has(c, S)
<1>1. IsFiniteSet(S \ {c})
  BY FS_RemoveElement
<1>2. T = S \ {c} \/ (c \in T /\ T = (S \ {c}) \cup {c})
  OBVIOUS
<1>3. S = S \ {c} \/ (c \in S /\ S = (S \ {c}) \cup {c})
  OBVIOUS
<1>4. Cardinality(S \ {c}) \in Nat
  BY <1>1, FS_CardinalityType
<1>5. Cardinality((S \ {c}) \cup {c}) = Cardinality(S \ {c}) + 1
  BY <1>1, FS_AddElement
<1>6. Cardinality(T) = Cardinality(S \ {c}) + Has(c, T)
  BY <1>2, <1>4, <1>5 DEF Has
<1>7. Cardinality(S) = Cardinality(S \ {c}) + Has(c, S)
  BY <1>3, <1>4, <1>5 DEF Has
<1> QED
  BY <1>4, <1>6, <1>7 DEF Has

\* The samples that the balances are about.
LEMMA SamplesKnown ==
  /\ \A layer \in CacheLayers : <<"request", layer>> \in Samples /\ <<"miss", layer>> \in Samples
  /\ \A layer \in Layers : /\ <<"disabled", layer>> \in Samples
                           /\ <<"fallback", layer>> \in Samples
                           /\ <<"config_error", layer>> \in Samples
  /\ <<"coalesced", "request_local">> \in Samples /\ <<"coalesced", "process">> \in Samples
  /\ <<"error", "cache_read">> \in Samples
  BY DEF Samples, Layers, CacheLayers

Added(sample, S) == IF sample \in S THEN 1 ELSE 0
Added3(metric, S) ==
  Added(<<metric, "request_local">>, S) + Added(<<metric, "local">>, S)
  + Added(<<metric, "remote">>, S)
AddedTotal(S) ==
  (Added3("request", S) - Added3("miss", S))
  + (Added(<<"coalesced", "request_local">>, S) + Added(<<"coalesced", "process">>, S))
  + (Added3("fallback", S) + Added(<<"fallback", "noop">>, S))
AddedFailures(S) ==
  Added(<<"miss", "remote">>, S) + Added(<<"error", "cache_read">>, S)
  + Added(<<"config_error", "remote">>, S)

\* By how much a report changes what the counters say.
LEMMA ReportAdds ==
  ASSUME CountTypeOK, NEW S, Report(S)
  PROVE  /\ count' \in [Samples -> Nat]
         /\ Total \in Int /\ Total' = Total + AddedTotal(S)
         /\ Failures \in Int /\ Failures' = Failures + AddedFailures(S)
         /\ \A layer \in Layers :
              count'[<<"fallback", layer>>]
                = count[<<"fallback", layer>>] + Added(<<"fallback", layer>>, S)
<1>1. /\ count' \in [Samples -> Nat]
      /\ \A s \in Samples : count[s] \in Nat /\ count'[s] = count[s] + Added(s, S)
  BY DEF CountTypeOK, Report, Added
<1>2. \A s : Added(s, S) \in Nat
  BY DEF Added
<1>3. /\ {"request_local", "local", "remote"} \subseteq CacheLayers
      /\ {"request_local", "local", "remote", "noop"} \subseteq Layers
  BY DEF Layers, CacheLayers
<1>4. Failures \in Int /\ Failures' = Failures + AddedFailures(S)
  <2>1. \A s \in {<<"miss", "remote">>, <<"error", "cache_read">>, <<"config_error", "remote">>} :
          count[s] \in Nat /\ Added(s, S) \in Nat /\ count'[s] = count[s] + Added(s, S)
    BY <1>1, <1>2, <1>3, SamplesKnown
  <2> QED
    BY <2>1 DEF Failures, AddedFailures
<1>5. ASSUME NEW metric \in {"request", "miss", "fallback"}
      PROVE  /\ Sum3(metric) \in Nat /\ Added3(metric, S) \in Nat
             /\ Sum3(metric)' = Sum3(metric) + Added3(metric, S)
  <2>1. \A layer \in {"request_local", "local", "remote"} : <<metric, layer>> \in Samples
    BY <1>3, SamplesKnown
  <2>2. \A layer \in {"request_local", "local", "remote"} :
          /\ count[<<metric, layer>>] \in Nat /\ Added(<<metric, layer>>, S) \in Nat
          /\ count'[<<metric, layer>>] = count[<<metric, layer>>] + Added(<<metric, layer>>, S)
    BY <1>1, <1>2, <2>1
  <2> QED
    BY <2>2 DEF Sum3, Added3
<1>6. \A s \in {<<"coalesced", "request_local">>, <<"coalesced", "process">>,
                <<"fallback", "noop">>} :
        count[s] \in Nat /\ Added(s, S) \in Nat /\ count'[s] = count[s] + Added(s, S)
  BY <1>1, <1>2, <1>3, SamplesKnown
<1>7. /\ Coalesced \in Nat
      /\ Coalesced' = Coalesced + (Added(<<"coalesced", "request_local">>, S)
                                     + Added(<<"coalesced", "process">>, S))
  BY <1>6 DEF Coalesced
<1>9. /\ Fallbacks \in Nat
      /\ Fallbacks' = Fallbacks + (Added3("fallback", S) + Added(<<"fallback", "noop">>, S))
  BY <1>5, <1>6 DEF Fallbacks
<1>10. Total \in Int /\ Total' = Total + AddedTotal(S)
  BY <1>2, <1>5, <1>7, <1>9 DEF Total, AddedTotal
<1> QED
  BY <1>1, <1>3, <1>4, <1>10, SamplesKnown

-----------------------------------------------------------------------------
\* What the reports of the actions add.
Adds(S, total, failures, fallbacks) ==
  /\ AddedTotal(S) = total
  /\ AddedFailures(S) = failures
  /\ \A layer \in Layers : Added(<<"fallback", layer>>, S) = Has(layer, fallbacks)

Labels == {"request_local", "local", "remote", "noop", "process", "cache_read"}

LEMMA LookupAdds ==
  ASSUME NEW layer \in CacheLayers, NEW hit \in BOOLEAN
  PROVE  Adds(Reached(layer, hit), IF hit THEN 1 ELSE 0,
              IF ~ hit /\ layer = "remote" THEN 1 ELSE 0, {})
<1> DEFINE S == Reached(layer, hit)
<1>1. \A l \in Labels : /\ Added(<<"request", l>>, S) = Has(l, {layer})
                        /\ Added(<<"miss", l>>, S) = IF hit THEN 0 ELSE Has(l, {layer})
                        /\ Added(<<"fallback", l>>, S) = 0 /\ Added(<<"coalesced", l>>, S) = 0
                        /\ Added(<<"error", l>>, S) = 0 /\ Added(<<"config_error", l>>, S) = 0
  BY DEF Reached, Added, Has, Labels
<1> HIDE DEF S
<1>2. AddedTotal(S) = IF hit THEN 1 ELSE 0
  BY <1>1 DEF AddedTotal, Added3, Has, CacheLayers, Labels
<1>3. AddedFailures(S) = IF ~ hit /\ layer = "remote" THEN 1 ELSE 0
  BY <1>1 DEF AddedFailures, Has, CacheLayers, Labels
<1>4. Adds(S, IF hit THEN 1 ELSE 0, IF ~ hit /\ layer = "remote" THEN 1 ELSE 0, {})
  BY <1>1, <1>2, <1>3 DEF Adds, Has, Labels, Layers, CacheLayers
<1> QED
  BY <1>4 DEF S

LEMMA HitAdds ==
  ASSUME NEW layer \in CacheLayers
  PROVE  Adds({<<"request", layer>>}, 1, 0, {})
<1>1. Reached(layer, TRUE) = {<<"request", layer>>}
  BY DEF Reached
<1> QED
  BY <1>1, LookupAdds, Zenon

LEMMA MissAdds ==
  ASSUME NEW layer \in CacheLayers
  PROVE  Adds({<<"request", layer>>, <<"miss", layer>>}, 0, IF layer = "remote" THEN 1 ELSE 0, {})
<1>1. Reached(layer, FALSE) = {<<"request", layer>>, <<"miss", layer>>}
  BY DEF Reached
<1> QED
  BY <1>1, LookupAdds, Zenon

LEMMA CoalescedAdds ==
  ASSUME NEW of \in {"request_local", "process"}
  PROVE  Adds({<<"coalesced", of>>}, 1, 0, {})
<1> DEFINE S == {<<"coalesced", of>>}
<1>1. \A l \in Labels : /\ Added(<<"request", l>>, S) = 0 /\ Added(<<"miss", l>>, S) = 0
                        /\ Added(<<"fallback", l>>, S) = 0
                        /\ Added(<<"coalesced", l>>, S) = Has(l, {of})
                        /\ Added(<<"error", l>>, S) = 0 /\ Added(<<"config_error", l>>, S) = 0
  BY DEF Added, Has, Labels
<1> HIDE DEF S
<1>2. AddedTotal(S) = 1 /\ AddedFailures(S) = 0
  BY <1>1 DEF AddedTotal, AddedFailures, Added3, Labels, Has
<1>3. Adds(S, 1, 0, {})
  BY <1>1, <1>2 DEF Adds, Has, Labels, Layers, CacheLayers
<1> QED
  BY <1>3 DEF S

LEMMA FallbackAdds ==
  ASSUME NEW layer \in Layers,
         NEW S \in {{<<"fallback", layer>>}, {<<"fallback", layer>>, <<"error", "fallback">>}}
  PROVE  Adds(S, 1, 0, {layer})
<1>1. \A l \in Labels : /\ Added(<<"request", l>>, S) = 0 /\ Added(<<"miss", l>>, S) = 0
                        /\ Added(<<"fallback", l>>, S) = Has(l, {layer})
                        /\ Added(<<"coalesced", l>>, S) = 0
                        /\ Added(<<"config_error", l>>, S) = 0
                        /\ Added(<<"error", l>>, S) = 0
  BY DEF Added, Has, Labels
<1>2. AddedTotal(S) = 1 /\ AddedFailures(S) = 0
  BY <1>1 DEF AddedTotal, AddedFailures, Added3, Labels, Has, Layers, CacheLayers
<1> QED
  BY <1>1, <1>2 DEF Adds, Has, Labels, Layers, CacheLayers

\* Samples that say nothing of an answer.
Silent == ({"disabled"} \X Layers)
          \cup {<<"config_error", "noop">>, <<"error", "key_construction">>,
                <<"error", "cache_write">>}

LEMMA SilentAdds ==
  ASSUME NEW S \in SUBSET Silent
  PROVE  Adds(S, 0, 0, {})
<1>1. \A l \in Labels : /\ Added(<<"request", l>>, S) = 0 /\ Added(<<"miss", l>>, S) = 0
                        /\ Added(<<"fallback", l>>, S) = 0 /\ Added(<<"coalesced", l>>, S) = 0
                        /\ l # "noop" => Added(<<"config_error", l>>, S) = 0
                        /\ Added(<<"error", l>>, S) = 0
  BY DEF Added, Silent, Labels
<1>2. AddedTotal(S) = 0 /\ AddedFailures(S) = 0
  BY <1>1 DEF AddedTotal, AddedFailures, Added3, Labels
<1> QED
  BY <1>1, <1>2 DEF Adds, Has, Labels, Layers, CacheLayers

LEMMA RemoteFailureAdds ==
  ASSUME NEW S \in {{<<"error", "cache_read">>},
                    {<<"disabled", "remote">>, <<"config_error", "remote">>}}
  PROVE  Adds(S, 0, 1, {})
<1>1. \A l \in Labels : /\ Added(<<"request", l>>, S) = 0 /\ Added(<<"miss", l>>, S) = 0
                        /\ Added(<<"fallback", l>>, S) = 0 /\ Added(<<"coalesced", l>>, S) = 0
  BY DEF Added, Labels
<1>2. Added(<<"error", "cache_read">>, S) + Added(<<"config_error", "remote">>, S) = 1
  BY DEF Added
<1>3. Added(<<"error", "cache_read">>, S) \in Nat /\ Added(<<"config_error", "remote">>, S) \in Nat
  BY DEF Added
<1>4. AddedTotal(S) = 0 /\ AddedFailures(S) = 1
  BY <1>1, <1>2, <1>3 DEF AddedTotal, AddedFailures, Added3, Labels
<1> QED
  BY <1>1, <1>4 DEF Adds, Has, Labels, Layers, CacheLayers

-----------------------------------------------------------------------------
\* What a call contributes to each side, by where it is, what it did outside
\* of the layers and what it knows of the remote one.
Ans(p)          == IF p \in Unanswered THEN 0 ELSE 1
Raw(o)          == IF o = "raw" THEN 1 ELSE 0
Owes(p, o, rem) == IF p = "load" /\ o # "noop" /\ rem \in Sought THEN 1 ELSE 0
Past(p, o)      == IF o = "noop" /\ p # "load" THEN 1 ELSE 0

\* Everyone but c stays where it is and as it is.
OthersStay(c) ==
  \A d \in Calls \ {c} : pc'[d] = pc[d] /\ plan'[d] = plan[d] /\ outside'[d] = outside[d]

\* What one call contributes changes as its report says.
Accounts(c, total, failures, fallbacks) ==
  /\ total = (Ans(pc'[c]) - Ans(pc[c])) - (Raw(outside'[c]) - Raw(outside[c]))
  /\ failures = Has("remote", fallbacks)
                  + (Owes(pc'[c], outside'[c], plan'[c].remote)
                       - Owes(pc[c], outside[c], plan[c].remote))
  /\ Has("noop", fallbacks) = Past(pc'[c], outside'[c]) - Past(pc[c], outside[c])

\* Then the balance is kept.
LEMMA Balancing ==
  ASSUME CountTypeOK, Balanced, NEW c \in Calls, OthersStay(c),
         NEW S, NEW total \in Int, NEW failures \in Int, NEW fallbacks,
         Report(S), Adds(S, total, failures, fallbacks), Accounts(c, total, failures, fallbacks)
  PROVE  Balanced'
<1>1. \A T \in {Reckoned, Unobserved, Owed, PastNoop} : T \subseteq Calls
  BY DEF Reckoned, Unobserved, Owed, PastNoop
<1>2. \A T \in {Reckoned, Unobserved, Owed, PastNoop} : IsFiniteSet(T)
  BY <1>1, ReadThroughAssumption, FS_Subset
<1>3. /\ Reckoned \ {c} = Reckoned' \ {c} /\ Unobserved \ {c} = Unobserved' \ {c}
      /\ Owed \ {c} = Owed' \ {c} /\ PastNoop \ {c} = PastNoop' \ {c}
  BY DEF OthersStay, Reckoned, Unobserved, Owed, PastNoop
<1>4. /\ Cardinality(Reckoned) \in Int /\ Cardinality(Reckoned') \in Int
      /\ Cardinality(Reckoned') - Cardinality(Reckoned) = Ans(pc'[c]) - Ans(pc[c])
  <2>1. Has(c, Reckoned) = Ans(pc[c]) /\ Has(c, Reckoned') = Ans(pc'[c])
    BY DEF Has, Ans, Reckoned
  <2> QED
    BY <2>1, <1>2, <1>3, OneMoves
<1>5. /\ Cardinality(Unobserved) \in Int /\ Cardinality(Unobserved') \in Int
      /\ Cardinality(Unobserved') - Cardinality(Unobserved) = Raw(outside'[c]) - Raw(outside[c])
  <2>1. Has(c, Unobserved) = Raw(outside[c]) /\ Has(c, Unobserved') = Raw(outside'[c])
    BY DEF Has, Raw, Unobserved
  <2> QED
    BY <2>1, <1>2, <1>3, OneMoves
<1>6. /\ Cardinality(Owed) \in Int /\ Cardinality(Owed') \in Int
      /\ Cardinality(Owed') - Cardinality(Owed)
           = Owes(pc'[c], outside'[c], plan'[c].remote) - Owes(pc[c], outside[c], plan[c].remote)
  <2>1. /\ Has(c, Owed) = Owes(pc[c], outside[c], plan[c].remote)
        /\ Has(c, Owed') = Owes(pc'[c], outside'[c], plan'[c].remote)
    BY DEF Has, Owes, Owed
  <2> QED
    BY <2>1, <1>2, <1>3, OneMoves
<1>7. /\ Cardinality(PastNoop) \in Int /\ Cardinality(PastNoop') \in Int
      /\ Cardinality(PastNoop') - Cardinality(PastNoop)
           = Past(pc'[c], outside'[c]) - Past(pc[c], outside[c])
  <2>1. Has(c, PastNoop) = Past(pc[c], outside[c]) /\ Has(c, PastNoop') = Past(pc'[c], outside'[c])
    BY DEF Has, Past, PastNoop
  <2> QED
    BY <2>1, <1>2, <1>3, OneMoves
<1>8. /\ Total \in Int /\ Total' = Total + total
      /\ Failures \in Int /\ Failures' = Failures + failures
  BY ReportAdds DEF Adds
<1>9. \A layer \in {"remote", "noop"} :
        /\ count[<<"fallback", layer>>] \in Int
        /\ Has(layer, fallbacks) \in Int
        /\ count'[<<"fallback", layer>>] = count[<<"fallback", layer>>] + Has(layer, fallbacks)
  <2>1. {"remote", "noop"} \subseteq Layers
    BY DEF Layers, CacheLayers
  <2>2. \A layer \in {"remote", "noop"} : count[<<"fallback", layer>>] \in Nat
    BY <2>1, SamplesKnown DEF CountTypeOK
  <2>3. \A layer \in {"remote", "noop"} : Added(<<"fallback", layer>>, S) = Has(layer, fallbacks)
    BY <2>1 DEF Adds
  <2>4. \A layer \in {"remote", "noop"} : Has(layer, fallbacks) \in Int
    BY DEF Has
  <2>5. \A layer \in {"remote", "noop"} :
          count'[<<"fallback", layer>>]
            = count[<<"fallback", layer>>] + Added(<<"fallback", layer>>, S)
    BY <2>1, ReportAdds, Zenon
  <2> QED
    BY <2>2, <2>3, <2>4, <2>5
<1>10. /\ Ans(pc[c]) \in Int /\ Ans(pc'[c]) \in Int
       /\ Raw(outside[c]) \in Int /\ Raw(outside'[c]) \in Int
  BY DEF Ans, Raw
<1>11. Cardinality(Reckoned') = Total' + Cardinality(Unobserved')
  BY <1>4, <1>5, <1>8, <1>10 DEF Balanced, Accounts
<1>12. count'[<<"fallback", "remote">>] + Cardinality(Owed') = Failures'
  <2>1. Owes(pc[c], outside[c], plan[c].remote) \in Int
        /\ Owes(pc'[c], outside'[c], plan'[c].remote) \in Int
    BY DEF Owes
  <2> QED
    BY <1>6, <1>8, <1>9, <2>1 DEF Balanced, Accounts
<1>13. count'[<<"fallback", "noop">>] = Cardinality(PastNoop')
  <2>1. Past(pc[c], outside[c]) \in Int /\ Past(pc'[c], outside'[c]) \in Int
    BY DEF Past
  <2> QED
    BY <1>7, <1>9, <2>1 DEF Balanced, Accounts
<1> QED
  BY <1>11, <1>12, <1>13 DEF Balanced

LEMMA NoReport ==
  ASSUME CountTypeOK, UNCHANGED count
  PROVE  Report({}) /\ Adds({}, 0, 0, {})
<1>1. \A s \in Samples : count[s] \in Nat
  BY DEF CountTypeOK
<1>2. count' = [s \in Samples |-> count[s] + 0]
  BY <1>1 DEF CountTypeOK
<1> QED
  BY <1>2, SilentAdds DEF Report

\* The invariant survives a step of one call that accounts for itself.
LEMMA Keeping ==
  ASSUME MetricsInv, NEW c \in Calls, OthersStay(c),
         NEW S, NEW total \in Int, NEW failures \in Int, NEW fallbacks,
         Report(S), Adds(S, total, failures, fallbacks), Accounts(c, total, failures, fallbacks),
         Fits(pc'[c], outside'[c], plan'[c].remote),
         outside' \in [Calls -> {"no", "raw", "noop"}]
  PROVE  MetricsInv'
<1>1. CountTypeOK'
  BY ReportAdds DEF MetricsInv, CountTypeOK
<1>2. CallsFit'
  BY DEF MetricsInv, CallsFit, OthersStay
<1>3. Balanced'
  BY Balancing DEF MetricsInv
<1> QED
  BY <1>1, <1>2, <1>3 DEF MetricsInv

LEMMA MetricsInitHolds == MetricsInit => MetricsInv
<1> SUFFICES ASSUME MetricsInit PROVE MetricsInv
  OBVIOUS
<1>1. /\ \A s \in Samples : count[s] = 0
      /\ \A c \in Calls : pc[c] = "idle" /\ outside[c] = "no" /\ plan[c].remote = "none"
  BY DEF MetricsInit, Init, NoPlan
<1>2. CountTypeOK
  BY DEF MetricsInit, CountTypeOK
<1>3. CallsFit
  BY <1>1 DEF CallsFit, Fits
<1>4. Reckoned = {} /\ Unobserved = {} /\ Owed = {} /\ PastNoop = {}
  BY <1>1 DEF Reckoned, Unobserved, Owed, PastNoop, Unanswered
<1>5. /\ {"request_local", "local", "remote"} \subseteq CacheLayers
      /\ {"request_local", "local", "remote", "noop"} \subseteq Layers
  BY DEF Layers, CacheLayers
<1>6. \A layer \in {"request_local", "local", "remote"} :
        /\ count[<<"request", layer>>] = 0 /\ count[<<"miss", layer>>] = 0
        /\ count[<<"fallback", layer>>] = 0
  BY <1>1, <1>5, SamplesKnown
<1>7. /\ count[<<"coalesced", "request_local">>] = 0 /\ count[<<"coalesced", "process">>] = 0
      /\ count[<<"fallback", "noop">>] = 0 /\ count[<<"error", "cache_read">>] = 0
      /\ count[<<"config_error", "remote">>] = 0
  BY <1>1, <1>5, SamplesKnown
<1>8. Total = 0 /\ Failures = 0
  BY <1>6, <1>7 DEF Total, Sum3, Coalesced, Fallbacks, Failures
<1>9. Balanced
  BY <1>4, <1>6, <1>7, <1>8, FS_EmptySet DEF Balanced
<1> QED
  BY <1>2, <1>3, <1>9 DEF MetricsInv

-----------------------------------------------------------------------------
\* The balances are kept by every report.
LEMMA MetricsStepHolds ==
  ASSUME TypeOK, MetricsInv, MetricsNext
  PROVE  MetricsInv'
<1>pc. pc \in [Calls -> Places]
  BY DEF TypeOK
<1>plan. plan \in [Calls -> Plans]
  BY DEF TypeOK, Plans
<1>out. outside \in [Calls -> {"no", "raw", "noop"}]
  BY DEF MetricsInv, CountTypeOK
<1>fit. \A c \in Calls : Fits(pc[c], outside[c], plan[c].remote)
  BY DEF MetricsInv, CallsFit
<1>count. CountTypeOK
  BY DEF MetricsInv
<1> USE DEF Ans, Raw, Owes, Past, Has, Unanswered, Sought, Goto, Plans
<1>1. ASSUME NEW c \in Calls, NEW k \in Keys, NEW s \in Scopes \cup {Outside}, ReportInvoke(c, k, s)
      PROVE  MetricsInv'
  <2> DEFINE S == IF ~ Enabled(s) THEN {<<"disabled", "noop">>}
                  ELSE IF pc'[c] = "load" THEN {<<"error", "key_construction">>} ELSE {}
  <2>1. OthersStay(c) /\ outside' \in [Calls -> {"no", "raw", "noop"}]
    BY <1>1, <1>pc, <1>plan, <1>out DEF OthersStay, ReportInvoke, Invoke, StartLoad
  <2>2. Accounts(c, 0, 0, {}) /\ Fits(pc'[c], outside'[c], plan'[c].remote)
    BY <1>1, <1>pc, <1>plan, <1>out, <1>fit DEF Accounts, Fits, ReportInvoke, Invoke, StartLoad
  <2>3. Report(S) /\ S \in SUBSET Silent
    BY <1>1 DEF ReportInvoke, Silent, Layers
  <2> QED
    BY <2>1, <2>2, <2>3, SilentAdds, Keeping
<1>2. ASSUME NEW c \in Calls, ReportBypass(c)
      PROVE  MetricsInv'
  <2>1. OthersStay(c) /\ outside' \in [Calls -> {"no", "raw", "noop"}]
    BY <1>2, <1>pc, <1>plan, <1>out DEF OthersStay, ReportBypass, Bypass, StartLoad
  <2>2. Accounts(c, 0, 0, {}) /\ Fits(pc'[c], outside'[c], plan'[c].remote)
    BY <1>2, <1>pc, <1>plan, <1>out, <1>fit DEF Accounts, Fits, ReportBypass, Bypass, StartLoad
  <2>3. PICK failed \in {<<"config_error", "noop">>, <<"disabled", "noop">>} :
          Report({<<"disabled", "noop">>, failed})
    BY <1>2 DEF ReportBypass
  <2>4. {<<"disabled", "noop">>, failed} \in SUBSET Silent
    BY DEF Silent, Layers
  <2> QED
    BY <2>1, <2>2, <2>3, <2>4, SilentAdds, Keeping
<1>3. ASSUME NEW c \in Calls, EnterMemo(c), Report(MemoSamples(c)), UNCHANGED outside
      PROVE  MetricsInv'
  <2>1. OthersStay(c) /\ outside' \in [Calls -> {"no", "raw", "noop"}]
    BY <1>3, <1>pc, <1>plan, <1>out DEF OthersStay, EnterMemo
  <2>2. CASE pc'[c] = "waitMemo"
    <3>1. Accounts(c, 1, 0, {}) /\ Fits(pc'[c], outside'[c], plan'[c].remote)
      BY <1>3, <2>2, <1>pc, <1>plan, <1>out, <1>fit DEF Accounts, Fits, EnterMemo
    <3>2. /\ Report({<<"coalesced", "request_local">>})
          /\ Adds({<<"coalesced", "request_local">>}, 1, 0, {})
      BY <1>3, <2>2, CoalescedAdds DEF MemoSamples
    <3> QED
      BY <2>1, <3>1, <3>2, Keeping
  <2>3. CASE pc'[c] = "memoSettled"
    <3>1. Accounts(c, 1, 0, {}) /\ Fits(pc'[c], outside'[c], plan'[c].remote)
      BY <1>3, <2>3, <1>pc, <1>plan, <1>out, <1>fit DEF Accounts, Fits, EnterMemo
    <3>2. /\ Report({<<"request", "request_local">>})
          /\ Adds({<<"request", "request_local">>}, 1, 0, {})
      BY <1>3, <2>3, HitAdds DEF MemoSamples, CacheLayers, Reached
    <3> QED
      BY <2>1, <3>1, <3>2, Keeping
  <2>4. CASE pc'[c] = "localConfig"
    <3>1. Accounts(c, 0, 0, {}) /\ Fits(pc'[c], outside'[c], plan'[c].remote)
      BY <1>3, <2>4, <1>pc, <1>plan, <1>out, <1>fit DEF Accounts, Fits, EnterMemo
    <3>2. /\ Report({<<"request", "request_local">>, <<"miss", "request_local">>})
          /\ Adds({<<"request", "request_local">>, <<"miss", "request_local">>}, 0, 0, {})
      BY <1>3, <2>4, MissAdds DEF MemoSamples, CacheLayers, Reached
    <3> QED
      BY <2>1, <3>1, <3>2, Keeping
  <2> QED
    BY <1>3, <2>2, <2>3, <2>4, <1>pc DEF EnterMemo
<1>4. ASSUME NEW c \in Calls, LocalOn(c), Report(LocalSamples(c)), UNCHANGED outside
      PROVE  MetricsInv'
  <2>1. OthersStay(c) /\ outside' \in [Calls -> {"no", "raw", "noop"}]
    BY <1>4, <1>pc, <1>plan, <1>out DEF OthersStay, LocalOn, JoinProcess, NewFlight,
       SettleFlight, StartLoad
  <2>2. CASE pc'[c] = "waitShared"
    <3>1. Accounts(c, 1, 0, {}) /\ Fits(pc'[c], outside'[c], plan'[c].remote)
      BY <1>4, <2>2, <1>pc, <1>plan, <1>out, <1>fit DEF Accounts, Fits, LocalOn, JoinProcess,
         NewFlight, SettleFlight, StartLoad
    <3>2. Report({<<"coalesced", "process">>}) /\ Adds({<<"coalesced", "process">>}, 1, 0, {})
      BY <1>4, <2>2, CoalescedAdds DEF LocalSamples
    <3> QED
      BY <2>1, <3>1, <3>2, Keeping
  <2>3. CASE pc'[c] = "settled"
    <3>1. Accounts(c, 1, 0, {}) /\ Fits(pc'[c], outside'[c], plan'[c].remote)
      BY <1>4, <2>3, <1>pc, <1>plan, <1>out, <1>fit DEF Accounts, Fits, LocalOn, JoinProcess,
         NewFlight, SettleFlight, StartLoad
    <3>2. Report({<<"request", "local">>}) /\ Adds({<<"request", "local">>}, 1, 0, {})
      BY <1>4, <2>3, HitAdds DEF LocalSamples, CacheLayers, Reached
    <3> QED
      BY <2>1, <3>1, <3>2, Keeping
  <2>4. CASE pc'[c] \in {"remoteConfig", "load"}
    <3>1. Accounts(c, 0, 0, {}) /\ Fits(pc'[c], outside'[c], plan'[c].remote)
      BY <1>4, <2>4, <1>pc, <1>plan, <1>out, <1>fit DEF Accounts, Fits, LocalOn, JoinProcess,
         NewFlight, SettleFlight, StartLoad
    <3>2. /\ Report({<<"request", "local">>, <<"miss", "local">>})
          /\ Adds({<<"request", "local">>, <<"miss", "local">>}, 0, 0, {})
      BY <1>4, <2>4, MissAdds DEF LocalSamples, CacheLayers, Reached
    <3> QED
      BY <2>1, <3>1, <3>2, Keeping
  <2> QED
    BY <1>4, <2>2, <2>3, <2>4, <1>pc DEF LocalOn, JoinProcess, NewFlight, SettleFlight, StartLoad
<1>5. ASSUME NEW c \in Calls, LocalOff(c), Report({<<"disabled", "local">>}), UNCHANGED outside
      PROVE  MetricsInv'
  <2>1. OthersStay(c) /\ outside' \in [Calls -> {"no", "raw", "noop"}]
    BY <1>5, <1>pc, <1>plan, <1>out DEF OthersStay, LocalOff, StartLoad
  <2>2. Accounts(c, 0, 0, {}) /\ Fits(pc'[c], outside'[c], plan'[c].remote)
    BY <1>5, <1>pc, <1>plan, <1>out, <1>fit DEF Accounts, Fits, LocalOff, StartLoad
  <2>3. Report({<<"disabled", "local">>}) /\ Adds({<<"disabled", "local">>}, 0, 0, {})
    BY <1>5, SilentAdds DEF Silent, Layers, CacheLayers
  <2> QED
    BY <2>1, <2>2, <2>3, Keeping
<1>6. ASSUME NEW c \in Calls, RemoteOn(c), UNCHANGED outside,
             Report(IF pc'[c] = "waitShared" THEN {<<"coalesced", "process">>} ELSE {})
      PROVE  MetricsInv'
  <2>1. OthersStay(c) /\ outside' \in [Calls -> {"no", "raw", "noop"}]
    BY <1>6, <1>pc, <1>plan, <1>out DEF OthersStay, RemoteOn, JoinProcess, NewFlight
  <2>2. CASE pc'[c] = "waitShared"
    <3>1. Accounts(c, 1, 0, {}) /\ Fits(pc'[c], outside'[c], plan'[c].remote)
      BY <1>6, <2>2, <1>pc, <1>plan, <1>out, <1>fit DEF Accounts, Fits, RemoteOn, JoinProcess,
         NewFlight
    <3>2. Report({<<"coalesced", "process">>}) /\ Adds({<<"coalesced", "process">>}, 1, 0, {})
      BY <1>6, <2>2, CoalescedAdds
    <3> QED
      BY <2>1, <3>1, <3>2, Keeping
  <2>3. CASE pc'[c] = "read"
    <3>1. Accounts(c, 0, 0, {}) /\ Fits(pc'[c], outside'[c], plan'[c].remote)
      BY <1>6, <2>3, <1>pc, <1>plan, <1>out, <1>fit DEF Accounts, Fits, RemoteOn, JoinProcess,
         NewFlight
    <3>2. Report({}) /\ Adds({}, 0, 0, {})
      BY <1>6, <2>3, SilentAdds
    <3> QED
      BY <2>1, <3>1, <3>2, Keeping
  <2> QED
    BY <1>6, <2>2, <2>3, <1>pc DEF RemoteOn, JoinProcess, NewFlight
<1>7. ASSUME NEW c \in Calls, NEW why \in {"off", "configError"}, RemoteOff(c, why),
             Report(DisabledRemote(why)), UNCHANGED outside
      PROVE  MetricsInv'
  <2>1. OthersStay(c) /\ outside' \in [Calls -> {"no", "raw", "noop"}]
    BY <1>7, <1>pc, <1>plan, <1>out DEF OthersStay, RemoteOff, StartLoad
  <2>2. CASE why = "off"
    <3>1. Accounts(c, 0, 0, {}) /\ Fits(pc'[c], outside'[c], plan'[c].remote)
      BY <1>7, <2>2, <1>pc, <1>plan, <1>out, <1>fit DEF Accounts, Fits, RemoteOff, StartLoad
    <3>2. Report({<<"disabled", "remote">>}) /\ Adds({<<"disabled", "remote">>}, 0, 0, {})
      BY <1>7, <2>2, SilentAdds DEF DisabledRemote, Silent, Layers, CacheLayers
    <3> QED
      BY <2>1, <3>1, <3>2, Keeping
  <2>3. CASE why = "configError"
    <3>1. Accounts(c, 0, 1, {}) /\ Fits(pc'[c], outside'[c], plan'[c].remote)
      BY <1>7, <2>3, <1>pc, <1>plan, <1>out, <1>fit DEF Accounts, Fits, RemoteOff, StartLoad
    <3>2. /\ Report({<<"disabled", "remote">>, <<"config_error", "remote">>})
          /\ Adds({<<"disabled", "remote">>, <<"config_error", "remote">>}, 0, 1, {})
      BY <1>7, <2>3, RemoteFailureAdds DEF DisabledRemote
    <3> QED
      BY <2>1, <3>1, <3>2, Keeping
  <2> QED
    BY <1>7, <2>2, <2>3, <1>pc DEF RemoteOff, StartLoad
<1>8. ASSUME NEW c \in Calls, ReadHit(c), Report(ReadSamples(c)), UNCHANGED outside
      PROVE  MetricsInv'
  <2>1. OthersStay(c) /\ outside' \in [Calls -> {"no", "raw", "noop"}]
    BY <1>8, <1>pc, <1>plan, <1>out DEF OthersStay, ReadHit, SettleFlight
  <2>2. Accounts(c, 1, 0, {}) /\ Fits(pc'[c], outside'[c], plan'[c].remote)
    BY <1>8, <1>pc, <1>plan, <1>out, <1>fit DEF Accounts, Fits, ReadHit, SettleFlight
  <2>3. Report({<<"request", "remote">>}) /\ Adds({<<"request", "remote">>}, 1, 0, {})
    BY <1>8, ReadThroughAssumption, HitAdds DEF ReadHit, ReadSamples, CacheLayers, Reached
  <2> QED
    BY <2>1, <2>2, <2>3, Keeping
<1>9. ASSUME NEW c \in Calls, ReadMissed(c), Report(ReadSamples(c)), UNCHANGED outside
      PROVE  MetricsInv'
  <2>1. OthersStay(c) /\ outside' \in [Calls -> {"no", "raw", "noop"}]
    BY <1>9, <1>pc, <1>plan, <1>out DEF OthersStay, ReadMissed, StartLoad
  <2>2. CASE got[c] = "error"
    <3>1. Accounts(c, 0, 1, {}) /\ Fits(pc'[c], outside'[c], plan'[c].remote)
      BY <1>9, <2>2, <1>pc, <1>plan, <1>out, <1>fit DEF Accounts, Fits, ReadMissed, StartLoad
    <3>2. Report({<<"error", "cache_read">>}) /\ Adds({<<"error", "cache_read">>}, 0, 1, {})
      BY <1>9, <2>2, RemoteFailureAdds DEF ReadSamples
    <3> QED
      BY <2>1, <3>1, <3>2, Keeping
  <2>3. CASE got[c] # "error"
    <3>1. Accounts(c, 0, 1, {}) /\ Fits(pc'[c], outside'[c], plan'[c].remote)
      BY <1>9, <2>3, <1>pc, <1>plan, <1>out, <1>fit DEF Accounts, Fits, ReadMissed, StartLoad
    <3>2. /\ Report({<<"request", "remote">>, <<"miss", "remote">>})
          /\ Adds({<<"request", "remote">>, <<"miss", "remote">>}, 0, 1, {})
      BY <1>9, <2>3, MissAdds DEF ReadMissed, ReadSamples, CacheLayers, Reached
    <3> QED
      BY <2>1, <3>1, <3>2, Keeping
  <2> QED
    BY <1>9, <2>2, <2>3, <1>pc DEF ReadMissed, StartLoad
<1>10. ASSUME NEW c \in Calls, Resolved(c), Report({<<"fallback", FallbackLayer(c)>>}),
             UNCHANGED outside
      PROVE  MetricsInv'
  <2>1. OthersStay(c) /\ outside' \in [Calls -> {"no", "raw", "noop"}]
    BY <1>10, <1>pc, <1>plan, <1>out DEF OthersStay, Resolved, SettleFlight, AfterShared
  <2>layer. /\ FallbackLayer(c) \in Layers
            /\ FallbackLayer(c) = "noop" <=> outside[c] = "noop"
            /\ FallbackLayer(c) = "remote" <=> outside[c] # "noop" /\ plan[c].remote \in Sought
    BY DEF FallbackLayer, Layers, CacheLayers
  <2>2. Accounts(c, 1, 0, {FallbackLayer(c)}) /\ Fits(pc'[c], outside'[c], plan'[c].remote)
    BY <1>10, <1>pc, <1>plan, <1>out, <1>fit, <2>layer DEF Accounts, Fits, Resolved,
       SettleFlight, AfterShared
  <2>3. /\ Report({<<"fallback", FallbackLayer(c)>>})
        /\ Adds({<<"fallback", FallbackLayer(c)>>}, 1, 0, {FallbackLayer(c)})
    BY <1>10, <2>layer, FallbackAdds
  <2> QED
    BY <2>1, <2>2, <2>3, Keeping
<1>11. ASSUME NEW c \in Calls, NEW how \in {"rejected", "timedOut"}, LoadFailed(c, how),
             Report({<<"fallback", FallbackLayer(c)>>, <<"error", "fallback">>}), UNCHANGED outside
      PROVE  MetricsInv'
  <2>1. OthersStay(c) /\ outside' \in [Calls -> {"no", "raw", "noop"}]
    BY <1>11, <1>pc, <1>plan, <1>out DEF OthersStay, LoadFailed, SettleFlight, AfterShared
  <2>layer. /\ FallbackLayer(c) \in Layers
            /\ FallbackLayer(c) = "noop" <=> outside[c] = "noop"
            /\ FallbackLayer(c) = "remote" <=> outside[c] # "noop" /\ plan[c].remote \in Sought
    BY DEF FallbackLayer, Layers, CacheLayers
  <2>2. Accounts(c, 1, 0, {FallbackLayer(c)}) /\ Fits(pc'[c], outside'[c], plan'[c].remote)
    BY <1>11, <1>pc, <1>plan, <1>out, <1>fit, <2>layer DEF Accounts, Fits, LoadFailed,
       SettleFlight, AfterShared
  <2>3. /\ Report({<<"fallback", FallbackLayer(c)>>, <<"error", "fallback">>})
        /\ Adds({<<"fallback", FallbackLayer(c)>>, <<"error", "fallback">>}, 1, 0,
                {FallbackLayer(c)})
    BY <1>11, <2>layer, FallbackAdds
  <2> QED
    BY <2>1, <2>2, <2>3, Keeping
<1>12. ASSUME NEW c \in Calls, WriteExecuted(c), UNCHANGED outside,
             Report(IF got'[c] = "error" THEN {<<"error", "cache_write">>} ELSE {})
      PROVE  MetricsInv'
  <2> DEFINE S == IF got'[c] = "error" THEN {<<"error", "cache_write">>} ELSE {}
  <2>1. OthersStay(c) /\ outside' \in [Calls -> {"no", "raw", "noop"}]
    BY <1>12, <1>pc, <1>plan, <1>out DEF OthersStay, WriteExecuted
  <2>2. Accounts(c, 0, 0, {}) /\ Fits(pc'[c], outside'[c], plan'[c].remote)
    BY <1>12, <1>pc, <1>plan, <1>out, <1>fit DEF Accounts, Fits, WriteExecuted
  <2>3. Report(S) /\ Adds(S, 0, 0, {})
    BY <1>12, SilentAdds DEF Silent
  <2> QED
    BY <2>1, <2>2, <2>3, Keeping
<1>13. ASSUME NEW c \in Calls, WriteFailed(c), Report({<<"error", "cache_write">>}),
             UNCHANGED outside
      PROVE  MetricsInv'
  <2>1. OthersStay(c) /\ outside' \in [Calls -> {"no", "raw", "noop"}]
    BY <1>13, <1>pc, <1>plan, <1>out DEF OthersStay, WriteFailed
  <2>2. Accounts(c, 0, 0, {}) /\ Fits(pc'[c], outside'[c], plan'[c].remote)
    BY <1>13, <1>pc, <1>plan, <1>out, <1>fit DEF Accounts, Fits, WriteFailed
  <2>3. Report({<<"error", "cache_write">>}) /\ Adds({<<"error", "cache_write">>}, 0, 0, {})
    BY <1>13, SilentAdds DEF Silent
  <2> QED
    BY <2>1, <2>2, <2>3, Keeping
<1>14. ASSUME NEW c \in Calls, Quiet(c), UNCHANGED <<count, outside>>
      PROVE  MetricsInv'
  <2> DEFINE Kept == /\ OthersStay(c) /\ Accounts(c, 0, 0, {})
                     /\ Fits(pc'[c], outside'[c], plan'[c].remote)
  <2>1. ASSUME SkipMemo(c) PROVE Kept
    BY <1>14, <2>1, <1>pc, <1>plan, <1>out, <1>fit DEF Accounts, Fits, OthersStay, SkipMemo
  <2>2. ASSUME ReadExecuted(c) PROVE Kept
    BY <1>14, <2>2, <1>pc, <1>plan, <1>out, <1>fit DEF Accounts, Fits, OthersStay, ReadExecuted
  <2>3. ASSUME Written(c) PROVE Kept
    BY <1>14, <2>3, <1>pc, <1>plan, <1>out, <1>fit DEF Accounts, Fits, OthersStay, Written,
       SettleFlight
  <2>4. ASSUME ClearFlight(c) PROVE Kept
    BY <1>14, <2>4, <1>pc, <1>plan, <1>out, <1>fit DEF Accounts, Fits, OthersStay, ClearFlight,
       AfterShared
  <2>5. ASSUME ResumeShared(c) PROVE Kept
    BY <1>14, <2>5, <1>pc, <1>plan, <1>out, <1>fit DEF Accounts, Fits, OthersStay,
       ResumeShared, AfterShared
  <2>6. ASSUME Memoize(c) PROVE Kept
    BY <1>14, <2>6, <1>pc, <1>plan, <1>out, <1>fit DEF Accounts, Fits, OthersStay, Memoize
  <2>7. ASSUME ClearMemoFlight(c) PROVE Kept
    BY <1>14, <2>7, <1>pc, <1>plan, <1>out, <1>fit DEF Accounts, Fits, OthersStay,
       ClearMemoFlight
  <2>8. ASSUME ResumeMemo(c) PROVE Kept
    BY <1>14, <2>8, <1>pc, <1>plan, <1>out, <1>fit DEF Accounts, Fits, OthersStay, ResumeMemo
  <2>9. ASSUME NEW how \in {"resolved", "rejected"}, RawSettled(c, how)
        PROVE  Kept
    BY <1>14, <2>9, <1>pc, <1>plan, <1>out, <1>fit DEF Accounts, Fits, OthersStay, RawSettled
  <2>10. Kept
    BY <1>14, <2>1, <2>2, <2>3, <2>4, <2>5, <2>6, <2>7, <2>8, <2>9, Zenon DEF Quiet
  <2> QED
    BY <1>14, <2>10, <1>out, <1>count, NoReport, Keeping
<1>15. ASSUME UNCHANGED <<pc, plan, metricVars>>
      PROVE  MetricsInv'
  BY <1>15 DEF metricVars, MetricsInv, CountTypeOK, CallsFit, Balanced, Total, Failures, Sum3,
     Coalesced, Fallbacks, Reckoned, Unobserved, Owed, PastNoop
<1>16. ASSUME NEW c \in Calls, ReportStep(c)
       PROVE  MetricsInv'
  BY <1>16, <1>3, <1>4, <1>5, <1>6, <1>7, <1>8, <1>9, <1>10, <1>11, <1>12, <1>13, <1>14, Zenon
     DEF ReportStep
<1>17. ASSUME \/ \E c \in Calls : LateWrite(c)
              \/ \E s \in Scopes : CloseScope(s)
              \/ \E k \in Keys : DropLocal(k)
              \/ InvalidateRemote
              \/ RedisElapse
       PROVE  UNCHANGED <<pc, plan>>
  BY <1>17 DEF LateWrite, CloseScope, DropLocal, InvalidateRemote, RedisElapse, callVars
<1> QED
  BY <1>1, <1>2, <1>15, <1>16, <1>17, Zenon DEF MetricsNext

\* The balances hold at every moment of every behaviour.
THEOREM MetricsInvHolds == MetricsSpec => []MetricsInv
<1>1. MetricsSpec => []TypeOK
  BY MetricsChangeNothing, TypeCorrect, PTL
<1>2. TypeOK /\ MetricsInv /\ [MetricsNext]_<<vars, metricVars>> => MetricsInv'
  <2>1. ASSUME MetricsInv, UNCHANGED <<vars, metricVars>>
        PROVE  MetricsInv'
    BY <2>1 DEF vars, callVars, metricVars, MetricsInv, CountTypeOK, CallsFit, Balanced, Total,
       Failures, Sum3, Coalesced, Fallbacks, Reckoned, Unobserved, Owed, PastNoop
  <2> QED
    BY <2>1, MetricsStepHolds
<1>3. MetricsSpec => MetricsInit /\ [][MetricsNext]_<<vars, metricVars>>
  BY DEF MetricsSpec
<1> QED
  BY <1>1, <1>2, <1>3, MetricsInitHolds, PTL

\* Each call is counted once, by whatever layer, flight or loader answered it
\* (dialcache.ts:309-361, 420-575, 628-638, 688-730).
THEOREM CountedOnceHolds == MetricsSpec => []EachCallCountedOnce
<1>1. MetricsInv => EachCallCountedOnce
  <2> SUFFICES ASSUME MetricsInv, Quiescent
               PROVE  Cardinality({c \in Calls : pc[c] = "done"}) = Total + Cardinality(Unobserved)
    BY DEF EachCallCountedOnce, Total, Unobserved
  <2>1. Reckoned = {c \in Calls : pc[c] = "done"}
    BY DEF Quiescent, Reckoned, Unanswered
  <2> QED
    BY <2>1 DEF MetricsInv, Balanced
<1> QED
  BY <1>1, MetricsInvHolds, PTL

\* Loaders are attributed to the layer whose counters say that it failed
\* (dialcache.ts:466-470, 520-523).
THEOREM AttributionHolds == MetricsSpec => []FallbackAttribution
<1>1. MetricsInv => FallbackAttribution
  <2> SUFFICES ASSUME MetricsInv, Quiescent
               PROVE  /\ count[<<"fallback", "remote">>] = Failures
                      /\ count[<<"fallback", "noop">>]
                           = Cardinality({c \in Calls : outside[c] = "noop"})
    BY DEF FallbackAttribution, Failures
  <2>1. Owed = {} /\ PastNoop = {c \in Calls : outside[c] = "noop"}
    BY DEF Quiescent, Owed, PastNoop
  <2>2. {"remote"} \subseteq Layers
    BY DEF Layers, CacheLayers
  <2>3. count[<<"fallback", "remote">>] \in Nat
    BY <2>2, SamplesKnown DEF MetricsInv, CountTypeOK
  <2>4. Cardinality(Owed) = 0
    BY <2>1, FS_EmptySet
  <2> QED
    BY <2>1, <2>3, <2>4 DEF MetricsInv, Balanced
<1> QED
  BY <1>1, MetricsInvHolds, PTL
=============================================================================
