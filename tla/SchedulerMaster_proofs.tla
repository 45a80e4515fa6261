---------------------- MODULE SchedulerMaster_proofs ----------------------
(***************************************************************************)
(* Theorems about SchedulerMaster, for any number of instances, any life   *)
(* time of the key and any number of deaths and stops.  They rest on       *)
(* MasterAssumption: a random key is neither absent nor the key of a dead  *)
(* instance.                                                               *)
(***************************************************************************)
EXTENDS SchedulerMaster, TLAPS

LEMMA TypeInit == Init => TypeOK
<1> SUFFICES ASSUME Init PROVE TypeOK
  OBVIOUS
<1>1. overrun \in BOOLEAN
  BY Zenon DEF Init
<1>2. /\ pc \in [Scheduler -> State] /\ master \in Scheduler \cup {NoOne, Stale}
      /\ ttl \in 0 .. Timeout /\ crashes \in 0 .. MaxCrashes /\ stops \in 0 .. MaxStops
  BY MasterAssumption, SMT DEF Init, State
<1> QED
  BY <1>1, <1>2 DEF TypeOK

LEMMA TypeStep == TypeOK /\ [Next]_vars => TypeOK'
<1> SUFFICES ASSUME TypeOK, [Next]_vars PROVE TypeOK'
  OBVIOUS
<1> USE MasterAssumption DEF TypeOK, State
<1>1. ASSUME NEW s \in Scheduler, Start(s) PROVE TypeOK'
  BY <1>1 DEF Start, Goto
<1>2. ASSUME NEW s \in Scheduler, SetIfAbsent(s) PROVE TypeOK'
  BY <1>2 DEF SetIfAbsent, Goto
<1>3. ASSUME NEW s \in Scheduler, ReadBack(s) PROVE TypeOK'
  BY <1>3 DEF ReadBack, Goto
<1>4. ASSUME NEW s \in Scheduler, SetExpiry(s) PROVE TypeOK'
  BY <1>4 DEF SetExpiry, Goto
<1>5. ASSUME NEW s \in Scheduler, Pass(s) PROVE TypeOK'
  BY <1>5 DEF Pass, vars
<1>6. ASSUME NEW s \in Scheduler, EndLoop(s) PROVE TypeOK'
  BY <1>6 DEF EndLoop, Goto
<1>7. ASSUME NEW s \in Scheduler, DeleteKey(s) PROVE TypeOK'
  BY <1>7 DEF DeleteKey, Goto
<1>8. ASSUME NEW s \in Scheduler, Crash(s) PROVE TypeOK'
  BY <1>8 DEF Crash, Goto
<1>9. CASE Tick
  <2>1. CASE ttl = 1
    <3>1. overrun' = (overrun \/ \E s \in Scheduler :
                          master = s /\ pc[s] \in {"expire", "active", "leave"})
      BY <1>9, <2>1 DEF Tick
    <3>2. overrun' \in BOOLEAN
      BY <3>1, Zenon
    <3>3. pc' = pc /\ master' = NoOne /\ ttl' = 0 /\ crashes' = crashes /\ stops' = stops
      BY <1>9, <2>1 DEF Tick
    <3> QED
      BY <3>2, <3>3
  <2>2. CASE ttl # 1
    BY <1>9, <2>2 DEF Tick
  <2> QED
    BY <2>1, <2>2
<1>10. CASE UNCHANGED vars
  BY <1>10 DEF vars
<1>11. QED
  BY <1>1, <1>2, <1>3, <1>4, <1>5, <1>6, <1>7, <1>8, <1>9, <1>10 DEF Next

\* Every variable keeps its type: in particular the life time of the key is
\* never above master_timeout.
THEOREM TypeCorrect == Spec => []TypeOK
<1>1. Init => TypeOK
  BY TypeInit
<1>2. TypeOK /\ [Next]_vars => TypeOK'
  BY TypeStep
<1> QED
  BY <1>1, <1>2, PTL DEF Spec

-----------------------------------------------------------------------------
LEMMA OwnsInit == Init => OwnsKey
BY DEF Init, OwnsKey

LEMMA OwnsStep == TypeOK /\ OwnsKey /\ [Next]_vars => OwnsKey'
<1> SUFFICES ASSUME TypeOK, OwnsKey, [Next]_vars, ~overrun',
                    NEW t \in Scheduler, pc'[t] \in {"expire", "active", "leave"}
             PROVE  master' = t
  BY DEF OwnsKey
<1> USE MasterAssumption DEF TypeOK, State
<1>1. ASSUME NEW s \in Scheduler, Start(s) PROVE master' = t
  BY <1>1 DEF Start, OwnsKey, Goto
<1>2. ASSUME NEW s \in Scheduler, SetIfAbsent(s) PROVE master' = t
  BY <1>2 DEF SetIfAbsent, OwnsKey, Goto
<1>3. ASSUME NEW s \in Scheduler, ReadBack(s) PROVE master' = t
  BY <1>3 DEF ReadBack, OwnsKey, Goto
<1>4. ASSUME NEW s \in Scheduler, SetExpiry(s) PROVE master' = t
  BY <1>4 DEF SetExpiry, OwnsKey, Goto
<1>5. ASSUME NEW s \in Scheduler, Pass(s) PROVE master' = t
  BY <1>5 DEF Pass, OwnsKey, vars
<1>6. ASSUME NEW s \in Scheduler, EndLoop(s) PROVE master' = t
  BY <1>6 DEF EndLoop, OwnsKey, Goto
<1>7. ASSUME NEW s \in Scheduler, DeleteKey(s) PROVE master' = t
  BY <1>7 DEF DeleteKey, OwnsKey, Goto
<1>8. ASSUME NEW s \in Scheduler, Crash(s) PROVE master' = t
  BY <1>8 DEF Crash, OwnsKey, Goto
<1>9. CASE Tick
  BY <1>9 DEF Tick, OwnsKey
<1>10. CASE UNCHANGED vars
  BY <1>10 DEF vars, OwnsKey
<1>11. QED
  BY <1>1, <1>2, <1>3, <1>4, <1>5, <1>6, <1>7, <1>8, <1>9, <1>10 DEF Next

\* The inductive invariant of is_master: until a key expires under its owner,
\* an instance that has read its own key back owns the key until it leaves.
THEOREM OwnsKeyCorrect == Spec => []OwnsKey
<1>1. Init => TypeOK /\ OwnsKey
  BY TypeInit, OwnsInit
<1>2. TypeOK /\ OwnsKey /\ [Next]_vars => (TypeOK /\ OwnsKey)'
  BY TypeStep, OwnsStep
<1> QED
  BY <1>1, <1>2, PTL DEF Spec

\* Two instances run the main loop of run at once only after a key expired
\* under its owner.
THEOREM OneActiveCorrect == Spec => []OneActiveInTime
<1>1. OwnsKey => OneActiveInTime
  BY DEF OwnsKey, OneActiveInTime, OneActive, InOffice
<1> QED
  BY <1>1, OwnsKeyCorrect, PTL

-----------------------------------------------------------------------------
LEMMA StaleStep ==
    TypeOK /\ OwnsKey /\ [Next]_vars
    => ((master = Stale /\ ~overrun /\ master' # Stale) => (ttl = 1 /\ master' = NoOne))
<1> SUFFICES ASSUME TypeOK, OwnsKey, [Next]_vars,
                    master = Stale, ~overrun, master' # Stale
             PROVE  ttl = 1 /\ master' = NoOne
  OBVIOUS
<1> USE MasterAssumption DEF TypeOK
<1>1. ASSUME NEW s \in Scheduler, DeleteKey(s) PROVE FALSE
  BY <1>1 DEF DeleteKey, OwnsKey
<1>2. ASSUME NEW s \in Scheduler, SetIfAbsent(s) \/ Crash(s) PROVE FALSE
  BY <1>2 DEF SetIfAbsent, Crash
<1>3. ASSUME NEW s \in Scheduler,
             Start(s) \/ ReadBack(s) \/ SetExpiry(s) \/ Pass(s) \/ EndLoop(s)
      PROVE  FALSE
  BY <1>3 DEF Start, ReadBack, SetExpiry, Pass, EndLoop, vars
<1>4. CASE Tick
  BY <1>4 DEF Tick
<1>5. CASE UNCHANGED vars
  BY <1>5 DEF vars
<1>6. QED
  BY <1>1, <1>2, <1>3, <1>4, <1>5 DEF Next

\* The office of an instance that died is taken over only when its key has
\* expired: SETNX and DELETE leave the key of a dead instance alone until a key
\* expires under its owner.
THEOREM WaitForTimeoutCorrect == Spec => WaitForTimeout
<1>1. TypeOK /\ OwnsKey /\ [Next]_vars
      => [(master = Stale /\ ~overrun /\ master' # Stale)
             => (ttl = 1 /\ master' = NoOne)]_vars
  BY StaleStep
<1> QED
  BY <1>1, TypeCorrect, OwnsKeyCorrect, PTL DEF Spec, WaitForTimeout
=============================================================================
