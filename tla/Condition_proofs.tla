--------------------------- MODULE Condition_proofs ---------------------------
(***************************************************************************)
(* The waiting-thread counter of libthreadar::condition is exact, for any  *)
(* finite set of threads and any set of instances.                         *)
(***************************************************************************)
EXTENDS ConditionUse, FiniteSetTheorems, TLAPS

(* The threads inside wait(i) are finitely many, so they can be counted.   *)
LEMMA WaitingIsFinite ==
    ASSUME ConditionTypeOK, NEW i \in Instances
    PROVE  IsFiniteSet(InWait(i)) /\ Cardinality(InWait(i)) \in Nat
<1>1. InWait(i) \subseteq Threads
    BY DEF ConditionTypeOK, InWait
<1> QED
    BY <1>1, FiniteThreads, FS_Subset, FS_CardinalityType

(***************************************************************************)
(* signal(), broadcast() and a spurious return move threads from asleep to *)
(* awake: nobody enters or leaves wait().                                  *)
(***************************************************************************)
LEMMA WakeKeepsInv ==
    ASSUME CounterInv, NEW i \in Instances, NEW ts \in SUBSET blocked[i],
           Wake(i, ts), UNCHANGED holder, spurious' \in BOOLEAN
    PROVE  CounterInv'
<1> USE DEF CounterInv, ConditionTypeOK, MutexTypeOK, Wake
<1>1. ConditionTypeOK'
    OBVIOUS
<1>2. \A j \in Instances : InWait(j)' = InWait(j)
    BY DEF InWait
<1>3. OnePlace'
    BY <1>2 DEF OnePlace
<1>4. CounterExact'
    BY <1>2 DEF CounterExact
<1> QED
    BY <1>1, <1>3, <1>4

(* wait() counts its caller, which was inside no wait() before since it    *)
(* has the mutex.                                                          *)
LEMMA WaitKeepsInv ==
    ASSUME CounterInv, NEW t \in Threads, NEW i \in Instances, Wait(t, i)
    PROVE  CounterInv'
<1> USE DEF CounterInv, ConditionTypeOK, MutexTypeOK, Wait
<1>1. ConditionTypeOK'
    OBVIOUS
<1>2. \A j \in Instances : InWait(j)' = IF j = i THEN InWait(j) \cup {t} ELSE InWait(j)
    BY DEF InWait
<1>3. \A j \in Instances : t \notin InWait(j)
    BY DEF OnePlace
<1>4. OnePlace'
    BY <1>2, <1>3, NoThreadAssumption DEF OnePlace, InWait
<1>5. Cardinality(InWait(i) \cup {t}) = Cardinality(InWait(i)) + 1
    BY <1>3, WaitingIsFinite, FS_AddElement
<1>6. CounterExact'
    BY <1>2, <1>5 DEF CounterExact
<1> QED
    BY <1>1, <1>4, <1>6

(* The return from pthread_cond_wait() takes one thread out of wait(i) and *)
(* one off its count.                                                      *)
LEMMA ResumeKeepsInv ==
    ASSUME CounterInv, NEW t \in Threads, NEW i \in Instances, Resume(t, i)
    PROVE  CounterInv'
<1> USE DEF CounterInv, ConditionTypeOK, MutexTypeOK, Resume, Lock
<1>1. ConditionTypeOK'
    OBVIOUS
<1>2. \A j \in Instances : InWait(j)' = IF j = i THEN InWait(j) \ {t} ELSE InWait(j)
    BY DEF InWait, OnePlace
<1>3. t \in InWait(i)
    BY DEF InWait
<1>4. OnePlace'
    BY <1>2, <1>3 DEF OnePlace
<1>5. Cardinality(InWait(i) \ {t}) = Cardinality(InWait(i)) - 1
    BY <1>3, WaitingIsFinite, FS_RemoveElement
<1>6. CounterExact'
    BY <1>2, <1>5 DEF CounterExact
<1> QED
    BY <1>1, <1>4, <1>6

(***************************************************************************)
(* get_waiting_thread_count(i) is the number of threads inside wait(i).    *)
(***************************************************************************)
THEOREM CounterIsExact == Spec => []CounterInv
<1>1. Init => CounterInv
  <2> SUFFICES ASSUME Init PROVE CounterInv
    OBVIOUS
  <2> USE DEF Init, ConditionInit, MutexInit
  <2>1. MutexTypeOK /\ spurious \in BOOLEAN
    BY Zenon DEF MutexTypeOK
  <2>2. ConditionTypeOK
    BY <2>1 DEF ConditionTypeOK
  <2>3. OnePlace /\ CounterExact
    BY FS_EmptySet DEF OnePlace, CounterExact, InWait
  <2> QED
    BY <2>2, <2>3 DEF CounterInv
<1>2. CounterInv /\ [Next]_condVars => CounterInv'
  <2> USE DEF waitVars
  <2> SUFFICES ASSUME CounterInv, [Next]_condVars PROVE CounterInv'
    OBVIOUS
  <2>1. ASSUME NEW t \in Threads, LockStep(t) PROVE CounterInv'
    BY <2>1 DEF LockStep, Lock, Waiting, CounterInv, ConditionTypeOK, MutexTypeOK,
       OnePlace, CounterExact, InWait
  <2>2. ASSUME NEW t \in Threads, UnlockStep(t) PROVE CounterInv'
    BY <2>2, NoThreadAssumption DEF UnlockStep, Unlock, CounterInv, ConditionTypeOK,
       MutexTypeOK, OnePlace, CounterExact, InWait
  <2>3. ASSUME NEW t \in Threads, NEW i \in Instances, SignalStep(t, i) PROVE CounterInv'
    <3>1. CASE \E w \in blocked[i] : Wake(i, {w}) /\ UNCHANGED spurious
      BY <2>3, <3>1, WakeKeepsInv DEF SignalStep, CounterInv, ConditionTypeOK
    <3>2. CASE UNCHANGED waitVars
      BY <2>3, <3>2 DEF SignalStep, CounterInv, ConditionTypeOK, MutexTypeOK,
         OnePlace, CounterExact, InWait
    <3> QED
      BY <2>3, <3>1, <3>2 DEF SignalStep, Signal
  <2>4. ASSUME NEW t \in Threads, NEW i \in Instances, BroadcastStep(t, i) PROVE CounterInv'
    BY <2>4, WakeKeepsInv DEF BroadcastStep, Broadcast, CounterInv, ConditionTypeOK
  <2>5. ASSUME NEW t \in Threads, NEW i \in Instances, SpuriousWakeup(t, i) PROVE CounterInv'
    BY <2>5, WakeKeepsInv DEF SpuriousWakeup
  <2>6. CASE UNCHANGED condVars
    BY <2>6 DEF condVars, CounterInv, ConditionTypeOK, MutexTypeOK, OnePlace,
       CounterExact, InWait
  <2> QED
    BY <2>1, <2>2, <2>3, <2>4, <2>5, <2>6, WaitKeepsInv, ResumeKeepsInv DEF Next
<1> QED
    BY <1>1, <1>2, PTL DEF Spec

=============================================================================
