--------------------------- MODULE Freezer_proofs ---------------------------
(***************************************************************************)
(* libthreadar::freezer implements Permits, for any finite set of threads  *)
(* and whatever the value.                                                 *)
(***************************************************************************)
EXTENDS Freezer, FiniteSetTheorems, TLAPS

(* The variables have their types; value is bounded in the model only. *)
FreezerTypes ==
    /\ ConditionTypeOK
    /\ value \in Int
    /\ pc \in [Threads -> Labels]

(* A thread is inside wait() where lock() says so, asleep or awake, and one *)
(* inside a method, with the mutex, is alone there.                         *)
WaitersMatchPc ==
    /\ \A t \in Threads : pc[t] = "lock_wait" <=> t \in blocked[0] \cup woken[0]
    /\ blocked[0] \cap woken[0] = {}
LockMatchesPc == \A t \in Threads : pc[t] \in InLock <=> holder = t

FreezerInv == FreezerTypes /\ WaitersMatchPc /\ LockMatchesPc /\ SleepersAreOwed

-----------------------------------------------------------------------------
(* Those asleep can be counted, and nobody is when value says so. *)
LEMMA SleepersCounted ==
    ASSUME FreezerTypes
    PROVE  /\ IsFiniteSet(blocked[0]) /\ Cardinality(blocked[0]) \in Nat
           /\ SleepersAreOwed /\ value >= 0 => blocked[0] = {}
<1>1. blocked[0] \subseteq Threads
    BY FreezerAssumption DEF FreezerTypes, ConditionTypeOK
<1>2. IsFiniteSet(blocked[0]) /\ Cardinality(blocked[0]) \in Nat
    BY <1>1, FiniteThreads, FS_Subset, FS_CardinalityType
<1>3. Cardinality(blocked[0]) = 0 => blocked[0] = {}
    BY <1>2, FS_EmptySet
<1> QED
    BY <1>2, <1>3 DEF SleepersAreOwed, Shortage, FreezerTypes

(* What takes one sleeper away and one off the shortage keeps them equal. *)
LEMMA SignalPaysOne ==
    ASSUME FreezerInv, value < 0, value' = value + 1, Signal(0)
    PROVE  SleepersAreOwed'
<1>1. IsFiniteSet(blocked[0]) /\ Cardinality(blocked[0]) \in Nat
    BY SleepersCounted DEF FreezerInv
<1>2. CASE blocked[0] = {} /\ UNCHANGED waitVars
    BY <1>2, FS_EmptySet DEF waitVars, SleepersAreOwed, Shortage, FreezerInv, FreezerTypes
<1>3. CASE \E w \in blocked[0] : Wake(0, {w}) /\ UNCHANGED spurious
  <2>1. PICK w \in blocked[0] : blocked[0]' = blocked[0] \ {w} /\ UNCHANGED spurious
      BY <1>3, FreezerAssumption DEF Wake, FreezerInv, FreezerTypes, ConditionTypeOK
  <2>2. Cardinality(blocked[0])' = Cardinality(blocked[0]) - 1
      BY <1>1, <2>1, FS_RemoveElement
  <2> QED
      BY <1>1, <2>1, <2>2 DEF SleepersAreOwed, Shortage, FreezerInv, FreezerTypes
<1> QED
    BY <1>2, <1>3 DEF Signal

(* A signal moves one thread from asleep to awake: it stays inside wait(). *)
LEMMA SignalKeepsPlaces ==
    ASSUME FreezerInv, Signal(0)
    PROVE  /\ blocked' \in [Instances -> SUBSET Threads]
           /\ woken' \in [Instances -> SUBSET Threads]
           /\ UNCHANGED <<counter, spurious>>
           /\ blocked[0]' \cup woken[0]' = blocked[0] \cup woken[0]
           /\ blocked[0]' \cap woken[0]' = {}
<1> USE FreezerAssumption DEF FreezerInv, FreezerTypes, ConditionTypeOK, WaitersMatchPc
<1>1. CASE UNCHANGED waitVars
    BY <1>1 DEF waitVars
<1>2. CASE \E w \in blocked[0] : Wake(0, {w}) /\ UNCHANGED spurious
    BY <1>2 DEF Wake
<1> QED
    BY <1>1, <1>2 DEF Signal

-----------------------------------------------------------------------------
(* A call, the mutex, and the way out of lock() do not touch value. *)
LEMMA CallKeepsInv ==
    ASSUME FreezerInv, NEW t \in Threads,
           (\E what \in Calls : Call(t, what)) \/ Enter(t) \/ lock_leave(t)
    PROVE  FreezerInv'
<1> USE FreezerAssumption, NoThreadAssumption
        DEF FreezerInv, Call, Enter, lock_leave, Goto, Lock, Unlock, condVars, waitVars
<1>1. pc' \in [Threads -> Labels] /\ (\A u \in Threads \ {t} : pc'[u] = pc[u])
    BY DEF FreezerTypes, Labels, Calls, InLock
<1>2. pc[t] # "lock_wait" /\ pc'[t] # "lock_wait"
    BY DEF FreezerTypes, Calls
<1>3. /\ holder' \in Threads \cup {NoThread}
      /\ UNCHANGED <<blocked, woken, counter, spurious, value>>
    BY DEF FreezerTypes, ConditionTypeOK, MutexTypeOK
<1>4. FreezerTypes' /\ WaitersMatchPc' /\ SleepersAreOwed'
    BY <1>1, <1>2, <1>3 DEF FreezerTypes, ConditionTypeOK, MutexTypeOK, WaitersMatchPc,
       SleepersAreOwed, Shortage
<1>5. LockMatchesPc'
    BY DEF LockMatchesPc, InLock, Calls, FreezerTypes
<1> QED
    BY <1>4, <1>5

(* lock() falls asleep when it has made value one more short. *)
LEMMA LockKeepsInv ==
    ASSUME FreezerInv, NEW t \in Threads, lock(t)
    PROVE  FreezerInv'
<1> USE FreezerAssumption, NoThreadAssumption
        DEF FreezerInv, FreezerTypes, ConditionTypeOK, MutexTypeOK, lock, Goto, Unlock, Wait,
            waitVars
<1>1. FreezerTypes'
    BY DEF Labels
<1>2. t \notin blocked[0] \cup woken[0]
    BY DEF WaitersMatchPc
<1>3. WaitersMatchPc'
    BY <1>2 DEF WaitersMatchPc
<1>4. LockMatchesPc'
    BY DEF LockMatchesPc, InLock
<1>5. IsFiniteSet(blocked[0]) /\ Cardinality(blocked[0]) \in Nat
    BY SleepersCounted
<1>6. CASE value - 1 < 0
  <2>1. Cardinality(blocked[0])' = Cardinality(blocked[0]) + 1
      BY <1>2, <1>5, <1>6, FS_AddElement
  <2> QED
      BY <1>1, <1>3, <1>4, <1>5, <1>6, <2>1 DEF SleepersAreOwed, Shortage
<1>7. CASE value - 1 >= 0
    BY <1>1, <1>3, <1>4, <1>5, <1>7 DEF SleepersAreOwed, Shortage
<1> QED
    BY <1>6, <1>7

(* A thread comes back from wait() with the mutex. *)
LEMMA ResumeKeepsInv ==
    ASSUME FreezerInv, NEW t \in Threads, lock_resume(t)
    PROVE  FreezerInv'
<1> USE FreezerAssumption, NoThreadAssumption
        DEF FreezerInv, FreezerTypes, ConditionTypeOK, MutexTypeOK, lock_resume, Goto, Lock,
            Resume
<1>1. FreezerTypes'
    BY DEF Labels, InLock
<1>2. WaitersMatchPc'
    BY DEF WaitersMatchPc
<1>3. LockMatchesPc'
    BY DEF LockMatchesPc, InLock
<1>4. SleepersAreOwed'
    BY DEF SleepersAreOwed, Shortage
<1> QED
    BY <1>1, <1>2, <1>3, <1>4

(* unlock() and reset() signal as long as value is negative. *)
LEMMA GiveKeepsInv ==
    ASSUME FreezerInv, NEW t \in Threads, unlock(t) \/ reset(t)
    PROVE  FreezerInv'
<1> USE FreezerAssumption, NoThreadAssumption DEF FreezerInv
<1>1. /\ pc[t] \in {"unlock_in", "reset_in"}
      /\ pc' \in [Threads -> Labels] /\ pc'[t] \in {"out", "reset"}
      /\ \A u \in Threads \ {t} : pc'[u] = pc[u]
      /\ holder' = NoThread
    BY DEF FreezerTypes, unlock, reset, Goto, Unlock, Labels, Calls
<1>2. LockMatchesPc'
    BY <1>1 DEF LockMatchesPc, InLock
<1>3. CASE value < 0
  <2>1. value' = value + 1 /\ Signal(0)
      BY <1>3 DEF unlock, reset, FreezerTypes
  <2>2. SleepersAreOwed'
      BY <1>3, <2>1, SignalPaysOne
  <2>3. WaitersMatchPc'
      BY <1>1, <2>1, SignalKeepsPlaces DEF WaitersMatchPc
  <2>4. FreezerTypes'
      BY <1>1, <2>1, SignalKeepsPlaces DEF FreezerTypes, ConditionTypeOK, MutexTypeOK
  <2> QED
      BY <1>2, <2>2, <2>3, <2>4
<1>4. CASE value >= 0
  <2>1. value' \in Nat /\ UNCHANGED waitVars
      BY <1>4 DEF unlock, reset, FreezerTypes
  <2>2. SleepersAreOwed'
      BY <1>4, <2>1 DEF SleepersAreOwed, Shortage, FreezerTypes, waitVars
  <2>3. WaitersMatchPc' /\ FreezerTypes'
      BY <1>1, <2>1 DEF WaitersMatchPc, FreezerTypes, ConditionTypeOK, MutexTypeOK, waitVars
  <2> QED
      BY <1>2, <2>2, <2>3
<1> QED
    BY <1>3, <1>4 DEF FreezerTypes

(* Who is woken unasked is still counted in value, but not asleep. *)
LEMMA WakeKeepsInv ==
    ASSUME FreezerInv, NEW t \in Threads, WakeUnasked(t)
    PROVE  FreezerInv'
<1> USE FreezerAssumption DEF FreezerInv, FreezerTypes, ConditionTypeOK, MutexTypeOK,
        WakeUnasked, SpuriousWakeup, Wake, freezerVars
<1>1. FreezerTypes' /\ LockMatchesPc'
    BY DEF LockMatchesPc
<1>2. WaitersMatchPc'
    BY DEF WaitersMatchPc
<1>3. IsFiniteSet(blocked[0]) /\ Cardinality(blocked[0]) \in Nat
    BY SleepersCounted
<1>4. blocked[0]' = blocked[0] \ {t} /\ t \in blocked[0] /\ spurious'
    OBVIOUS
<1>5. Cardinality(blocked[0])' = Cardinality(blocked[0]) - 1
    BY <1>3, <1>4, FS_RemoveElement
<1>6. SleepersAreOwed'
    BY <1>3, <1>4, <1>5 DEF SleepersAreOwed, Shortage
<1> QED
    BY <1>1, <1>2, <1>6

-----------------------------------------------------------------------------
(* Nobody has called yet. *)
LEMMA InitInv ==
    ASSUME Init
    PROVE  FreezerInv
<1> USE FreezerAssumption, NoThreadAssumption DEF Init, ConditionInit, MutexInit
<1>1. FreezerTypes
  <2>1. spurious \in BOOLEAN
      BY Zenon
  <2> QED
      BY <2>1 DEF FreezerTypes, ConditionTypeOK, MutexTypeOK, Labels
<1>2. WaitersMatchPc /\ LockMatchesPc
    BY DEF WaitersMatchPc, LockMatchesPc, InLock
<1>3. SleepersAreOwed
    BY FS_EmptySet DEF SleepersAreOwed, Shortage
<1> QED
    BY <1>1, <1>2, <1>3 DEF FreezerInv

(* No step breaks the invariant. *)
LEMMA NextKeepsInv ==
    ASSUME FreezerInv, [Next]_vars
    PROVE  FreezerInv'
<1>1. CASE Next
    BY <1>1, CallKeepsInv, LockKeepsInv, ResumeKeepsInv, GiveKeepsInv, WakeKeepsInv
       DEF Next, Steps
<1>2. CASE UNCHANGED vars
    BY <1>2 DEF vars, condVars, waitVars, freezerVars, FreezerInv, FreezerTypes,
       ConditionTypeOK, MutexTypeOK, WaitersMatchPc, LockMatchesPc, SleepersAreOwed, Shortage
<1> QED
    BY <1>1, <1>2

(***************************************************************************)
(* The inductive invariant of the freezer.                                 *)
(***************************************************************************)
THEOREM Invariance == Spec => []FreezerInv
<1>1. Init => FreezerInv
    BY InitInv
<1>2. FreezerInv /\ [Next]_vars => FreezerInv'
    BY NextKeepsInv
<1> QED
    BY <1>1, <1>2, PTL DEF Spec

(***************************************************************************)
(* Nobody sleeps over a permit, and without spurious wakeups a negative    *)
(* value is the number of threads asleep.                                  *)
(***************************************************************************)
THEOREM PermitsAreGiven == Spec => []SleepersAreOwed
<1>1. FreezerInv => SleepersAreOwed
    BY DEF FreezerInv
<1> QED
    BY <1>1, Invariance, PTL

-----------------------------------------------------------------------------
(* A signal for a negative value lets one thread go, if one is asleep. *)
LEMMA SignalGives ==
    ASSUME FreezerInv, value' = value + 1, Signal(0)
    PROVE  Promise!Give
    BY FreezerAssumption DEF FreezerInv, FreezerTypes, ConditionTypeOK, Signal, Wake,
       waitVars, Promise!Give

(* Each step of the freezer is one of Permits or leaves it alone. *)
LEMMA StepIsPromised ==
    ASSUME FreezerInv, [Next]_vars
    PROVE  [Promise!Next]_Promise!permitVars
<1> USE FreezerAssumption DEF FreezerInv, FreezerTypes, ConditionTypeOK, Promise!permitVars
<1>1. ASSUME NEW t \in Threads,
             (\E what \in Calls : Call(t, what)) \/ Enter(t) \/ lock_leave(t)
      PROVE  UNCHANGED Promise!permitVars
    BY <1>1 DEF Call, Enter, lock_leave, condVars, waitVars
<1>2. ASSUME NEW t \in Threads, lock(t)
      PROVE  Promise!Take(t)
  <2>1. t \notin blocked[0] \cup woken[0]
      BY <1>2 DEF WaitersMatchPc, lock
  <2>2. value' = value - 1 /\ UNCHANGED <<woken, spurious>>
      BY <1>2 DEF lock, Wait, waitVars
  <2>3. value > 0 => blocked[0]' = blocked[0]
      BY <1>2 DEF lock, waitVars
  <2>4. ~(value > 0) => blocked[0]' = blocked[0] \cup {t}
      BY <1>2 DEF lock, Wait
  <2> QED
      BY <2>1, <2>2, <2>3, <2>4, Zenon DEF Promise!Take
<1>3. ASSUME NEW t \in Threads, lock_resume(t)
      PROVE  Promise!Return(t)
    BY <1>3 DEF lock_resume, Resume, Promise!Return
<1>4. ASSUME NEW t \in Threads, unlock(t) \/ reset(t), value < 0
      PROVE  Promise!Give
    BY <1>4, SignalGives DEF unlock, reset
<1>5. ASSUME NEW t \in Threads, unlock(t), value >= 0
      PROVE  Promise!Give
    BY <1>5, SleepersCounted DEF unlock, waitVars, Promise!Give
<1>6. ASSUME NEW t \in Threads, reset(t), value >= 0
      PROVE  Promise!Reset
    BY <1>6, SleepersCounted DEF reset, waitVars, Promise!Reset
<1>7. ASSUME NEW t \in Threads, WakeUnasked(t)
      PROVE  Promise!Escape(t)
    BY <1>7 DEF WakeUnasked, SpuriousWakeup, Wake, freezerVars, Promise!Escape
<1>8. CASE UNCHANGED vars
    BY <1>8 DEF vars, condVars, waitVars, freezerVars
<1> QED
    BY <1>1, <1>2, <1>3, <1>4, <1>5, <1>6, <1>7, <1>8 DEF Next, Steps, Promise!Next

(***************************************************************************)
(* The freezer implements Permits.                                         *)
(***************************************************************************)
THEOREM FreezerGivesPermits == Spec => PermitSpec
<1>1. Init => Promise!Init
    BY FreezerAssumption DEF Init, ConditionInit, Promise!Init
<1>2. FreezerInv /\ [Next]_vars => [Promise!Next]_Promise!permitVars
    BY StepIsPromised
<1> QED
    BY <1>1, <1>2, Invariance, PTL DEF Spec, PermitSpec, Promise!Spec

-----------------------------------------------------------------------------
(* The bounds of value: each call that is on its way moves it by one.      *)
Calling(what, before) == {t \in Threads : pc[t] \in {what, before}}
Unlocking == Calling("unlock", "unlock_in")
Locking == Calling("lock", "lock_in")

InBounds ==
    /\ value + Cardinality(Unlocking) <= Bound + Cardinality(Threads)
    /\ value - Cardinality(Locking) >= -(Bound + Cardinality(Threads))

(* Those on their way can be counted, and are threads. *)
LEMMA CallingCounted ==
    ASSUME NEW S \in SUBSET Threads
    PROVE  /\ IsFiniteSet(S) /\ Cardinality(S) \in Nat
           /\ Cardinality(S) <= Cardinality(Threads) /\ Cardinality(Threads) \in Nat
    BY FiniteThreads, FS_Subset, FS_CardinalityType

(* A call that begins respects Bound, and one that is over is not counted  *)
(* any more; reset() brings value nearer to zero.                          *)
LEMMA NextKeepsBounds ==
    FreezerInv /\ InBounds /\ [Next]_vars => InBounds'
<1> SUFFICES ASSUME FreezerInv, InBounds, [Next]_vars PROVE InBounds'
    OBVIOUS
<1> USE FreezerAssumption
<1>1. value \in Int /\ Bound \in Nat /\ pc \in [Threads -> Labels]
    BY DEF FreezerInv, FreezerTypes
<1>2. PICK n : n = Cardinality(Threads)
    OBVIOUS
<1>3. PICK u \in SUBSET Threads : u = Unlocking
    BY DEF Unlocking, Calling
<1>4. PICK l \in SUBSET Threads : l = Locking
    BY DEF Locking, Calling
<1>5. PICK cu \in Nat : cu = Cardinality(u) /\ IsFiniteSet(u) /\ cu <= n /\ n \in Nat
    BY <1>2, CallingCounted
<1>6. PICK cl \in Nat : cl = Cardinality(l) /\ IsFiniteSet(l) /\ cl <= n
    BY <1>2, CallingCounted
<1>7. value + cu <= Bound + n /\ value - cl >= -(Bound + n)
    BY <1>2, <1>3, <1>4, <1>5, <1>6 DEF InBounds
<1>8. /\ Cardinality(Unlocking') \in Nat /\ Cardinality(Unlocking') <= n
      /\ Cardinality(Locking') \in Nat /\ Cardinality(Locking') <= n
  <2>1. Unlocking' \in SUBSET Threads /\ Locking' \in SUBSET Threads
      BY DEF Unlocking, Locking, Calling
  <2> QED
      BY <1>2, <2>1, CallingCounted
<1>9. SUFFICES value' + Cardinality(Unlocking') <= Bound + n
               /\ value' - Cardinality(Locking') >= -(Bound + n)
    BY <1>2 DEF InBounds
<1>10. ASSUME UNCHANGED value, Unlocking' = u, Locking' = l
       PROVE  value' + Cardinality(Unlocking') <= Bound + n
              /\ value' - Cardinality(Locking') >= -(Bound + n)
    BY <1>5, <1>6, <1>7, <1>10
<1>11. ASSUME NEW t \in Threads, NEW what \in Calls, Call(t, what)
       PROVE  value' + Cardinality(Unlocking') <= Bound + n
              /\ value' - Cardinality(Locking') >= -(Bound + n)
  <2>1. value' = value /\ pc' = [pc EXCEPT ![t] = what] /\ pc[t] = "out"
      BY <1>11 DEF Call, Goto
  <2>2. CASE what = "unlock"
    <3>1. Locking' = l /\ value < Bound
        BY <1>1, <1>4, <1>11, <2>1, <2>2 DEF Call, Locking, Calling
    <3> QED
        BY <1>1, <1>5, <1>6, <1>7, <1>8, <2>1, <3>1
  <2>3. CASE what = "lock"
    <3>1. Unlocking' = u /\ value > -Bound
        BY <1>1, <1>3, <1>11, <2>1, <2>3 DEF Call, Unlocking, Calling
    <3> QED
        BY <1>1, <1>5, <1>6, <1>7, <1>8, <2>1, <3>1
  <2>4. CASE what = "reset"
      BY <1>1, <1>3, <1>4, <1>10, <2>1, <2>4 DEF Unlocking, Locking, Calling
  <2> QED
      BY <2>2, <2>3, <2>4 DEF Calls
<1>12. ASSUME NEW t \in Threads, Enter(t) \/ lock_resume(t) \/ lock_leave(t) \/ WakeUnasked(t)
       PROVE  value' + Cardinality(Unlocking') <= Bound + n
              /\ value' - Cardinality(Locking') >= -(Bound + n)
  <2>1. UNCHANGED value
      BY <1>12 DEF Enter, lock_resume, lock_leave, WakeUnasked, freezerVars
  <2>2. Unlocking' = u /\ Locking' = l
      BY <1>1, <1>3, <1>4, <1>12 DEF Enter, lock_resume, lock_leave, WakeUnasked, freezerVars, Goto,
         Calls, Unlocking, Locking, Calling
  <2> QED
      BY <1>10, <2>1, <2>2
<1>13. ASSUME NEW t \in Threads, lock(t)
       PROVE  value' + Cardinality(Unlocking') <= Bound + n
              /\ value' - Cardinality(Locking') >= -(Bound + n)
  <2>1. /\ value' = value - 1 /\ pc[t] = "lock_in"
        /\ pc' = [pc EXCEPT ![t] = "lock_wait"] \/ pc' = [pc EXCEPT ![t] = "out"]
      BY <1>13 DEF lock, Goto
  <2>2. Unlocking' = u /\ Locking' = l \ {t} /\ t \in l
      BY <1>1, <1>3, <1>4, <2>1 DEF Unlocking, Locking, Calling
  <2>3. Cardinality(l \ {t}) = cl - 1
      BY <1>6, <2>2, FS_RemoveElement
  <2> QED
      BY <1>1, <1>5, <1>6, <1>7, <2>1, <2>2, <2>3
<1>14. ASSUME NEW t \in Threads, unlock(t)
       PROVE  value' + Cardinality(Unlocking') <= Bound + n
              /\ value' - Cardinality(Locking') >= -(Bound + n)
  <2>1. value' = value + 1 /\ pc[t] = "unlock_in" /\ pc' = [pc EXCEPT ![t] = "out"]
      BY <1>14 DEF unlock, Goto
  <2>2. Locking' = l /\ Unlocking' = u \ {t} /\ t \in u
      BY <1>1, <1>3, <1>4, <2>1 DEF Unlocking, Locking, Calling
  <2>3. Cardinality(u \ {t}) = cu - 1
      BY <1>5, <2>2, FS_RemoveElement
  <2> QED
      BY <1>1, <1>5, <1>6, <1>7, <2>1, <2>2, <2>3
<1>15. ASSUME NEW t \in Threads, reset(t)
       PROVE  value' + Cardinality(Unlocking') <= Bound + n
              /\ value' - Cardinality(Locking') >= -(Bound + n)
  <2>1. CASE value < 0
    <3>1. value' = value + 1 /\ pc' = [pc EXCEPT ![t] = "reset"] /\ pc[t] = "reset_in"
        BY <1>15, <2>1 DEF reset, Goto
    <3>2. Unlocking' = u /\ Locking' = l
        BY <1>1, <1>3, <1>4, <3>1 DEF Unlocking, Locking, Calling
    <3> QED
        BY <1>1, <1>5, <1>6, <1>7, <2>1, <3>1, <3>2
  <2>2. CASE value >= 0
    <3>1. value' = 0
        BY <1>1, <1>15, <2>2 DEF reset
    <3> QED
        BY <1>1, <1>5, <1>8, <3>1
  <2> QED
      BY <1>1, <2>1, <2>2
<1>16. CASE UNCHANGED vars
    BY <1>3, <1>4, <1>10, <1>16 DEF vars, freezerVars, Unlocking, Locking, Calling
<1> QED
    BY <1>11, <1>12, <1>13, <1>14, <1>15, <1>16 DEF Next, Steps

(***************************************************************************)
(* The types.  value goes beyond the bound that callers keep to by no more *)
(* than the calls that were on their way when it was reached.              *)
(***************************************************************************)
THEOREM FreezerTypeCorrect == Spec => []TypeOK
<1>1. Init => InBounds
  <2>1. ASSUME Init
        PROVE  InBounds
    <3>1. Unlocking = {} /\ Locking = {} /\ value = 0
        BY <2>1 DEF Init, Unlocking, Locking, Calling
    <3>2. Cardinality(Unlocking) = 0 /\ Cardinality(Locking) = 0 /\ Cardinality(Threads) \in Nat
        BY <3>1, FS_EmptySet, CallingCounted
    <3> QED
        BY <3>1, <3>2, FreezerAssumption DEF InBounds
  <2> QED
      BY <2>1
<1>2. FreezerInv /\ InBounds /\ [Next]_vars => InBounds'
    BY NextKeepsBounds
<1>3. FreezerInv /\ InBounds => TypeOK
  <2> SUFFICES ASSUME FreezerInv, InBounds PROVE TypeOK
      OBVIOUS
  <2>1. Unlocking \in SUBSET Threads /\ Locking \in SUBSET Threads
      BY DEF Unlocking, Locking, Calling
  <2>2. /\ Cardinality(Unlocking) \in Nat /\ Cardinality(Locking) \in Nat
        /\ Cardinality(Threads) \in Nat
      BY <2>1, CallingCounted
  <2>3. value \in -(Bound + Cardinality(Threads)) .. Bound + Cardinality(Threads)
      BY <2>2, FreezerAssumption DEF InBounds, FreezerInv, FreezerTypes
  <2> QED
      BY <2>3 DEF TypeOK, FreezerInv, FreezerTypes
<1> QED
    BY <1>1, <1>2, <1>3, Invariance, PTL DEF Spec

=============================================================================
