--------------------------- MODULE Barrier_proofs ---------------------------
(***************************************************************************)
(* libthreadar::barrier, for any finite set of threads, any number of      *)
(* rounds and both builds: no thread leaves a round before all the others  *)
(* have begun it, over a condition the first round only; and waiting_num   *)
(* is exact until two threads change it at a time.                         *)
(***************************************************************************)
EXTENDS Barrier, FiniteSetTheorems, TLAPS

Released == {"uncount", "return"}

(* The rounds that t has been let through. *)
Passed(t) == done[t] + IF pc[t] \in Released THEN 1 ELSE 0

(* A thread is in a round that it has begun and not ended. *)
CallsMatchPc == \A t \in Threads : begun[t] = done[t] + IF pc[t] = "out" THEN 0 ELSE 1

(* With pthread_barrier_t nobody is let through alone. *)
PthreadRounds ==
    built_on = "pthread_barrier_t" =>
        /\ bar = {t \in Threads : pc[t] = "in"}
        /\ \A t \in Threads : pc[t] \notin {"asleep", "leave"}
        /\ \A t, u \in Threads : Passed(t) = Passed(u)

(* Over a condition, those asleep or awaken are counted, ...               *)
SleepersCounted ==
    built_on = "pthread_cond_t" =>
        /\ InWait(0) = {t \in Threads : pc[t] = "asleep"}
        /\ blocked[0] \cap woken[0] = {}
        /\ counter[0] = Cardinality(InWait(0))

(* ... and the first one to be let through has counted all the others.     *)
SomeoneReleased ==
    \/ woken[0] # {}
    \/ \E t \in Threads : pc[t] \in Released \cup {"leave"} \/ done[t] >= 1
FirstRound ==
    built_on = "pthread_cond_t" /\ ~spurious /\ SomeoneReleased =>
        \A t \in Threads : begun[t] >= 1

RoundsInv == TypeOK /\ CallsMatchPc /\ PthreadRounds /\ SleepersCounted /\ FirstRound

(* Whoever changes waiting_num alone writes what it has become by then.    *)
Counted == {t \in Threads : pc[t] \notin {"out", "count"}}
Updating == {t \in Threads : pc[t] \in {"count", "return"}}

CountInv ==
    built_on = "pthread_barrier_t" /\ ~overlapped =>
        /\ waiting_num = Cardinality(Counted)
        /\ \A t, u \in Updating : t = u
        /\ \A t \in Updating : register[t] = waiting_num

BarrierInv == RoundsInv /\ CountInv

-----------------------------------------------------------------------------
(* Who adds one to all the other threads counts Val. *)
LEMMA AllButOne ==
    ASSUME NEW ts \in SUBSET Threads, NEW t \in Threads, Cardinality(ts \cup {t}) >= Val
    PROVE  ts \cup {t} = Threads
<1>1. ts \cup {t} \subseteq Threads
    OBVIOUS
<1>2. Cardinality(ts \cup {t}) <= Val /\ (Cardinality(ts \cup {t}) = Val => ts \cup {t} = Threads)
    BY <1>1, FiniteThreads, FS_Subset DEF Val
<1>3. Cardinality(ts \cup {t}) \in Nat /\ Val \in Nat
    BY <1>1, FiniteThreads, FS_Subset, FS_CardinalityType DEF Val
<1> QED
    BY <1>2, <1>3

(* The count is kept within its word. *)
LEMMA InTheWord ==
    ASSUME NEW n \in Nat
    PROVE  n % WordSize \in 0 .. WordSize - 1
<1>1. WordSize \in Nat \ {0}
    BY BarrierAssumption
<1> QED
    BY <1>1

-----------------------------------------------------------------------------
(* waiting_num is for the user's information: no round depends on it. *)
LEMMA CountingKeepsInv ==
    ASSUME RoundsInv, NEW t \in Threads,
           wait(t) \/ Increment(t) \/ ReadBack(t) \/ Decrement(t)
    PROVE  RoundsInv'
<1> USE BarrierAssumption
        DEF RoundsInv, wait, Increment, ReadBack, Decrement, Read, Write, Goto, condVars, waitVars
<1>1. /\ pc' \in [Threads -> Labels]
      /\ register' \in [Threads -> 0 .. WordSize - 1]
      /\ waiting_num' \in 0 .. WordSize - 1
      /\ overlapped' \in BOOLEAN
  <2>1. register[t] \in 0 .. WordSize - 1
      BY DEF TypeOK
  <2>2. register[t] + 1 \in Nat /\ register[t] + WordSize - 1 \in Nat
      BY <2>1
  <2>3. waiting_num' \in 0 .. WordSize - 1
      BY <2>2, InTheWord DEF TypeOK
  <2>4. register' \in [Threads -> 0 .. WordSize - 1]
      BY DEF TypeOK
  <2>5. overlapped' \in BOOLEAN
      BY DEF TypeOK
  <2> QED
      BY <2>3, <2>4, <2>5 DEF TypeOK, Labels
<1>2. /\ begun' \in [Threads -> 0 .. Rounds]
      /\ done' \in [Threads -> 0 .. Rounds]
  <2>1. begun[t] < Rounds => begun[t] + 1 \in 0 .. Rounds
      BY DEF TypeOK
  <2>2. pc[t] # "out" => done[t] + 1 \in 0 .. Rounds
      BY DEF TypeOK, CallsMatchPc
  <2> QED
      BY <2>1, <2>2 DEF TypeOK
<1>3. UNCHANGED <<condVars, bar, built_on>>
    OBVIOUS
<1>4. TypeOK'
    BY <1>1, <1>2, <1>3 DEF TypeOK, ConditionTypeOK, MutexTypeOK
<1>5. CallsMatchPc'
    BY DEF CallsMatchPc, TypeOK
<1>6. \A u \in Threads : Passed(u)' = Passed(u)
    BY DEF Passed, Released, TypeOK
<1>7. \A u \in Threads : pc'[u] = "in" <=> pc[u] = "in"
    BY DEF TypeOK
<1>8. \A u \in Threads : pc'[u] \in {"asleep", "leave"} <=> pc[u] \in {"asleep", "leave"}
    BY DEF TypeOK
<1>9. PthreadRounds'
    BY <1>3, <1>6, <1>7, <1>8 DEF PthreadRounds
<1>10. SleepersCounted'
    BY <1>3 DEF SleepersCounted, InWait, TypeOK
<1>11. \A u \in Threads : begun'[u] >= begun[u]
    BY DEF TypeOK
<1>12. SomeoneReleased' => SomeoneReleased
    BY DEF SomeoneReleased, Released, TypeOK
<1>13. FirstRound'
    BY <1>3, <1>2, <1>11, <1>12 DEF FirstRound, TypeOK
<1> QED
    BY <1>4, <1>5, <1>9, <1>10, <1>13

-----------------------------------------------------------------------------
(* The last one to arrive finds all the others inside. *)
LEMMA PthreadWaitKeepsInv ==
    ASSUME RoundsInv, NEW t \in Threads, PthreadWait(t)
    PROVE  RoundsInv'
<1> USE BarrierAssumption DEF RoundsInv, PthreadWait, countVars, Goto, condVars, waitVars
<1>1. CASE Cardinality(bar \cup {t}) < Val
  <2>1. bar' = bar \cup {t} /\ pc' = [pc EXCEPT ![t] = "in"]
      BY <1>1
  <2>2. TypeOK'
      BY <2>1 DEF TypeOK, ConditionTypeOK, MutexTypeOK, Labels
  <2>3. CallsMatchPc'
      BY <2>1 DEF CallsMatchPc, TypeOK
  <2>4. PthreadRounds'
      BY <2>1 DEF PthreadRounds, Passed, Released, TypeOK
  <2> QED
      BY <2>2, <2>3, <2>4 DEF SleepersCounted, FirstRound
<1>2. CASE ~(Cardinality(bar \cup {t}) < Val)
  <2>1. bar \subseteq Threads
      BY DEF TypeOK
  <2>2. Cardinality(bar \cup {t}) \in Nat /\ Val \in Nat
      BY <2>1, FiniteThreads, FS_Subset, FS_CardinalityType DEF Val
  <2>3. bar \cup {t} = Threads
      BY <1>2, <2>1, <2>2, AllButOne
  <2>4. bar' = {} /\ pc' = [u \in Threads |-> "uncount"]
      BY <1>2, <2>3
  <2>5. \A u \in Threads : pc[u] \in {"arrive", "in"}
      BY <2>3 DEF PthreadRounds
  <2>6. TypeOK'
      BY <2>4 DEF TypeOK, ConditionTypeOK, MutexTypeOK, Labels
  <2>7. CallsMatchPc'
      BY <2>4, <2>5 DEF CallsMatchPc, TypeOK
  <2>8. \A u \in Threads : Passed(u)' = Passed(u) + 1
      BY <2>4, <2>5 DEF Passed, Released, TypeOK
  <2>9. PthreadRounds'
      BY <2>4, <2>8 DEF PthreadRounds
  <2> QED
      BY <2>6, <2>7, <2>9 DEF SleepersCounted, FirstRound
<1> QED
    BY <1>1, <1>2

-----------------------------------------------------------------------------
(* The mutex lets nobody through. *)
LEMMA EnterKeepsInv ==
    ASSUME RoundsInv, NEW t \in Threads, Enter(t)
    PROVE  RoundsInv'
<1> USE BarrierAssumption DEF RoundsInv, Enter, countVars, Goto, Lock, waitVars
<1>1. TypeOK'
    BY DEF TypeOK, ConditionTypeOK, MutexTypeOK, Labels
<1>2. CallsMatchPc'
    BY DEF CallsMatchPc, TypeOK
<1>3. SleepersCounted'
    BY DEF SleepersCounted, InWait, TypeOK
<1>4. FirstRound'
    BY DEF FirstRound, SomeoneReleased, Released, TypeOK
<1> QED
    BY <1>1, <1>2, <1>3, <1>4 DEF PthreadRounds

(* Who falls asleep is one more that the next one counts. *)
LEMMA WaitKeepsInv ==
    ASSUME RoundsInv, NEW t \in Threads, WaitOrRelease(t), MustWait
    PROVE  RoundsInv'
<1> USE BarrierAssumption DEF RoundsInv, WaitOrRelease, countVars, Goto, Wait
<1>1. TypeOK'
    BY DEF TypeOK, ConditionTypeOK, MutexTypeOK, Labels
<1>2. CallsMatchPc'
    BY DEF CallsMatchPc, TypeOK
<1>3. InWait(0)' = InWait(0) \cup {t} /\ counter'[0] = counter[0] + 1
    BY DEF InWait, TypeOK, ConditionTypeOK
<1>4. t \notin InWait(0) /\ InWait(0) \subseteq Threads
    BY DEF SleepersCounted
<1>5. Cardinality(InWait(0) \cup {t}) = Cardinality(InWait(0)) + 1
    BY <1>4, FiniteThreads, FS_Subset, FS_AddElement
<1>6. blocked'[0] \cap woken'[0] = {}
    BY <1>4 DEF SleepersCounted, InWait, TypeOK, ConditionTypeOK
<1>7. SleepersCounted'
    BY <1>3, <1>5, <1>6 DEF SleepersCounted, TypeOK
<1>8. FirstRound'
    BY DEF FirstRound, SomeoneReleased, Released, TypeOK
<1> QED
    BY <1>1, <1>2, <1>7, <1>8 DEF PthreadRounds

(* Who does not has counted all the others. *)
LEMMA ReleaseKeepsInv ==
    ASSUME RoundsInv, NEW t \in Threads, WaitOrRelease(t), ~MustWait
    PROVE  RoundsInv'
<1> USE BarrierAssumption DEF RoundsInv, WaitOrRelease, countVars, Goto, Broadcast, Wake, Unlock
<1>1. TypeOK'
    BY DEF TypeOK, ConditionTypeOK, MutexTypeOK, Labels
<1>2. CallsMatchPc'
    BY DEF CallsMatchPc, TypeOK
<1>3. InWait(0)' = InWait(0) /\ blocked'[0] = {} /\ UNCHANGED counter
    BY DEF InWait, TypeOK, ConditionTypeOK
<1>4. SleepersCounted'
    BY <1>3 DEF SleepersCounted, TypeOK
<1>5. InWait(0) \subseteq Threads /\ t \notin InWait(0)
    BY DEF SleepersCounted
<1>6. Cardinality(InWait(0) \cup {t}) = counter[0] + 1
    BY <1>5, FiniteThreads, FS_Subset, FS_AddElement DEF SleepersCounted
<1>7. counter[0] \in Int /\ Val \in Nat
    BY FiniteThreads, FS_CardinalityType DEF Val, TypeOK, ConditionTypeOK
<1>8. InWait(0) \cup {t} = Threads
    BY <1>5, <1>6, <1>7, AllButOne DEF MustWait
<1>9. \A u \in Threads : pc[u] # "out"
    BY <1>8 DEF SleepersCounted
<1>10. \A u \in Threads : begun'[u] >= 1
    BY <1>9 DEF CallsMatchPc, TypeOK
<1> QED
    BY <1>1, <1>2, <1>4, <1>10 DEF PthreadRounds, FirstRound

(* A thread awaken is one less. *)
LEMMA ReturnKeepsInv ==
    ASSUME RoundsInv, NEW t \in Threads, WaitReturns(t)
    PROVE  RoundsInv'
<1> USE BarrierAssumption DEF RoundsInv, WaitReturns, countVars, Goto, Resume, Lock
<1>1. TypeOK'
    BY DEF TypeOK, ConditionTypeOK, MutexTypeOK, Labels
<1>2. CallsMatchPc'
    BY DEF CallsMatchPc, TypeOK
<1>3. built_on = "pthread_cond_t"
    BY DEF PthreadRounds, TypeOK
<1>4. InWait(0)' = InWait(0) \ {t} /\ t \in InWait(0) /\ counter'[0] = counter[0] - 1
    BY <1>3 DEF InWait, SleepersCounted, TypeOK, ConditionTypeOK
<1>5. InWait(0) \subseteq Threads
    BY <1>3 DEF SleepersCounted
<1>6. Cardinality(InWait(0) \ {t}) = Cardinality(InWait(0)) - 1
    BY <1>4, <1>5, FiniteThreads, FS_Subset, FS_RemoveElement
<1>7. blocked'[0] \cap woken'[0] = {}
    BY <1>3 DEF SleepersCounted, TypeOK, ConditionTypeOK
<1>8. SleepersCounted'
    BY <1>3, <1>4, <1>6, <1>7 DEF SleepersCounted, TypeOK
<1>9. SomeoneReleased
    BY DEF SomeoneReleased
<1>10. FirstRound'
    BY <1>9 DEF FirstRound
<1> QED
    BY <1>1, <1>2, <1>3, <1>8, <1>10 DEF PthreadRounds

(* And lets the mutex go. *)
LEMMA LeaveKeepsInv ==
    ASSUME RoundsInv, NEW t \in Threads, Leave(t)
    PROVE  RoundsInv'
<1> USE BarrierAssumption DEF RoundsInv, Leave, countVars, Goto, Unlock, waitVars
<1>1. TypeOK'
    BY DEF TypeOK, ConditionTypeOK, MutexTypeOK, Labels
<1>2. CallsMatchPc'
    BY DEF CallsMatchPc, TypeOK
<1>3. built_on = "pthread_cond_t"
    BY DEF PthreadRounds, TypeOK
<1>4. SleepersCounted'
    BY DEF SleepersCounted, InWait, TypeOK
<1>5. SomeoneReleased
    BY DEF SomeoneReleased
<1>6. FirstRound'
    BY <1>5 DEF FirstRound
<1> QED
    BY <1>1, <1>2, <1>3, <1>4, <1>6 DEF PthreadRounds

(* A spurious wakeup leaves its thread among those counted. *)
LEMMA WakeUnaskedKeepsInv ==
    ASSUME RoundsInv, NEW t \in Threads, WakeUnasked(t)
    PROVE  RoundsInv'
<1> USE BarrierAssumption DEF RoundsInv, WakeUnasked, countVars, SpuriousWakeup, Wake
<1>1. TypeOK'
    BY DEF TypeOK, ConditionTypeOK, MutexTypeOK
<1>2. InWait(0)' = InWait(0) /\ (blocked[0] \cap woken[0] = {} => blocked'[0] \cap woken'[0] = {})
    BY DEF InWait, TypeOK, ConditionTypeOK
<1>3. SleepersCounted'
    BY <1>2 DEF SleepersCounted
<1> QED
    BY <1>1, <1>3 DEF CallsMatchPc, PthreadRounds, Passed, FirstRound

-----------------------------------------------------------------------------
(* Nobody has called wait() yet. *)
LEMMA RoundsInitInv ==
    ASSUME Init
    PROVE  RoundsInv
<1> USE BarrierAssumption DEF Init, ConditionInit, MutexInit
<1>1. spurious \in BOOLEAN /\ overlapped \in BOOLEAN
    BY Zenon
<1>2. TypeOK
    BY <1>1 DEF TypeOK, ConditionTypeOK, MutexTypeOK, Labels
<1>3. CallsMatchPc /\ PthreadRounds
    BY DEF CallsMatchPc, PthreadRounds, Passed, Released
<1>4. SleepersCounted
    BY FS_EmptySet DEF SleepersCounted, InWait
<1>5. FirstRound
    BY DEF FirstRound, SomeoneReleased, Released
<1> QED
    BY <1>2, <1>3, <1>4, <1>5 DEF RoundsInv

(* No step breaks the invariant. *)
LEMMA RoundsNextKeepsInv ==
    ASSUME RoundsInv, [Next]_vars
    PROVE  RoundsInv'
<1>1. CASE Next
    BY <1>1, CountingKeepsInv, PthreadWaitKeepsInv, EnterKeepsInv, WaitKeepsInv,
       ReleaseKeepsInv, ReturnKeepsInv, LeaveKeepsInv, WakeUnaskedKeepsInv DEF Next, Steps
<1>2. CASE UNCHANGED vars
    BY <1>2 DEF vars, countVars, condVars, waitVars, RoundsInv, TypeOK, ConditionTypeOK, MutexTypeOK,
       CallsMatchPc, PthreadRounds, Passed, SleepersCounted, InWait, FirstRound, SomeoneReleased
<1> QED
    BY <1>1, <1>2

(* Who has been let through a round has company in it. *)
LEMMA InvImplies ==
    ASSUME RoundsInv
    PROVE  SoundRoundsAligned
<1> USE DEF RoundsInv, TypeOK
<1>1. SUFFICES ASSUME ~spurious, NEW t \in Threads, NEW u \in Threads,
                      NEW r \in 1 .. SoundRounds, done[t] >= r
               PROVE  begun[u] >= r
    BY DEF SoundRoundsAligned
<1>2. CASE built_on = "pthread_barrier_t"
  <2>1. r \in Nat
      BY <1>2, BarrierAssumption DEF SoundRounds
  <2>2. Passed(u) = Passed(t)
      BY <1>2 DEF PthreadRounds
  <2> QED
      BY <1>1, <2>1, <2>2 DEF CallsMatchPc, Passed, Released
<1>3. CASE built_on = "pthread_cond_t"
  <2>1. r = 1
      BY <1>3 DEF SoundRounds
  <2> QED
      BY <1>1, <1>3, <2>1 DEF FirstRound, SomeoneReleased
<1> QED
    BY <1>2, <1>3

-----------------------------------------------------------------------------
(* A number within the word is the same modulo its size. *)
LEMMA WithinTheWord ==
    ASSUME NEW W \in Nat, NEW n \in 0 .. W - 1
    PROVE  n % W = n
    OBVIOUS

(* So is the one before it, that Decrement takes from the other side. *)
LEMMA OneLessInTheWord ==
    ASSUME NEW W \in Nat, NEW n \in 1 .. W - 1
    PROVE  (n + W - 1) % W = n - 1
    OBVIOUS

(* The threads counted are no more than the word holds. *)
LEMMA CountedFits ==
    ASSUME NEW ts \in SUBSET Threads
    PROVE  IsFiniteSet(ts) /\ Cardinality(ts) \in 0 .. WordSize - 1
<1>1. IsFiniteSet(ts) /\ Cardinality(ts) <= Val
    BY FiniteThreads, FS_Subset DEF Val
<1>2. Cardinality(ts) \in Nat
    BY <1>1, FS_CardinalityType
<1> QED
    BY <1>1, <1>2, BarrierAssumption

(* To read waiting_num alone is to have its value to oneself. *)
LEMMA ReadKeepsCount ==
    ASSUME TypeOK, CountInv, NEW t \in Threads, wait(t) \/ ReadBack(t)
    PROVE  CountInv'
<1> USE DEF wait, ReadBack, Read, Goto, TypeOK
<1>1. Counted' = Counted
    BY DEF Counted
<1>2. ~overlapped' => ~overlapped /\ Updating' = {t}
    BY DEF Overlap, Updating
<1>3. register'[t] = waiting_num'
    OBVIOUS
<1> QED
    BY <1>1, <1>2, <1>3 DEF CountInv

(* To write it is to count one more or one less. *)
LEMMA WriteKeepsCount ==
    ASSUME TypeOK, CountInv, NEW t \in Threads, Increment(t) \/ Decrement(t)
    PROVE  CountInv'
<1> SUFFICES ASSUME built_on = "pthread_barrier_t", ~overlapped
             PROVE  /\ waiting_num' = Cardinality(Counted)'
                    /\ Updating' = {}
    BY DEF CountInv, Increment, Decrement, Write
<1> USE DEF Write, Goto, TypeOK
<1>1. t \in Updating
    BY DEF Increment, Decrement, Updating
<1>2. register[t] = Cardinality(Counted)
    BY <1>1 DEF CountInv
<1>3. Updating' = {}
  <2>1. Updating = {t}
      BY <1>1 DEF CountInv
  <2> QED
      BY <2>1 DEF Increment, Decrement, Updating
<1>4. IsFiniteSet(Counted) /\ Cardinality(Counted) \in 0 .. WordSize - 1 /\ WordSize \in Nat
    BY CountedFits, BarrierAssumption DEF Counted
<1>5. CASE Increment(t)
  <2>1. t \notin Counted /\ Counted' = Counted \cup {t}
      BY <1>5 DEF Increment, Counted
  <2>2. Cardinality(Counted') = Cardinality(Counted) + 1
      BY <1>4, <2>1, FS_AddElement
  <2>3. Cardinality(Counted') \in 0 .. WordSize - 1
      BY CountedFits DEF Counted
  <2>4. waiting_num' = (Cardinality(Counted) + 1) % WordSize
      BY <1>2, <1>5 DEF Increment
  <2> QED
      BY <1>3, <1>4, <2>2, <2>3, <2>4, WithinTheWord
<1>6. CASE Decrement(t)
  <2>1. t \in Counted /\ Counted' = Counted \ {t}
      BY <1>6 DEF Decrement, Counted
  <2>2. Cardinality(Counted') = Cardinality(Counted) - 1
      BY <1>4, <2>1, FS_RemoveElement
  <2>3. Cardinality(Counted') \in 0 .. WordSize - 1
      BY CountedFits DEF Counted
  <2>4. waiting_num' = (Cardinality(Counted) + WordSize - 1) % WordSize
      BY <1>2, <1>6 DEF Decrement
  <2>5. Cardinality(Counted) \in 1 .. WordSize - 1
      BY <1>4, <2>2, <2>3
  <2> QED
      BY <1>3, <1>4, <2>2, <2>4, <2>5, OneLessInTheWord
<1> QED
    BY <1>5, <1>6

(* The wait itself leaves its threads counted. *)
LEMMA OthersKeepCount ==
    ASSUME TypeOK, CountInv, NEW t \in Threads,
           \/ PthreadWait(t) \/ Enter(t) \/ WaitOrRelease(t) \/ WaitReturns(t)
           \/ Leave(t) \/ WakeUnasked(t),
           PthreadRounds
    PROVE  CountInv'
<1> USE DEF TypeOK, Goto
<1>1. UNCHANGED <<countVars, built_on>>
    BY DEF PthreadWait, Enter, WaitOrRelease, WaitReturns, Leave, WakeUnasked
<1>2. built_on = "pthread_barrier_t" =>
        \A u \in Threads : pc'[u] = pc[u] \/ {pc[u], pc'[u]} \cap {"out", "count", "return"} = {}
    BY DEF PthreadWait, Enter, WaitOrRelease, WaitReturns, Leave, WakeUnasked, PthreadRounds
<1>3. built_on = "pthread_barrier_t" => Counted' = Counted /\ Updating' = Updating
    BY <1>2 DEF Counted, Updating
<1> QED
    BY <1>1, <1>3 DEF CountInv, countVars

(* The constructor sets waiting_num before anyone is counted. *)
LEMMA InitInv ==
    ASSUME Init
    PROVE  BarrierInv
<1>1. Counted = {} /\ Updating = {}
    BY DEF Init, Counted, Updating
<1>2. CountInv
    BY <1>1, FS_EmptySet DEF Init, CountInv
<1> QED
    BY <1>2, RoundsInitInv DEF BarrierInv

(* No step breaks either half of the invariant. *)
LEMMA NextKeepsInv ==
    ASSUME BarrierInv, [Next]_vars
    PROVE  BarrierInv'
<1>1. RoundsInv'
    BY RoundsNextKeepsInv DEF BarrierInv
<1>2. UNCHANGED vars => CountInv'
    BY DEF vars, countVars, BarrierInv, CountInv, Counted, Updating
<1>3. Next => CountInv'
    BY ReadKeepsCount, WriteKeepsCount, OthersKeepCount
       DEF Next, Steps, BarrierInv, RoundsInv
<1>4. CountInv'
    BY <1>2, <1>3 DEF BarrierInv
<1> QED
    BY <1>1, <1>4 DEF BarrierInv

(***************************************************************************)
(* The inductive invariant of the barrier.                                 *)
(***************************************************************************)
THEOREM Invariance == Spec => []BarrierInv
<1>1. Init => BarrierInv
    BY InitInv
<1>2. BarrierInv /\ [Next]_vars => BarrierInv'
    BY NextKeepsInv
<1> QED
    BY <1>1, <1>2, PTL DEF Spec

(***************************************************************************)
(* No sound round is left before everyone has begun it.                    *)
(***************************************************************************)
THEOREM RoundsAreAligned == Spec => []SoundRoundsAligned
<1>1. BarrierInv => SoundRoundsAligned
    BY InvImplies DEF BarrierInv
<1> QED
    BY <1>1, Invariance, PTL

(***************************************************************************)
(* What get_waiting_count() returns is the number of threads inside        *)
(* wait(), until a ++ or -- of waiting_num comes inside another one.       *)
(***************************************************************************)
THEOREM CountIsExact == Spec => []CountIsExactUntilOverlap
<1>1. BarrierInv => CountIsExactUntilOverlap
    BY DEF BarrierInv, CountInv, CountIsExactUntilOverlap, Counted
<1> QED
    BY <1>1, Invariance, PTL

=============================================================================
