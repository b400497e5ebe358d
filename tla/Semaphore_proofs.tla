-------------------------- MODULE Semaphore_proofs --------------------------
(***************************************************************************)
(* libthreadar::semaphore, for any finite set of threads and any number of *)
(* resources: never more holders than resources until reset() is called,   *)
(* and never more permits on their way than threads suspended.             *)
(***************************************************************************)
EXTENDS Semaphore, FiniteSetTheorems, TLAPS

Number(label) == Cardinality(At(label))
GateOpen == IF semaph = NoThread THEN 1 ELSE 0

(* Each thread past lock() and not yet in unlock(), suspended or not, has  *)
(* taken one from value.                                                   *)
CountMatches ==
    ~was_reset => value = max_value - Number("holding") - Number("suspending")

(* PermitsMatch, number by number. *)
PermitsCount ==
    LET permits == Shortage + Number("opening") + GateOpen
    IN /\ permits <= Number("suspending")
       /\ max_value = 1 /\ ~was_reset => permits = Number("suspending")

(* Only reset() keeps val_mutex from one step to the next. *)
KeptByReset == \A t \in Threads : pc[t] = "resetting" => was_reset

SemaphoreInv == TypeOK /\ CountMatches /\ PermitsCount /\ KeptByReset

-----------------------------------------------------------------------------
(* There is a natural number of threads at each label. *)
LEMMA NumberIsNat ==
    ASSUME NEW label
    PROVE  IsFiniteSet(At(label)) /\ Number(label) \in Nat
<1>1. IsFiniteSet(At(label))
    BY SemaphoreAssumption, FS_Subset DEF At
<1> QED
    BY <1>1, FS_CardinalityType DEF Number

(* A label where there is a thread counts one at least. *)
LEMMA NumberIsPositive ==
    ASSUME NEW t \in Threads
    PROVE  Number(pc[t]) \in Nat \ {0}
<1>1. t \in At(pc[t])
    BY DEF At
<1> QED
    BY <1>1, NumberIsNat, FS_EmptySet DEF Number

(* A thread that goes from one label to another changes two numbers by one. *)
LEMMA GotoMoves ==
    ASSUME pc \in [Threads -> Labels], NEW t \in Threads, NEW from, NEW to,
           pc[t] = from, Goto(t, to), from # to
    PROVE  /\ Number(to)' = Number(to) + 1
           /\ Number(from)' = Number(from) - 1
           /\ \A label : label \notin {from, to} => Number(label)' = Number(label)
<1>1. At(to)' = At(to) \cup {t} /\ t \notin At(to)
    BY DEF At, Goto
<1>2. Number(to)' = Number(to) + 1
    BY <1>1, NumberIsNat, FS_AddElement DEF Number
<1>3. At(from)' = At(from) \ {t} /\ t \in At(from)
    BY DEF At, Goto
<1>4. Number(from)' = Number(from) - 1
    BY <1>3, NumberIsNat, FS_RemoveElement DEF Number
<1>5. \A label : label \notin {from, to} => At(label)' = At(label)
    BY DEF At, Goto
<1> QED
    BY <1>2, <1>4, <1>5 DEF Number

(* Where pc is left alone, so are the numbers. *)
LEMMA StaysCounted ==
    ASSUME UNCHANGED pc
    PROVE  \A label : Number(label)' = Number(label)
    BY DEF Number, At

-----------------------------------------------------------------------------
(* lock() takes one from value. *)
LEMMA LockKeepsInv ==
    ASSUME SemaphoreInv, NEW t \in Threads, lock(t)
    PROVE  SemaphoreInv'
<1> USE SemaphoreAssumption DEF SemaphoreInv, lock
<1>1. TypeOK' /\ KeptByReset'
    BY DEF TypeOK, KeptByReset, Labels, Goto, Suspends
<1>2. \A label \in Labels : Number(label) \in Nat
    BY NumberIsNat
<1>3. CASE Suspends(value - 1)
  <2>1. /\ Number("suspending")' = Number("suspending") + 1
        /\ Number("holding")' = Number("holding")
        /\ Number("opening")' = Number("opening")
      BY <1>3, GotoMoves DEF TypeOK
  <2> QED
      BY <1>1, <1>2, <1>3, <2>1 DEF TypeOK, CountMatches, PermitsCount, Shortage, GateOpen,
         Suspends, Labels
<1>4. CASE ~Suspends(value - 1)
  <2>1. /\ Number("holding")' = Number("holding") + 1
        /\ Number("suspending")' = Number("suspending")
        /\ Number("opening")' = Number("opening")
      BY <1>4, GotoMoves DEF TypeOK
  <2> QED
      BY <1>1, <1>2, <1>4, <2>1 DEF TypeOK, CountMatches, PermitsCount, Shortage, GateOpen,
         Suspends, Labels
<1> QED
    BY <1>3, <1>4

(* A suspended thread closes the gate behind it. *)
LEMMA LockGateKeepsInv ==
    ASSUME SemaphoreInv, NEW t \in Threads, lock_gate(t)
    PROVE  SemaphoreInv'
<1> USE SemaphoreAssumption DEF SemaphoreInv, lock_gate, Semaph!Lock
<1>1. TypeOK' /\ KeptByReset'
    BY DEF TypeOK, KeptByReset, Labels, Goto
<1>2. \A label \in Labels : Number(label) \in Nat
    BY NumberIsNat
<1>3. /\ Number("holding")' = Number("holding") + 1
      /\ Number("suspending")' = Number("suspending") - 1
      /\ Number("opening")' = Number("opening")
    BY GotoMoves DEF TypeOK
<1> QED
    BY <1>1, <1>2, <1>3 DEF TypeOK, CountMatches, PermitsCount, Shortage, GateOpen, Labels

(* unlock() gives it back, and is to open the gate if that leaves somebody short. *)
LEMMA UnlockKeepsInv ==
    ASSUME SemaphoreInv, NEW t \in Threads, NEW h \in Threads, unlock(t, h)
    PROVE  SemaphoreInv'
<1> USE SemaphoreAssumption DEF SemaphoreInv, unlock
<1>1. TypeOK' /\ KeptByReset'
    BY DEF TypeOK, KeptByReset, Labels, TooMuch
<1>2. \A label \in Labels : Number(label) \in Nat
    BY NumberIsNat
<1>3. CASE pc[h] = "out"
  <2>1. TooMuch /\ UNCHANGED pc /\ UNCHANGED value
      BY <1>3 DEF TooMuch, Opening, TypeOK
  <2> QED
      BY <1>1, <2>1, StaysCounted DEF CountMatches, PermitsCount, Shortage, GateOpen
<1>4. CASE pc[h] = "holding"
  <2>1. At("holding")' = At("holding") \ {h} /\ h \in At("holding")
      BY <1>4 DEF At, TypeOK
  <2>2. Number("holding")' = Number("holding") - 1
      BY <2>1, NumberIsNat, FS_RemoveElement DEF Number
  <2>3. Number("suspending")' = Number("suspending")
      BY <1>4 DEF Number, At, TypeOK
  <2>4. CASE Opening
    <3>1. At("opening")' = At("opening") \cup {t} /\ t \notin At("opening")
        BY <1>4, <2>4 DEF At, TypeOK
    <3>2. Number("opening")' = Number("opening") + 1
        BY <3>1, NumberIsNat, FS_AddElement DEF Number
    <3> QED
        BY <1>1, <1>2, <2>2, <2>3, <2>4, <3>2 DEF TypeOK, Opening, Opens, CountMatches,
           PermitsCount, Shortage, GateOpen, Labels
  <2>5. CASE ~Opening
    <3>1. Number("opening")' = Number("opening")
        BY <1>4, <2>5 DEF Number, At, TypeOK
    <3>2. Number("holding") > 0
        BY <1>4, NumberIsPositive
    <3> QED
        BY <1>1, <1>2, <2>2, <2>3, <2>5, <3>1, <3>2 DEF TypeOK, Opening, Opens, TooMuch,
           CountMatches, PermitsCount, Shortage, GateOpen, Labels
  <2> QED
      BY <2>4, <2>5
<1> QED
    BY <1>3, <1>4

(* With one resource there is one opening at a time, so the gate is closed *)
(* when it is opened, and the opening is not lost.                         *)
LEMMA UnlockGateKeepsInv ==
    ASSUME SemaphoreInv, NEW t \in Threads, unlock_gate(t)
    PROVE  SemaphoreInv'
<1> USE SemaphoreAssumption DEF SemaphoreInv, unlock_gate, Semaph!Unlock
<1>1. TypeOK' /\ KeptByReset'
    BY DEF TypeOK, KeptByReset, Labels, Goto
<1>2. \A label \in Labels : Number(label) \in Nat
    BY NumberIsNat
<1>3. /\ Number("opening")' = Number("opening") - 1
      /\ Number("holding")' = Number("holding")
      /\ Number("suspending")' = Number("suspending")
    BY GotoMoves DEF TypeOK
<1>4. Number("opening") > 0
    BY NumberIsPositive
<1>5. max_value = 1 /\ ~was_reset => GateOpen = 0
    BY <1>2, <1>4 DEF TypeOK, CountMatches, PermitsCount, Shortage, GateOpen, Labels
<1> QED
    BY <1>1, <1>2, <1>3, <1>4, <1>5 DEF TypeOK, CountMatches, PermitsCount, Shortage,
       GateOpen, Labels

(* reset() opens the gate for no more threads than value says are short. *)
LEMMA ResetKeepsInv ==
    ASSUME SemaphoreInv, NEW t \in Threads, reset(t) \/ reset_turn(t) \/ reset_end(t)
    PROVE  SemaphoreInv'
<1> USE SemaphoreAssumption DEF SemaphoreInv, Semaph!Unlock, ValMutex!Lock, ValMutex!Unlock
<1>1. was_reset' = TRUE
    BY DEF KeptByReset, TypeOK, reset, reset_turn, reset_end
<1>2. pc' \in [Threads -> Labels]
    BY DEF TypeOK, Labels, Goto, reset, reset_turn, reset_end
<1>3. /\ val_mutex' \in Threads \cup {NoThread}
      /\ semaph' \in Threads \cup {NoThread}
    BY DEF TypeOK, reset, reset_turn, reset_end
<1>4. /\ max_value' = max_value /\ value' \in Int /\ value' <= max_value
      /\ \/ value' = value + 1 /\ value < 0 /\ semaph' = NoThread
         \/ value' = value /\ semaph' = semaph
         \/ value' = max_value /\ value >= 0 /\ semaph' = semaph
    BY DEF TypeOK, reset, reset_turn, reset_end
<1>5. TypeOK' /\ KeptByReset' /\ CountMatches'
    BY <1>1, <1>2, <1>3, <1>4 DEF TypeOK, KeptByReset, CountMatches
<1>6. /\ Number("opening")' = Number("opening")
      /\ Number("suspending")' = Number("suspending")
    BY GotoMoves, StaysCounted DEF TypeOK, reset, reset_turn, reset_end
<1>7. Number("opening") \in Nat /\ Number("suspending") \in Nat
    BY NumberIsNat
<1>8. PermitsCount'
    BY <1>1, <1>4, <1>6, <1>7 DEF TypeOK, PermitsCount, Shortage, GateOpen
<1> QED
    BY <1>5, <1>8

-----------------------------------------------------------------------------
(* Nobody is suspended, nobody opens the gate, and the constructor has closed it. *)
LEMMA InitInv ==
    ASSUME Init
    PROVE  SemaphoreInv
<1> USE SemaphoreAssumption DEF Init, ValMutex!MutexInit
<1>1. \A label : label # "out" => At(label) = {}
    BY DEF At
<1>2. \A label : label # "out" => Number(label) = 0
    BY <1>1, FS_EmptySet DEF Number
<1>3. TypeOK /\ KeptByReset
  <2>1. was_reset \in BOOLEAN
      BY Zenon
  <2>2. pc \in [Threads -> Labels] /\ \A t \in Threads : pc[t] = "out"
      BY DEF Labels
  <2>3. max_value \in 1 .. MaxValue /\ value \in Int /\ value <= max_value
      OBVIOUS
  <2> QED
      BY <2>1, <2>2, <2>3 DEF TypeOK, KeptByReset
<1>4. CountMatches /\ PermitsCount
    BY <1>2 DEF CountMatches, PermitsCount, Shortage, GateOpen
<1> QED
    BY <1>3, <1>4 DEF SemaphoreInv

(* No step breaks the invariant. *)
LEMMA NextKeepsInv ==
    ASSUME SemaphoreInv, [Next]_vars
    PROVE  SemaphoreInv'
<1>1. CASE Next
    BY <1>1, LockKeepsInv, LockGateKeepsInv, UnlockKeepsInv, UnlockGateKeepsInv, ResetKeepsInv
       DEF Next, Steps
<1>2. CASE UNCHANGED vars
    BY <1>2, StaysCounted DEF vars, SemaphoreInv, TypeOK, CountMatches, PermitsCount,
       Shortage, GateOpen, KeptByReset
<1> QED
    BY <1>1, <1>2

(* Those who hold and are not counted as short have taken from max_value. *)
LEMMA InvImplies ==
    ASSUME SemaphoreInv
    PROVE  AtMostMax /\ PermitsMatch
<1>1. /\ Number("holding") \in Nat /\ Number("suspending") \in Nat
      /\ Number("opening") \in Nat
    BY NumberIsNat
<1>2. OnTheWay = Number("opening") + GateOpen
    BY DEF OnTheWay, Number, GateOpen
<1>3. Shortage \in Nat /\ GateOpen \in Nat
    BY DEF SemaphoreInv, TypeOK, Shortage, GateOpen
<1>4. Number("holding") <= max_value \/ was_reset
    BY <1>1 DEF SemaphoreInv, TypeOK, CountMatches, PermitsCount, Shortage, GateOpen
<1>5. AtMostMax
    BY <1>4 DEF AtMostMax, Number
<1>6. Shortage + OnTheWay = Shortage + Number("opening") + GateOpen
    BY <1>1, <1>2, <1>3
<1>7. PermitsMatch
    BY <1>6 DEF PermitsMatch, SemaphoreInv, PermitsCount, Number
<1> QED
    BY <1>5, <1>7

(***************************************************************************)
(* The inductive invariant of the semaphore.                               *)
(***************************************************************************)
THEOREM Invariance == Spec => []SemaphoreInv
<1>1. Init => SemaphoreInv
    BY InitInv
<1>2. SemaphoreInv /\ [Next]_vars => SemaphoreInv'
    BY NextKeepsInv
<1> QED
    BY <1>1, <1>2, PTL DEF Spec

(***************************************************************************)
(* At most max_value threads hold a resource.                              *)
(***************************************************************************)
THEOREM HoldersAreBounded == Spec => []AtMostMax
<1>1. SemaphoreInv => AtMostMax
    BY InvImplies
<1> QED
    BY <1>1, Invariance, PTL

(***************************************************************************)
(* The gate is opened only for threads that are suspended, and with one    *)
(* resource for each one that may go.                                      *)
(***************************************************************************)
THEOREM PermitsAreExact == Spec => []PermitsMatch
<1>1. SemaphoreInv => PermitsMatch
    BY InvImplies
<1> QED
    BY <1>1, Invariance, PTL

(***************************************************************************)
(* The types; unlock() never takes value past max_value, also after a      *)
(* reset() (semaphore.cpp:89-91).                                          *)
(***************************************************************************)
THEOREM SemaphoreTypeCorrect == Spec => []TypeOK
<1>1. SemaphoreInv => TypeOK
    BY DEF SemaphoreInv
<1> QED
    BY <1>1, Invariance, PTL

=============================================================================
