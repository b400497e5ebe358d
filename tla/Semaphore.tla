------------------------------ MODULE Semaphore ------------------------------
(***************************************************************************)
(* libthreadar::semaphore: a counter under val_mutex, and a second mutex,  *)
(* semaph, locked by the constructor and used as a binary gate: lock()     *)
(* suspends on it when value gets negative, unlock() opens it once, after  *)
(* it has released val_mutex.                                              *)
(*                                                                         *)
(* lock() and unlock() change value in one step under val_mutex; reset()   *)
(* keeps val_mutex through its loop.  unlock() releases what its caller or *)
(* another thread has locked, "there must not be more unlock() calls than  *)
(* lock() calls" (semaphore.hpp:60), or is called when nothing is locked.  *)
(***************************************************************************)
EXTENDS Integers, FiniteSets

CONSTANTS
    Threads, NoThread,
    MaxValue,   \* bound of the model: the largest argument of the constructor
    Creator     \* the thread that builds the object

ASSUME SemaphoreAssumption ==
    /\ NoThread \notin Threads
    /\ IsFiniteSet(Threads)
    /\ Creator \in Threads
    /\ MaxValue \in Nat /\ MaxValue > 0

VARIABLES
    value, max_value,
    val_mutex, semaph,  \* who has locked each mutex
    pc,         \* pc[t]: "out", "holding" a resource, or inside a call
    was_reset   \* whether reset() has ever been called

vars == <<value, max_value, val_mutex, semaph, pc, was_reset>>

ValMutex == INSTANCE Mutex WITH holder <- val_mutex
Semaph == INSTANCE Mutex WITH holder <- semaph

Labels == {"out", "holding", "suspending", "opening", "resetting"}

Init ==
    /\ max_value \in 1 .. MaxValue
    /\ value = max_value
    /\ ValMutex!MutexInit
    /\ semaph = Creator
    /\ pc = [t \in Threads |-> "out"]
    /\ was_reset = FALSE

Goto(t, label) == pc' = [pc EXCEPT ![t] = label]

(* Seeded fault: one thread too many goes through. *)
Suspends_late(v) == v < -1

Suspends(v) == v < 0

lock(t) ==
    /\ pc[t] = "out"
    /\ val_mutex = NoThread
    /\ value' = value - 1
    /\ Goto(t, IF Suspends(value - 1) THEN "suspending" ELSE "holding")
    /\ UNCHANGED <<max_value, val_mutex, semaph, was_reset>>

lock_gate(t) ==
    /\ pc[t] = "suspending"
    /\ Semaph!Lock(t)
    /\ Goto(t, "holding")
    /\ UNCHANGED <<value, max_value, val_mutex, was_reset>>

(* Seeded fault: the test for the maximum one too high. *)
TooMuch_high == value > max_value

TooMuch == value = max_value

(* Seeded faults: the gate opened one time too few, one too many. *)
Opens_less(v) == v < 0
Opens_more(v) == v <= 1

Opens(v) == v <= 0

Opening == ~TooMuch /\ Opens(value + 1)

(* t calls unlock() for the resource of h, its own or not; if none is left *)
(* to release, the call throws exception_range.                            *)
unlock(t, h) ==
    /\ \/ pc[h] = "holding" /\ (t = h \/ pc[t] = "out")
       \/ pc[h] = "out" /\ t = h /\ value = max_value
    /\ val_mutex = NoThread
    /\ value' = IF TooMuch THEN value ELSE value + 1
    /\ pc' = [pc EXCEPT ![h] = "out", ![t] = IF Opening THEN "opening" ELSE "out"]
    /\ UNCHANGED <<max_value, val_mutex, semaph, was_reset>>

unlock_gate(t) ==
    /\ pc[t] = "opening"
    /\ Semaph!Unlock
    /\ Goto(t, "out")
    /\ UNCHANGED <<value, max_value, val_mutex, was_reset>>

reset(t) ==
    /\ pc[t] = "out"
    /\ ValMutex!Lock(t)
    /\ Goto(t, "resetting")
    /\ was_reset' = TRUE
    /\ UNCHANGED <<value, max_value, semaph>>

reset_turn(t) ==
    /\ pc[t] = "resetting"
    /\ value < 0
    /\ Semaph!Unlock
    /\ value' = value + 1
    /\ UNCHANGED <<max_value, val_mutex, pc, was_reset>>

reset_end(t) ==
    /\ pc[t] = "resetting"
    /\ value >= 0
    /\ value' = max_value
    /\ ValMutex!Unlock
    /\ Goto(t, "out")
    /\ UNCHANGED <<max_value, semaph, was_reset>>

Steps(t) == unlock_gate(t) \/ reset_turn(t) \/ reset_end(t)

Next ==
    \E t \in Threads :
        \/ lock(t) \/ lock_gate(t) \/ reset(t) \/ Steps(t)
        \/ \E h \in Threads : unlock(t, h)

Spec == Init /\ [][Next]_vars

(***************************************************************************)
(* A thread that nothing blocks goes on.  Nothing obliges the user to call *)
(* unlock(), and the gate is passed by whichever thread gets it first.     *)
(***************************************************************************)
FairSpec ==
    /\ Spec
    /\ \A t \in Threads : WF_vars(Steps(t)) /\ WF_vars(lock_gate(t))

-----------------------------------------------------------------------------
At(label) == {t \in Threads : pc[t] = label}

TypeOK ==
    /\ max_value \in 1 .. MaxValue
    /\ value \in Int /\ value <= max_value
    /\ val_mutex \in Threads \cup {NoThread}
    /\ semaph \in Threads \cup {NoThread}
    /\ pc \in [Threads -> Labels]
    /\ was_reset \in BOOLEAN

(* "at most max_value resource will be used at the same time"              *)
(* (semaphore.hpp:94-95), though value is decided under one mutex and the  *)
(* suspension happens on another.                                          *)
AtMostMax == ~was_reset => Cardinality(At("holding")) <= max_value

(* The permits on their way: gate openings not yet made, and an open gate. *)
OnTheWay == Cardinality(At("opening")) + (IF semaph = NoThread THEN 1 ELSE 0)
Shortage == IF value < 0 THEN -value ELSE 0

(* The gate is opened only for threads that are suspended or about to be,  *)
(* even by reset(): no later lock() finds it open by chance.  With one     *)
(* resource, each suspended thread that value does not count as waiting    *)
(* has a permit on its way: none is suspended while it is free.            *)
PermitsMatch ==
    /\ Shortage + OnTheWay <= Cardinality(At("suspending"))
    /\ max_value = 1 /\ ~was_reset => Shortage + OnTheWay = Cardinality(At("suspending"))

(* "if one or more thread are suspended due to a call to lock() a single   *)
(* thread is awaken and returns from the lock() call it was suspended      *)
(* into" (semaphore.hpp:100-101): while a resource is free, a suspended    *)
(* thread gets it, or others do.                                           *)
Starved == value >= 0 /\ At("suspending") # {} /\ ~was_reset
PermitServes == Starved ~> ~Starved

(* The same for a semaphore of one resource.                               *)
OnePermitServes == max_value = 1 /\ Starved ~> ~Starved

=============================================================================
