------------------------------- MODULE Freezer -------------------------------
(***************************************************************************)
(* libthreadar::freezer: a counter without maximum, kept under a condition *)
(* on which lock() suspends its caller when the counter gets negative.     *)
(* Each call is modelled from the request of the mutex on; the code        *)
(* between cond.lock() and the next cond.unlock() or cond.wait() is one    *)
(* step.                                                                   *)
(***************************************************************************)
EXTENDS Condition

CONSTANTS
    Bound       \* bound of the model: no call moves value beyond -Bound .. Bound

ASSUME FreezerAssumption ==
    /\ Instances = {0}
    /\ Bound \in Nat

VARIABLES
    value,
    pc      \* pc[t]: the call t is in, before or after it has the mutex

freezerVars == <<value, pc>>
vars == <<condVars, freezerVars>>

Calls == {"lock", "unlock", "reset"}
InLock == {"lock_in", "lock_back", "unlock_in", "reset_in"}
Labels == {"out", "lock_wait"} \cup Calls \cup InLock

Init ==
    /\ ConditionInit
    /\ value = 0
    /\ pc = [t \in Threads |-> "out"]

Goto(t, label) == pc' = [pc EXCEPT ![t] = label]

Call(t, what) ==
    /\ pc[t] = "out"
    /\ what = "unlock" => value < Bound
    /\ what = "lock" => value > -Bound
    /\ Goto(t, what)
    /\ UNCHANGED <<condVars, value>>

Enter(t) ==
    /\ pc[t] \in Calls
    /\ Lock(t)
    /\ Goto(t, CASE pc[t] = "lock" -> "lock_in"
                 [] pc[t] = "unlock" -> "unlock_in"
                 [] pc[t] = "reset" -> "reset_in")
    /\ UNCHANGED <<waitVars, value>>

(* Seeded fault: value is tested before it is decremented. *)
lock_tests_first(t) ==
    /\ pc[t] = "lock_in"
    /\ value' = value - 1
    /\ IF value < 0
         THEN Wait(t, 0) /\ Goto(t, "lock_wait")
         ELSE Unlock /\ Goto(t, "out") /\ UNCHANGED waitVars

lock(t) ==
    /\ pc[t] = "lock_in"
    /\ value' = value - 1
    /\ IF value - 1 < 0
         THEN Wait(t, 0) /\ Goto(t, "lock_wait")
         ELSE Unlock /\ Goto(t, "out") /\ UNCHANGED waitVars

(* lock() does not look at value again when wait() returns. *)
lock_resume(t) ==
    /\ pc[t] = "lock_wait"
    /\ Resume(t, 0)
    /\ Goto(t, "lock_back")
    /\ UNCHANGED value

(* Seeded fault: the mutex is kept after the wait. *)
lock_leave_locked(t) ==
    /\ pc[t] = "lock_back"
    /\ Goto(t, "out")
    /\ UNCHANGED <<condVars, value>>

lock_leave(t) ==
    /\ pc[t] = "lock_back"
    /\ Unlock
    /\ Goto(t, "out")
    /\ UNCHANGED <<waitVars, value>>

(* Seeded fault: the last suspended thread is not signalled. *)
unlock_off_by_one(t) ==
    /\ pc[t] = "unlock_in"
    /\ value' = value + 1
    /\ IF value + 1 < 0 THEN Signal(0) ELSE UNCHANGED waitVars
    /\ Unlock
    /\ Goto(t, "out")

unlock(t) ==
    /\ pc[t] = "unlock_in"
    /\ value' = value + 1
    /\ IF value + 1 <= 0 THEN Signal(0) ELSE UNCHANGED waitVars
    /\ Unlock
    /\ Goto(t, "out")

(* Seeded fault: the loop counts the wrong way. *)
reset_downward(t) ==
    /\ pc[t] = "reset_in"
    /\ IF value < 0
         THEN value' = value - 1 /\ Signal(0) /\ Goto(t, "reset")
         ELSE value' = 0 /\ Goto(t, "out") /\ UNCHANGED waitVars
    /\ Unlock

(* Seeded fault: the loop goes round with the mutex locked. *)
reset_locked(t) ==
    /\ pc[t] = "reset_in"
    /\ IF value < 0
         THEN value' = value + 1 /\ Signal(0) /\ Goto(t, "reset") /\ UNCHANGED holder
         ELSE value' = 0 /\ Goto(t, "out") /\ Unlock /\ UNCHANGED waitVars

(* One turn of the loop; the mutex is released after each. *)
reset(t) ==
    /\ pc[t] = "reset_in"
    /\ IF value < 0
         THEN value' = value + 1 /\ Signal(0) /\ Goto(t, "reset")
         ELSE value' = 0 /\ Goto(t, "out") /\ UNCHANGED waitVars
    /\ Unlock

WakeUnasked(t) ==
    /\ SpuriousWakeup(t, 0)
    /\ UNCHANGED freezerVars

Steps(t) == lock(t) \/ lock_leave(t) \/ unlock(t) \/ reset(t)

Next ==
    \E t \in Threads :
        \/ \E what \in Calls : Call(t, what)
        \/ Enter(t)
        \/ lock_resume(t)
        \/ Steps(t)
        \/ WakeUnasked(t)

Spec == Init /\ [][Next]_vars

(***************************************************************************)
(* A thread that has the mutex goes on; a thread that finds it free again  *)
(* and again gets it at last.                                              *)
(***************************************************************************)
FairSpec ==
    /\ Spec
    /\ \A t \in Threads :
          WF_vars(Steps(t)) /\ SF_vars(Enter(t)) /\ SF_vars(lock_resume(t))

-----------------------------------------------------------------------------
TypeOK ==
    /\ ConditionTypeOK
    /\ value \in -(Bound + Cardinality(Threads)) .. Bound + Cardinality(Threads)
    /\ pc \in [Threads -> Labels]

(* As long as no wakeup is spurious, a negative value is the number of     *)
(* threads asleep: lock() and unlock() agree on who is woken.  In any case *)
(* no thread sleeps over a permit: the unlock() that brought the value to  *)
(* zero has signalled every sleeper (freezer.cpp:66-68, 83-85, 104-108).   *)
Shortage == IF value < 0 THEN -value ELSE 0
SleepersAreOwed ==
    /\ Cardinality(blocked[0]) <= Shortage
    /\ ~spurious => Cardinality(blocked[0]) = Shortage

(* unlock() awakes exactly one thread, lock() returns only on a permit of  *)
(* its own or a spurious wakeup, reset() lets everyone go                  *)
(* (freezer.hpp:50-52).                                                    *)
Promise == INSTANCE Permits WITH
    Initial <- 0,
    suspended <- blocked[0],
    released <- woken[0],
    escaped <- spurious

PermitSpec == Promise!Spec

(* A thread that unlock() or reset() has let go leaves lock() in the end.  *)
WokenReturns == \A t \in Threads : t \in woken[0] ~> pc[t] = "out"

(* reset() ends unless lock() is called without end: each turn of its loop *)
(* leaves the mutex to newcomers (freezer.cpp:99-122).                     *)
NobodyLocks == \A t \in Threads : pc[t] \notin {"lock", "lock_in"}
ResetEnds == <>[]NobodyLocks => \A t \in Threads : pc[t] = "reset" ~> pc[t] = "out"

=============================================================================
