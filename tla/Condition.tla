------------------------------ MODULE Condition ------------------------------
(***************************************************************************)
(* libthreadar::condition: a mutex and, for each of its instances, a       *)
(* pthread condition variable and a count of the threads inside wait().    *)
(*                                                                         *)
(* A thread inside wait(i) is first asleep (blocked[i]); signal() or       *)
(* broadcast() makes it runnable (woken[i]); it leaves wait() once it has  *)
(* the mutex again.                                                        *)
(***************************************************************************)
EXTENDS Mutex, Integers, FiniteSets

CONSTANT Instances  \* the instance numbers, 0 .. num - 1

ASSUME FiniteThreads == IsFiniteSet(Threads)

VARIABLES
    blocked,    \* blocked[i]: the threads asleep on instance i
    woken,      \* woken[i]: awake, not yet back from pthread_cond_wait()
    counter,    \* counter[i]: what get_waiting_thread_count(i) returns
    spurious    \* whether a wait has ever ended without a signal

waitVars == <<blocked, woken, counter, spurious>>
condVars == <<holder, waitVars>>

ConditionTypeOK ==
    /\ MutexTypeOK
    /\ blocked \in [Instances -> SUBSET Threads]
    /\ woken \in [Instances -> SUBSET Threads]
    /\ counter \in [Instances -> Int]
    /\ spurious \in BOOLEAN

ConditionInit ==
    /\ MutexInit
    /\ blocked = [i \in Instances |-> {}]
    /\ woken = [i \in Instances |-> {}]
    /\ counter = [i \in Instances |-> 0]
    /\ spurious = FALSE

InWait(i) == blocked[i] \cup woken[i]

(***************************************************************************)
(* wait(i), up to where pthread_cond_wait() has released the mutex.        *)
(***************************************************************************)
Wait(t, i) ==
    /\ holder = t
    /\ holder' = NoThread
    /\ counter' = [counter EXCEPT ![i] = @ + 1]
    /\ blocked' = [blocked EXCEPT ![i] = @ \cup {t}]
    /\ UNCHANGED <<woken, spurious>>

(***************************************************************************)
(* The rest of wait(i): pthread_cond_wait() returns with the mutex locked  *)
(* and the counter goes down.                                              *)
(***************************************************************************)
Resume(t, i) ==
    /\ t \in woken[i]
    /\ Lock(t)
    /\ woken' = [woken EXCEPT ![i] = @ \ {t}]
    /\ counter' = [counter EXCEPT ![i] = @ - 1]
    /\ UNCHANGED <<blocked, spurious>>

Wake(i, ts) ==
    /\ blocked' = [blocked EXCEPT ![i] = @ \ ts]
    /\ woken' = [woken EXCEPT ![i] = @ \cup ts]
    /\ UNCHANGED counter

(***************************************************************************)
(* signal(i) wakes one of the threads asleep, if there is one;             *)
(* broadcast(i) wakes all of them.  Neither touches the mutex.             *)
(***************************************************************************)
Signal(i) ==
    \/ blocked[i] = {} /\ UNCHANGED waitVars
    \/ \E w \in blocked[i] : Wake(i, {w}) /\ UNCHANGED spurious

(* Seeded fault: broadcast() also restarts the count. *)
Broadcast_restarts(i) ==
    /\ blocked' = [blocked EXCEPT ![i] = {}]
    /\ woken' = [woken EXCEPT ![i] = @ \cup blocked[i]]
    /\ counter' = [counter EXCEPT ![i] = 0]
    /\ UNCHANGED spurious

Broadcast(i) == Wake(i, blocked[i]) /\ UNCHANGED spurious

(***************************************************************************)
(* POSIX lets pthread_cond_wait() return although nobody signalled.        *)
(* wait() does not loop, so its caller sees such a return.  spurious       *)
(* remembers that it happened, for the properties to tell it apart.        *)
(***************************************************************************)
SpuriousWakeup(t, i) ==
    /\ t \in blocked[i]
    /\ Wake(i, {t})
    /\ spurious' = TRUE
    /\ UNCHANGED holder

=============================================================================
