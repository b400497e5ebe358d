----------------------------- MODULE ConditionUse -----------------------------
(***************************************************************************)
(* Any number of threads using one libthreadar::condition as its header    *)
(* asks: wait(), signal(), broadcast() and unlock() between lock() and     *)
(* unlock().                                                               *)
(***************************************************************************)
EXTENDS Condition

Init == ConditionInit

Waiting(t) == \E i \in Instances : t \in InWait(i)

LockStep(t) == ~Waiting(t) /\ Lock(t) /\ UNCHANGED waitVars

UnlockStep(t) == holder = t /\ Unlock /\ UNCHANGED waitVars

SignalStep(t, i) == holder = t /\ Signal(i) /\ UNCHANGED holder

BroadcastStep(t, i) == holder = t /\ Broadcast(i) /\ UNCHANGED holder

Next ==
    \E t \in Threads :
        \/ LockStep(t)
        \/ UnlockStep(t)
        \/ \E i \in Instances :
              \/ Wait(t, i)
              \/ Resume(t, i)
              \/ SignalStep(t, i)
              \/ BroadcastStep(t, i)
              \/ SpuriousWakeup(t, i)

Spec == Init /\ [][Next]_condVars

-----------------------------------------------------------------------------
(* counter[i] is kept outside pthread_cond_wait(), yet whatever the order  *)
(* of waits, signals, broadcasts and spurious returns it is the number of  *)
(* threads inside wait(i) (condition.cpp:76-78), never less.               *)
CounterExact == \A i \in Instances : counter[i] = Cardinality(InWait(i))

(* A thread is inside one wait() at most, and not while it has the mutex.  *)
OnePlace ==
    \A t \in Threads, i \in Instances :
        /\ t \in InWait(i) => holder # t
        /\ t \notin blocked[i] \cap woken[i]
        /\ \A j \in Instances : t \in InWait(i) /\ t \in InWait(j) => i = j

CounterInv == ConditionTypeOK /\ OnePlace /\ CounterExact

=============================================================================
