------------------------------- MODULE Barrier -------------------------------
(***************************************************************************)
(* libthreadar::barrier, in its two builds: over pthread_barrier_t, which  *)
(* is taken to keep its contract, and over a condition where that type     *)
(* does not exist.  Val threads go through it Rounds times each.           *)
(*                                                                         *)
(* Both builds keep waiting_num without any lock: each ++ and -- is a read *)
(* and a write.                                                            *)
(***************************************************************************)
EXTENDS Condition

CONSTANTS
    Rounds,     \* bound of the model: how often each thread calls wait()
    WordSize    \* waiting_num is unsigned: it wraps at WordSize

Val == Cardinality(Threads)     \* the constructor's argument

ASSUME BarrierAssumption ==
    /\ Instances = {0}
    /\ Rounds \in Nat /\ WordSize \in Nat /\ Val \in 1 .. WordSize - 1

VARIABLES
    built_on,   \* which of the two builds this is (used_implementation())
    waiting_num,
    register,   \* register[t]: the value t has read of waiting_num
    bar,        \* the threads inside pthread_barrier_wait()
    pc,
    begun, done,\* how many calls of wait() each thread has begun, ended
    overlapped  \* history: a thread has begun its ++ or -- of waiting_num
                \* while another was between the read and the write of its own

countVars == <<waiting_num, register, overlapped>>
vars == <<condVars, built_on, countVars, bar, pc, begun, done>>

Labels == {"out", "count", "arrive", "in", "asleep", "leave", "uncount", "return"}

(* Only the first constructor sets waiting_num (barrier.cpp:45, 64). *)
Init ==
    /\ ConditionInit
    /\ built_on \in {"pthread_barrier_t", "pthread_cond_t"}
    /\ waiting_num \in IF built_on = "pthread_barrier_t" THEN {0} ELSE 0 .. WordSize - 1
    /\ register = [t \in Threads |-> 0]
    /\ bar = {}
    /\ pc = [t \in Threads |-> "out"]
    /\ begun = [t \in Threads |-> 0]
    /\ done = [t \in Threads |-> 0]
    /\ overlapped = FALSE

Goto(t, label) == pc' = [pc EXCEPT ![t] = label]

-----------------------------------------------------------------------------
(* ++waiting_num, then --waiting_num on the way out *)

Overlap(t) == \E u \in Threads \ {t} : pc[u] \in {"count", "return"}

Read(t) ==
    /\ register' = [register EXCEPT ![t] = waiting_num]
    /\ overlapped' = (overlapped \/ Overlap(t))
    /\ UNCHANGED waiting_num

Write(t, n) ==
    /\ waiting_num' = n % WordSize
    /\ register' = [register EXCEPT ![t] = 0]
    /\ UNCHANGED overlapped

wait(t) ==
    /\ pc[t] = "out"
    /\ begun[t] < Rounds
    /\ begun' = [begun EXCEPT ![t] = @ + 1]
    /\ Read(t)
    /\ Goto(t, "count")
    /\ UNCHANGED <<condVars, bar, done, built_on>>

Increment(t) ==
    /\ pc[t] = "count"
    /\ Write(t, register[t] + 1)
    /\ Goto(t, "arrive")
    /\ UNCHANGED <<condVars, bar, begun, done, built_on>>

ReadBack(t) ==
    /\ pc[t] = "uncount"
    /\ Read(t)
    /\ Goto(t, "return")
    /\ UNCHANGED <<condVars, bar, begun, done, built_on>>

(* Seeded fault: only the catch(...) of wait() takes the thread off. *)
Decrement_thrown(t) ==
    /\ pc[t] = "return"
    /\ Write(t, register[t])
    /\ done' = [done EXCEPT ![t] = @ + 1]
    /\ Goto(t, "out")
    /\ UNCHANGED <<condVars, bar, begun, built_on>>

Decrement(t) ==
    /\ pc[t] = "return"
    /\ Write(t, register[t] + WordSize - 1)
    /\ done' = [done EXCEPT ![t] = @ + 1]
    /\ Goto(t, "out")
    /\ UNCHANGED <<condVars, bar, begun, built_on>>

-----------------------------------------------------------------------------
(* pthread_barrier_wait(): the last to arrive lets everyone go. *)
PthreadWait(t) ==
    /\ built_on = "pthread_barrier_t"
    /\ pc[t] = "arrive"
    /\ IF Cardinality(bar \cup {t}) < Val
         THEN bar' = bar \cup {t} /\ Goto(t, "in")
         ELSE /\ bar' = {}
              /\ pc' = [u \in Threads |-> IF u \in bar \cup {t} THEN "uncount" ELSE pc[u]]
    /\ UNCHANGED <<condVars, countVars, begun, done, built_on>>

-----------------------------------------------------------------------------
(* The build without pthread_barrier_t. *)
Enter(t) ==
    /\ built_on = "pthread_cond_t"
    /\ pc[t] = "arrive"
    /\ Lock(t)
    /\ Goto(t, "in")
    /\ UNCHANGED <<waitVars, countVars, bar, begun, done, built_on>>

(* Seeded faults: the caller not counted, or counted twice. *)
MustWait_always == counter[0] < Val
MustWait_less == counter[0] + 2 < Val

MustWait == counter[0] + 1 < Val

WaitOrRelease(t) ==
    /\ built_on = "pthread_cond_t"
    /\ pc[t] = "in"
    /\ IF MustWait
         THEN Wait(t, 0) /\ Goto(t, "asleep")
         ELSE Broadcast(0) /\ Unlock /\ Goto(t, "uncount")
    /\ UNCHANGED <<countVars, bar, begun, done, built_on>>

WaitReturns(t) ==
    /\ pc[t] = "asleep"
    /\ Resume(t, 0)
    /\ Goto(t, "leave")
    /\ UNCHANGED <<countVars, bar, begun, done, built_on>>

Leave(t) ==
    /\ pc[t] = "leave"
    /\ Unlock
    /\ Goto(t, "uncount")
    /\ UNCHANGED <<waitVars, countVars, bar, begun, done, built_on>>

WakeUnasked(t) ==
    /\ SpuriousWakeup(t, 0)
    /\ UNCHANGED <<countVars, bar, pc, begun, done, built_on>>

Steps(t) ==
    \/ Increment(t) \/ PthreadWait(t) \/ Enter(t) \/ WaitOrRelease(t)
    \/ WaitReturns(t) \/ Leave(t) \/ ReadBack(t) \/ Decrement(t)

Next == \E t \in Threads : wait(t) \/ Steps(t) \/ WakeUnasked(t)

Spec == Init /\ [][Next]_vars

(* Every thread keeps running, and calls wait() as often as it should. *)
FairSpec == Spec /\ \A t \in Threads : WF_vars(wait(t)) /\ WF_vars(Steps(t))

-----------------------------------------------------------------------------
TypeOK ==
    /\ ConditionTypeOK
    /\ built_on \in {"pthread_barrier_t", "pthread_cond_t"}
    /\ waiting_num \in 0 .. WordSize - 1
    /\ register \in [Threads -> 0 .. WordSize - 1]
    /\ bar \subseteq Threads
    /\ pc \in [Threads -> Labels]
    /\ begun \in [Threads -> 0 .. Rounds]
    /\ done \in [Threads -> 0 .. Rounds]
    /\ overlapped \in BOOLEAN

(* get_waiting_count() counts the threads inside wait() (barrier.hpp:90),  *)
(* where the constructor sets waiting_num, as long as no ++ or -- has come *)
(* inside another one (barrier.cpp:106, 141, 144).  After that it may stay *)
(* wrong, with the barrier empty.                                          *)
CountIsExactUntilOverlap ==
    built_on = "pthread_barrier_t" /\ ~overlapped =>
        waiting_num = Cardinality({t \in Threads : pc[t] \notin {"out", "count"}})

(* The rounds that each build keeps apart.  Over a condition it is the     *)
(* first alone: a thread that comes back at once counts those of the last  *)
(* round that are awake but have not left wait() (barrier.cpp:126).        *)
SoundRounds == IF built_on = "pthread_barrier_t" THEN Rounds ELSE 1

(* "All thread calling the wait() method get locked until 'num' thread(s)  *)
(* have called this wait() method" (barrier.hpp:50-51): none of these      *)
(* rounds is left before everyone has begun it.                            *)
SoundRoundsAligned ==
    ~spurious => \A t, u \in Threads, r \in 1 .. SoundRounds : done[t] >= r => begun[u] >= r

(* Every thread goes through these rounds: the one that finds the others   *)
(* asleep wakes them all (barrier.cpp:126-129).  A thread that leaves on a *)
(* spurious wakeup may be missed by those still asleep.                    *)
AllGoThrough == <>[](spurious \/ \A t \in Threads : done[t] >= SoundRounds)

=============================================================================
