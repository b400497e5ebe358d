------------------------------ MODULE FastTampon ------------------------------
(***************************************************************************)
(* libthreadar::fast_tampon: a ring of N blocks between one feeder and one *)
(* fetcher.  Both test for room or data without the mutex and take it only *)
(* when they must suspend, or to move their index.                         *)
(*                                                                         *)
(* A block is identified with its slot of table[], and what it carries     *)
(* with its data_size.                                                     *)
(***************************************************************************)
EXTENDS Condition

CONSTANTS
    Feeder, Fetcher,
    N,          \* table_size, the max_block argument of the constructor
    Sizes       \* the data_size values in use

ASSUME SidesAssumption ==
    /\ Feeder # Fetcher
    /\ Threads = {Feeder, Fetcher}
    /\ Instances = 0..1
ASSUME NAssumption == N \in Nat /\ N >= 2
ASSUME SizesAssumption == 0 \in Sizes

CondFull == 0
CondEmpty == 0
Slots == 0 .. N - 1

VARIABLES
    next_feed, next_fetch,          \* N only in the middle of shift_by_one
    feed_outside, fetch_outside,
    table,      \* table[s]: data_size of slot s
    pc,         \* pc[t]: the step thread t takes next, "out" between calls
    raised,     \* raised[t]: what the last call of t has thrown
    got         \* the num the last fetch() returned

ringVars == <<next_feed, next_fetch, feed_outside, fetch_outside, table, got>>
callVars == <<pc, raised>>
vars == <<condVars, ringVars, callVars>>

InLock == {"get_test", "get_retest", "ret_shift", "ret_wrap"}
Labels == {"out", "get_lock", "get_wait", "get_take", "ret_lock"} \cup InLock

Init ==
    /\ ConditionInit
    /\ next_feed = 0
    /\ next_fetch = 0
    /\ feed_outside = FALSE
    /\ fetch_outside = FALSE
    /\ table = [s \in Slots |-> 0]
    /\ pc = [t \in Threads |-> "out"]
    /\ raised = [t \in Threads |-> "none"]
    /\ got = 0

IsEmpty == next_feed = next_fetch

(* Seeded fault: the next index is not wrapped before it is compared. *)
IsFull_unwrapped == next_feed + 1 = next_fetch

IsFull == (IF next_feed + 1 >= N THEN 0 ELSE next_feed + 1) = next_fetch

Goto(t, label) == pc' = [pc EXCEPT ![t] = label]
Throw(t, what) == raised' = [raised EXCEPT ![t] = what]

-----------------------------------------------------------------------------
(***************************************************************************)
(* get_block_to_feed() and fetch() have one control flow:                  *)
(* "outside" is the caller's flag, "missing" its is_full() or is_empty().  *)
(***************************************************************************)
GetEnter(t, outside, missing) ==
    /\ pc[t] = "out"
    /\ IF outside
         THEN Goto(t, "out") /\ Throw(t, "range")
         ELSE Goto(t, IF missing THEN "get_lock" ELSE "get_take") /\ Throw(t, "none")
    /\ UNCHANGED <<condVars, ringVars>>

(* Seeded fault: modif stays locked when the condition was transitional. *)
GetTest_keeps_lock(t, missing, cond) ==
    /\ pc[t] = "get_test"
    /\ IF missing
         THEN Wait(t, cond) /\ Goto(t, "get_wait")
         ELSE Goto(t, "get_take") /\ UNCHANGED condVars
    /\ UNCHANGED <<ringVars, raised>>

(* The second test, with the mutex: suspend, or release it and go on. *)
GetTest(t, missing, cond) ==
    /\ pc[t] = "get_test"
    /\ IF missing
         THEN Wait(t, cond) /\ Goto(t, "get_wait")
         ELSE Unlock /\ Goto(t, "get_take") /\ UNCHANGED waitVars
    /\ UNCHANGED <<ringVars, raised>>

GetResume(t, cond) ==
    /\ pc[t] = "get_wait"
    /\ Resume(t, cond)
    /\ Goto(t, "get_retest")
    /\ UNCHANGED <<ringVars, raised>>

(* The third test, after wait(): nothing there is THREADAR_BUG. *)
GetRetest(t, missing) ==
    /\ pc[t] = "get_retest"
    /\ Unlock
    /\ IF missing
         THEN Goto(t, "out") /\ Throw(t, "bug")
         ELSE Goto(t, "get_take") /\ UNCHANGED raised
    /\ UNCHANGED <<waitVars, ringVars>>

(* modif.lock(), in either half of the interface *)
Acquire(t) ==
    /\ pc[t] \in {"get_lock", "ret_lock"}
    /\ Lock(t)
    /\ Goto(t, IF pc[t] = "get_lock" THEN "get_test" ELSE "ret_shift")
    /\ UNCHANGED <<waitVars, ringVars, raised>>

(***************************************************************************)
(* The four calls that give a block back start alike: the flag falls even  *)
(* if the pointer is then found to be a wrong one.                         *)
(***************************************************************************)
Returns(t, outside, right, label) ==
    /\ pc[t] = "out"
    /\ Goto(t, IF outside /\ right THEN label ELSE "out")
    /\ Throw(t, IF outside /\ right THEN "none" ELSE "range")
    /\ UNCHANGED condVars

(* Seeded fault: off by one in the count of waiting threads. *)
SignalIfWaiting_many(cond) ==
    IF counter[cond] > 1
    THEN Signal(cond)
    ELSE UNCHANGED waitVars

(* The other thread is signalled only if it is inside wait(). *)
SignalIfWaiting(cond) ==
    IF counter[cond] > 0
    THEN Signal(cond)
    ELSE UNCHANGED waitVars

(* Seeded fault: the last block of the ring is skipped. *)
Wrap_short(x) == IF x >= N - 1 THEN 0 ELSE x

Wrap(x) == IF x >= N THEN 0 ELSE x

-----------------------------------------------------------------------------
(* The feeder. *)

get_block_to_feed == GetEnter(Feeder, feed_outside, IsFull)

FeedTake ==
    /\ pc[Feeder] = "get_take"
    /\ feed_outside' = TRUE
    /\ Goto(Feeder, "out")
    /\ UNCHANGED <<condVars, next_feed, next_fetch, fetch_outside, table, got, raised>>

feed(right, size) ==
    /\ Returns(Feeder, feed_outside, right, "ret_lock")
    /\ feed_outside' = FALSE
    /\ table' = IF feed_outside /\ right THEN [table EXCEPT ![next_feed] = size] ELSE table
    /\ UNCHANGED <<next_feed, next_fetch, fetch_outside, got>>

FeedShift ==
    /\ pc[Feeder] = "ret_shift"
    /\ next_feed' = next_feed + 1
    /\ Goto(Feeder, "ret_wrap")
    /\ UNCHANGED <<condVars, next_fetch, feed_outside, fetch_outside, table, got, raised>>

FeedWrap ==
    /\ pc[Feeder] = "ret_wrap"
    /\ next_feed' = Wrap(next_feed)
    /\ SignalIfWaiting(CondEmpty)
    /\ Unlock
    /\ Goto(Feeder, "out")
    /\ UNCHANGED <<next_fetch, feed_outside, fetch_outside, table, got, raised>>

feed_cancel_get_block(right) ==
    /\ Returns(Feeder, feed_outside, right, "out")
    /\ feed_outside' = FALSE
    /\ UNCHANGED <<next_feed, next_fetch, fetch_outside, table, got>>

FeederCalls ==
    \/ get_block_to_feed
    \/ \E right \in BOOLEAN : feed_cancel_get_block(right) \/ \E s \in Sizes : feed(right, s)

FeederSteps ==
    \/ Acquire(Feeder)
    \/ GetTest(Feeder, IsFull, CondFull)
    \/ GetResume(Feeder, CondFull)
    \/ GetRetest(Feeder, IsFull)
    \/ FeedTake
    \/ FeedShift
    \/ FeedWrap

-----------------------------------------------------------------------------
(* The fetcher. *)

fetch == GetEnter(Fetcher, fetch_outside, IsEmpty)

FetchTake ==
    /\ pc[Fetcher] = "get_take"
    /\ fetch_outside' = TRUE
    /\ got' = table[next_fetch]
    /\ Goto(Fetcher, "out")
    /\ UNCHANGED <<condVars, next_feed, next_fetch, feed_outside, table, raised>>

fetch_recycle(right) ==
    /\ Returns(Fetcher, fetch_outside, right, "ret_lock")
    /\ fetch_outside' = FALSE
    /\ UNCHANGED <<next_feed, next_fetch, feed_outside, table, got>>

RecycleShift ==
    /\ pc[Fetcher] = "ret_shift"
    /\ next_fetch' = next_fetch + 1
    /\ Goto(Fetcher, "ret_wrap")
    /\ UNCHANGED <<condVars, next_feed, feed_outside, fetch_outside, table, got, raised>>

RecycleWrap ==
    /\ pc[Fetcher] = "ret_wrap"
    /\ next_fetch' = Wrap(next_fetch)
    /\ SignalIfWaiting(CondFull)
    /\ Unlock
    /\ Goto(Fetcher, "out")
    /\ UNCHANGED <<next_feed, feed_outside, fetch_outside, table, got, raised>>

(* Seeded fault: the new size goes to the slot of the feeder. *)
fetch_push_back_misplaced(right, size) ==
    /\ Returns(Fetcher, fetch_outside, right, "out")
    /\ fetch_outside' = FALSE
    /\ table' = IF fetch_outside /\ right /\ next_feed < N
                  THEN [table EXCEPT ![next_feed] = size] ELSE table
    /\ UNCHANGED <<next_feed, next_fetch, feed_outside, got>>

fetch_push_back(right, size) ==
    /\ Returns(Fetcher, fetch_outside, right, "out")
    /\ fetch_outside' = FALSE
    /\ table' = IF fetch_outside /\ right THEN [table EXCEPT ![next_fetch] = size] ELSE table
    /\ UNCHANGED <<next_feed, next_fetch, feed_outside, got>>

FetcherCalls ==
    \/ fetch
    \/ \E right \in BOOLEAN : fetch_recycle(right) \/ \E s \in Sizes : fetch_push_back(right, s)

FetcherSteps ==
    \/ Acquire(Fetcher)
    \/ GetTest(Fetcher, IsEmpty, CondEmpty)
    \/ GetResume(Fetcher, CondEmpty)
    \/ GetRetest(Fetcher, IsEmpty)
    \/ FetchTake
    \/ RecycleShift
    \/ RecycleWrap

-----------------------------------------------------------------------------
(***************************************************************************)
(* reset(), called by either side.  The other one may be asleep or at the  *)
(* mutex, but neither past its tests nor giving a block back, nor may it   *)
(* begin a call meanwhile: the discipline of the user.                     *)
(***************************************************************************)
MayReset(t) ==
    /\ pc[t] = "out"
    /\ \A u \in Threads : pc[u] \notin {"get_take", "ret_lock"}

(* A thread found waiting is awaken for nothing, as by a spurious wakeup,  *)
(* and an exception is thrown.                                             *)
reset_refused(t) ==
    /\ MayReset(t)
    /\ holder = NoThread
    /\ counter[CondFull] > 0
    /\ Wake(CondFull, blocked[CondFull])
    /\ spurious' = (spurious \/ blocked[CondFull] # {})
    /\ Throw(t, "range")
    /\ UNCHANGED <<holder, ringVars, pc>>

(* Seeded fault: the threads inside wait() are not looked for. *)
NobodyWaits_never == TRUE

NobodyWaits == counter[CondFull] = 0

reset(t) ==
    /\ MayReset(t)
    /\ holder = NoThread
    /\ NobodyWaits
    /\ next_feed' = 0 /\ next_fetch' = 0
    /\ feed_outside' = FALSE /\ fetch_outside' = FALSE
    /\ Throw(t, "none")
    /\ UNCHANGED <<condVars, table, got, pc>>

ResetCalls == \E t \in Threads : reset(t) \/ reset_refused(t)

-----------------------------------------------------------------------------
WakeUnasked ==
    /\ \E t \in Threads : SpuriousWakeup(t, CondFull)
    /\ UNCHANGED <<ringVars, callVars>>

Next ==
    \/ FeederCalls \/ FeederSteps \/ FetcherCalls \/ FetcherSteps
    \/ ResetCalls \/ WakeUnasked

Spec == Init /\ [][Next]_vars

(***************************************************************************)
(* A thread inside a call of the library keeps running.  Nothing makes a   *)
(* user call the library, and the mutex need not be fair.                  *)
(***************************************************************************)
FairSpec == Spec /\ WF_vars(FeederSteps) /\ WF_vars(FetcherSteps)

-----------------------------------------------------------------------------
(***************************************************************************)
(* Properties.                                                             *)
(***************************************************************************)

(* Shape of the state of fast_tampon.hpp:196-206. *)
TypeOK ==
    /\ ConditionTypeOK
    /\ next_feed \in 0 .. N
    /\ next_fetch \in 0 .. N
    /\ feed_outside \in BOOLEAN
    /\ fetch_outside \in BOOLEAN
    /\ table \in [Slots -> Sizes]
    /\ pc \in [Threads -> Labels]
    /\ raised \in [Threads -> {"none", "range", "bug"}]
    /\ got \in Sizes

Norm(x) == IF x = N THEN 0 ELSE x

(* The number of blocks fed and not yet recycled. *)
Load ==
    LET d == Norm(next_feed) - Norm(next_fetch)
    IN  IF d < 0 THEN d + N ELSE d

(* The two sides never work on the same block, though is_full() and        *)
(* is_empty() are read without the mutex while the other side is moving    *)
(* its index (fast_tampon.hpp:273, 343).                                   *)
NoSharedBlock == feed_outside /\ fetch_outside => next_feed # next_fetch

(* A thread is asleep only while what it waits for is missing, or the      *)
(* other side has moved its index and is about to signal: no wakeup is     *)
(* lost between the counter test and the wait (fast_tampon.hpp:280, 318).  *)
NoLostWakeup ==
    /\ Feeder \in blocked[CondFull] => Load = N - 1 \/ pc[Fetcher] = "ret_wrap"
    /\ Fetcher \in blocked[CondEmpty] => Load = 0 \/ pc[Feeder] = "ret_wrap"

(* What a thread was signalled for is still there when it has the mutex    *)
(* again: only a spurious wakeup leads to the THREADAR_BUG after wait()    *)
(* (fast_tampon.hpp:283, 353).                                             *)
NoBug == ~spurious => \A t \in Threads : raised[t] # "bug"

(* Blocks come out in the order they went in, each with the size it was    *)
(* given, none lost and none twice, and nothing touches a block between    *)
(* the moment feed() sizes it and the moment it enters the ring.  feed()   *)
(* takes effect when next_feed moves, fetch_recycle() when next_fetch does *)
(* (fast_tampon.hpp:317, 385).                                             *)
Unread == [i \in 1 .. Load |-> table[(Norm(next_fetch) + i - 1) % N]]
InReturn(t) == pc[t] \in {"ret_lock", "ret_shift"}

Promise == INSTANCE Pipe WITH
    Capacity <- N - 1,
    queue <- Unread,
    feeding <- IF feed_outside THEN "in hand" ELSE IF InReturn(Feeder) THEN "given" ELSE "no",
    offered <- IF InReturn(Feeder) THEN table[next_feed] ELSE 0,
    fetching <- fetch_outside \/ InReturn(Fetcher)

PipeSpec == Promise!Spec

(* A feeder suspended for want of room gets its block once there is some,  *)
(* and a fetcher suspended for want of data gets it once there is some,    *)
(* whatever the other side does, short of spurious wakeups.                *)
SuspendedServed ==
    /\ pc[Feeder] = "get_wait" /\ ~IsFull ~> pc[Feeder] = "get_take" \/ spurious
    /\ pc[Fetcher] = "get_wait" /\ ~IsEmpty ~> pc[Fetcher] = "get_take" \/ spurious

(* feed() and fetch_recycle() return: nobody keeps the mutex, and the      *)
(* other side cannot take it again and again, short of spurious wakeups.   *)
ReturnsEnd == \A t \in Threads : pc[t] = "ret_lock" ~> pc[t] = "out" \/ spurious

-----------------------------------------------------------------------------
(***************************************************************************)
(* The inductive invariant.                                                *)
(***************************************************************************)
LockMatchesPc == \A t \in Threads : holder = t <=> pc[t] \in InLock

Waiter(t) == IF pc[t] = "get_wait" THEN 1 ELSE 0

WaitersMatchPc ==
    /\ \A t \in Threads : t \in InWait(CondFull) <=> pc[t] = "get_wait"
    /\ blocked[CondFull] \cap woken[CondFull] = {}
    /\ blocked[1] = {} /\ woken[1] = {}
    /\ counter[CondFull] = Waiter(Feeder) + Waiter(Fetcher)

(* What each side relies on between its test and the move of its index. *)
FeederClaims == feed_outside \/ pc[Feeder] \in {"get_take", "ret_lock", "ret_shift"}
FetcherClaims == fetch_outside \/ pc[Fetcher] \in {"get_take", "ret_lock", "ret_shift"}

ClaimsHold ==
    /\ feed_outside => pc[Feeder] = "out"
    /\ fetch_outside => pc[Fetcher] = "out"
    /\ FeederClaims \/ pc[Fetcher] = "ret_wrap" => Load <= N - 2
    /\ FetcherClaims \/ pc[Feeder] = "ret_wrap" => Load >= 1

IndexInRange ==
    /\ next_feed = N => pc[Feeder] = "ret_wrap"
    /\ next_fetch = N => pc[Fetcher] = "ret_wrap"

(* Unless the wakeup is spurious, a thread wakes up to what it needs. *)
WokenIsServed ==
    ~spurious =>
        /\ Feeder \in woken[CondFull] \/ pc[Feeder] = "get_retest" => Load <= N - 2
        /\ Fetcher \in woken[CondEmpty] \/ pc[Fetcher] = "get_retest" => Load >= 1
        /\ NoBug

Inv ==
    /\ TypeOK
    /\ LockMatchesPc
    /\ WaitersMatchPc
    /\ IndexInRange
    /\ ClaimsHold
    /\ NoLostWakeup
    /\ WokenIsServed

=============================================================================
