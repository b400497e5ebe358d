-------------------------- MODULE FastTampon_proofs --------------------------
(***************************************************************************)
(* fast_tampon is safe for any number of blocks: the two sides never hold  *)
(* the same block, no wakeup is lost, and without spurious wakeups the     *)
(* THREADAR_BUG after wait() is never thrown.  With the same invariant it  *)
(* implements Pipe, for any number of blocks and any set of sizes.         *)
(***************************************************************************)
EXTENDS FastTampon, Sequences, TLAPS

USE SidesAssumption, NAssumption

(* The ring holds between none and N - 1 blocks, wherever the two indexes  *)
(* are.                                                                    *)
LEMMA LoadType ==
    ASSUME next_feed \in 0 .. N, next_fetch \in 0 .. N
    PROVE  Load \in 0 .. N - 1
BY DEF Load, Norm

(* With both indexes in the table, is_full() says that N - 1 blocks are    *)
(* fed.                                                                    *)
LEMMA NotFullLoad ==
    ASSUME next_feed \in 0 .. N - 1, next_fetch \in 0 .. N - 1
    PROVE  IsFull <=> Load = N - 1
BY DEF Load, Norm, IsFull

(* With both indexes in the table, is_empty() says that no block is fed.   *)
LEMMA NotEmptyLoad ==
    ASSUME next_feed \in 0 .. N - 1, next_fetch \in 0 .. N - 1
    PROVE  IsEmpty <=> Load = 0
BY DEF Load, Norm, IsEmpty

(* The increment in shift_by_one(next_feed) is what adds a block.          *)
LEMMA FeedShiftLoad ==
    ASSUME next_feed \in 0 .. N - 1, next_fetch \in 0 .. N - 1, Load <= N - 2,
           next_feed' = next_feed + 1, next_fetch' = next_fetch
    PROVE  Load' = Load + 1
BY DEF Load, Norm

(* The increment in shift_by_one(next_fetch) is what removes a block.      *)
LEMMA RecycleShiftLoad ==
    ASSUME next_feed \in 0 .. N - 1, next_fetch \in 0 .. N - 1, Load >= 1,
           next_fetch' = next_fetch + 1, next_feed' = next_feed
    PROVE  Load' = Load - 1
BY DEF Load, Norm

(* Bringing an index back to 0 leaves the load alone.                      *)
LEMMA WrapLoad ==
    ASSUME next_feed \in 0 .. N, next_fetch \in 0 .. N,
           \/ next_feed' = Wrap(next_feed) /\ next_fetch' = next_fetch
           \/ next_fetch' = Wrap(next_fetch) /\ next_feed' = next_feed
    PROVE  Load' = Load
<1>1. \A x \in 0 .. N : Wrap(x) = Norm(x) /\ Norm(Wrap(x)) = Norm(x)
    BY DEF Norm, Wrap
<1>2. Norm(next_feed') = Norm(next_feed) /\ Norm(next_fetch') = Norm(next_fetch)
    BY <1>1
<1> QED
    BY <1>2 DEF Load

(* The load depends on the two indexes only.                               *)
LEMMA SameLoad ==
    ASSUME next_feed' = next_feed, next_fetch' = next_fetch
    PROVE  Load' = Load /\ IsFull' = IsFull /\ IsEmpty' = IsEmpty
BY DEF Load, Norm, IsFull, IsEmpty

-----------------------------------------------------------------------------
(* What the tests say of the load while the invariant holds: the other     *)
(* side may be in the middle of shift_by_one.                              *)
LEMMA TestsAreSafe ==
    ASSUME Inv
    PROVE  /\ Load \in 0 .. N - 1
           /\ pc[Feeder] # "ret_wrap" /\ ~IsFull => Load <= N - 2
           /\ pc[Fetcher] # "ret_wrap" /\ ~IsEmpty => Load >= 1
           /\ holder \in Threads /\ pc[Feeder] # "ret_wrap" /\ pc[Fetcher] # "ret_wrap"
                 => (IsFull <=> Load = N - 1) /\ (IsEmpty <=> Load = 0)
<1> USE DEF Inv, TypeOK
<1>1. Load \in 0 .. N - 1
    BY LoadType
<1>2. ASSUME pc[Feeder] # "ret_wrap", ~IsFull PROVE Load <= N - 2
    BY <1>1, <1>2, NotFullLoad DEF IndexInRange, ClaimsHold
<1>3. ASSUME pc[Fetcher] # "ret_wrap", ~IsEmpty PROVE Load >= 1
    BY <1>1, <1>3, NotEmptyLoad DEF IndexInRange, ClaimsHold
<1>4. ASSUME pc[Feeder] # "ret_wrap", pc[Fetcher] # "ret_wrap"
      PROVE  (IsFull <=> Load = N - 1) /\ (IsEmpty <=> Load = 0)
    BY <1>4, NotFullLoad, NotEmptyLoad DEF IndexInRange
<1> QED
    BY <1>1, <1>2, <1>3, <1>4

(* Entering get_block_to_feed() or fetch(): the first test, without the    *)
(* mutex.                                                                  *)
LEMMA GetEnterKeepsInv ==
    ASSUME Inv,
           \/ GetEnter(Feeder, feed_outside, IsFull)
           \/ GetEnter(Fetcher, fetch_outside, IsEmpty)
    PROVE  Inv'
<1> USE DEF Inv, TypeOK, GetEnter, Goto, Throw, condVars, waitVars, ringVars
<1>1. Load' = Load
    BY SameLoad
<1>2. TypeOK'
    BY DEF Labels, ConditionTypeOK, MutexTypeOK
<1>3. LockMatchesPc' /\ WaitersMatchPc'
    BY DEF LockMatchesPc, WaitersMatchPc, InLock, InWait, Waiter
<1>4. ClaimsHold' /\ IndexInRange'
    BY <1>1, TestsAreSafe DEF ClaimsHold, FeederClaims, FetcherClaims, IndexInRange
<1>5. NoLostWakeup' /\ WokenIsServed'
    BY <1>1 DEF NoLostWakeup, WokenIsServed, NoBug
<1> QED
    BY <1>2, <1>3, <1>4, <1>5

(* modif.lock(), at either of the two places where it is called.           *)
LEMMA AcquireKeepsInv ==
    ASSUME Inv, NEW t \in Threads, Acquire(t)
    PROVE  Inv'
<1> USE DEF Inv, TypeOK, Acquire, Lock, Goto, condVars, waitVars, ringVars
<1>1. Load' = Load
    BY SameLoad
<1>2. TypeOK'
    BY DEF Labels, InLock, ConditionTypeOK, MutexTypeOK
<1>3. LockMatchesPc'
    BY NoThreadAssumption DEF LockMatchesPc, InLock
<1>4. WaitersMatchPc'
    BY DEF WaitersMatchPc, InWait, Waiter
<1>5. ClaimsHold' /\ IndexInRange'
    BY <1>1 DEF ClaimsHold, FeederClaims, FetcherClaims, IndexInRange
<1>6. NoLostWakeup' /\ WokenIsServed'
    BY <1>1 DEF NoLostWakeup, WokenIsServed, NoBug
<1> QED
    BY <1>2, <1>3, <1>4, <1>5, <1>6

(* The second test and modif.wait(): the caller goes to sleep only for a   *)
(* reason.                                                                 *)
LEMMA GetTestKeepsInv ==
    ASSUME Inv,
           \/ GetTest(Feeder, IsFull, CondFull)
           \/ GetTest(Fetcher, IsEmpty, CondEmpty)
    PROVE  Inv'
<1> USE DEF Inv, TypeOK, GetTest, Wait, Unlock, Goto, condVars, waitVars, ringVars, CondFull, CondEmpty
<1>1. Load' = Load
    BY SameLoad
<1>2. TypeOK'
    BY DEF Labels, ConditionTypeOK, MutexTypeOK
<1>3. LockMatchesPc'
    BY NoThreadAssumption DEF LockMatchesPc, InLock
<1>4. WaitersMatchPc'
    BY DEF WaitersMatchPc, InWait, Waiter, ConditionTypeOK
<1>5. ClaimsHold' /\ IndexInRange'
    BY <1>1, TestsAreSafe DEF ClaimsHold, FeederClaims, FetcherClaims, IndexInRange
<1>6. NoLostWakeup'
    BY <1>1, TestsAreSafe DEF NoLostWakeup, LockMatchesPc, InLock, ConditionTypeOK
<1>7. WokenIsServed'
    BY <1>1 DEF WokenIsServed, NoBug
<1> QED
    BY <1>2, <1>3, <1>4, <1>5, <1>6, <1>7

(* The return from modif.wait().                                           *)
LEMMA GetResumeKeepsInv ==
    ASSUME Inv,
           \/ GetResume(Feeder, CondFull)
           \/ GetResume(Fetcher, CondEmpty)
    PROVE  Inv'
<1> USE DEF Inv, TypeOK, GetResume, Resume, Lock, Goto, condVars, waitVars, ringVars, CondFull, CondEmpty
<1>1. Load' = Load
    BY SameLoad
<1>2. TypeOK'
    BY DEF Labels, InLock, ConditionTypeOK, MutexTypeOK
<1>3. LockMatchesPc'
    BY NoThreadAssumption DEF LockMatchesPc, InLock
<1>4. WaitersMatchPc'
    BY DEF WaitersMatchPc, InWait, Waiter, ConditionTypeOK
<1>5. ClaimsHold' /\ IndexInRange'
    BY <1>1 DEF ClaimsHold, FeederClaims, FetcherClaims, IndexInRange
<1>6. NoLostWakeup' /\ WokenIsServed'
    BY <1>1 DEF NoLostWakeup, WokenIsServed, NoBug, ConditionTypeOK
<1> QED
    BY <1>2, <1>3, <1>4, <1>5, <1>6

(* The third test: a thread that was signalled finds what it waited for.   *)
LEMMA GetRetestKeepsInv ==
    ASSUME Inv,
           \/ GetRetest(Feeder, IsFull)
           \/ GetRetest(Fetcher, IsEmpty)
    PROVE  Inv'
<1> USE DEF Inv, TypeOK, GetRetest, Unlock, Goto, Throw, condVars, waitVars, ringVars
<1>1. Load' = Load
    BY SameLoad
<1>2. TypeOK'
    BY DEF Labels, ConditionTypeOK, MutexTypeOK
<1>3. LockMatchesPc'
    BY NoThreadAssumption DEF LockMatchesPc, InLock
<1>4. WaitersMatchPc'
    BY DEF WaitersMatchPc, InWait, Waiter, ConditionTypeOK
<1>5. ClaimsHold' /\ IndexInRange'
    BY <1>1, TestsAreSafe DEF ClaimsHold, FeederClaims, FetcherClaims, IndexInRange
<1>6. NoLostWakeup'
    BY <1>1 DEF NoLostWakeup
<1>7. WokenIsServed'
    BY <1>1, TestsAreSafe DEF WokenIsServed, NoBug, LockMatchesPc, InLock
<1> QED
    BY <1>2, <1>3, <1>4, <1>5, <1>6, <1>7

(* Taking the block: the flag goes up with the claim the tests have        *)
(* established.                                                            *)
LEMMA TakeKeepsInv ==
    ASSUME Inv, FeedTake \/ FetchTake
    PROVE  Inv'
<1> USE DEF Inv, TypeOK, FeedTake, FetchTake, Goto, condVars, waitVars
<1>1. Load' = Load
    BY SameLoad
<1>2. next_fetch \in Slots \/ pc[Fetcher] = "ret_wrap"
    BY DEF IndexInRange, Slots
<1>3. got' \in Sizes
    BY <1>2
<1>4. TypeOK'
    BY <1>3 DEF Labels, ConditionTypeOK, MutexTypeOK
<1>5. LockMatchesPc' /\ WaitersMatchPc'
    BY DEF LockMatchesPc, WaitersMatchPc, InLock, InWait, Waiter
<1>6. ClaimsHold' /\ IndexInRange'
    BY <1>1 DEF ClaimsHold, FeederClaims, FetcherClaims, IndexInRange
<1>7. NoLostWakeup' /\ WokenIsServed'
    BY <1>1 DEF NoLostWakeup, WokenIsServed, NoBug
<1> QED
    BY <1>4, <1>5, <1>6, <1>7

(* The four calls that give a block back, whatever pointer they are given. *)
LEMMA ReturnsKeepInv ==
    ASSUME Inv, NEW right \in BOOLEAN, NEW size \in Sizes,
           \/ feed(right, size) \/ feed_cancel_get_block(right)
           \/ fetch_recycle(right) \/ fetch_push_back(right, size)
    PROVE  Inv'
<1> USE DEF Inv, TypeOK, feed, feed_cancel_get_block, fetch_recycle, fetch_push_back,
            Returns, Goto, Throw, condVars, waitVars
<1>1. Load' = Load
    BY SameLoad
<1>2. TypeOK'
  <2>1. table' \in [Slots -> Sizes]
      OBVIOUS
  <2>2. pc' \in [Threads -> Labels] /\ raised' \in [Threads -> {"none", "range", "bug"}]
      BY DEF Labels
  <2> QED
      BY <2>1, <2>2 DEF ConditionTypeOK, MutexTypeOK
<1>3. LockMatchesPc' /\ WaitersMatchPc'
    BY DEF LockMatchesPc, WaitersMatchPc, InLock, InWait, Waiter
<1>4. ClaimsHold' /\ IndexInRange'
    BY <1>1 DEF ClaimsHold, FeederClaims, FetcherClaims, IndexInRange
<1>5. NoLostWakeup' /\ WokenIsServed'
    BY <1>1 DEF NoLostWakeup, WokenIsServed, NoBug
<1> QED
    BY <1>2, <1>3, <1>4, <1>5

(* Moving an index under the mutex adds or removes one block, which the    *)
(* claim allows.                                                           *)
LEMMA ShiftKeepsInv ==
    ASSUME Inv, FeedShift \/ RecycleShift
    PROVE  Inv'
<1> USE DEF Inv, TypeOK, Goto, condVars, waitVars
<1>1. next_feed \in 0 .. N - 1 /\ next_fetch \in 0 .. N - 1
    BY DEF FeedShift, RecycleShift, LockMatchesPc, InLock, IndexInRange
<1>2. CASE FeedShift
  <2>1. Load \in 0 .. N - 2 /\ Load' = Load + 1
      BY <1>1, <1>2, FeedShiftLoad, LoadType DEF FeedShift, ClaimsHold, FeederClaims
  <2>2. TypeOK' /\ LockMatchesPc' /\ WaitersMatchPc'
      BY <1>1, <1>2 DEF FeedShift, Labels, InLock, ConditionTypeOK, MutexTypeOK,
         LockMatchesPc, WaitersMatchPc, InWait, Waiter
  <2>3. ClaimsHold' /\ IndexInRange'
      BY <1>1, <1>2, <2>1 DEF FeedShift, ClaimsHold, FeederClaims, FetcherClaims,
         IndexInRange, LockMatchesPc, InLock
  <2>4. NoLostWakeup' /\ WokenIsServed'
      BY <1>2, <2>1 DEF FeedShift, NoLostWakeup, WokenIsServed, NoBug, WaitersMatchPc,
         LockMatchesPc, InLock, InWait
  <2> QED
      BY <2>2, <2>3, <2>4
<1>3. CASE RecycleShift
  <2>1. Load \in 1 .. N - 1 /\ Load' = Load - 1
      BY <1>1, <1>3, RecycleShiftLoad, LoadType DEF RecycleShift, ClaimsHold, FetcherClaims
  <2>2. TypeOK' /\ LockMatchesPc' /\ WaitersMatchPc'
      BY <1>1, <1>3 DEF RecycleShift, Labels, InLock, ConditionTypeOK, MutexTypeOK,
         LockMatchesPc, WaitersMatchPc, InWait, Waiter
  <2>3. ClaimsHold' /\ IndexInRange'
      BY <1>1, <1>3, <2>1 DEF RecycleShift, ClaimsHold, FeederClaims, FetcherClaims,
         IndexInRange, LockMatchesPc, InLock
  <2>4. NoLostWakeup' /\ WokenIsServed'
      BY <1>3, <2>1 DEF RecycleShift, NoLostWakeup, WokenIsServed, NoBug, WaitersMatchPc,
         LockMatchesPc, InLock, InWait, CondFull, CondEmpty
  <2> QED
      BY <2>2, <2>3, <2>4
<1> QED
    BY <1>2, <1>3

(* A signal leaves nobody asleep: the other side is the only one that can  *)
(* be, since the signalling one is not inside wait().                      *)
LEMMA SignalWakesTheOther ==
    ASSUME Inv, NEW t \in Threads, pc[t] = "ret_wrap", SignalIfWaiting(CondFull)
    PROVE  /\ blocked' \in [Instances -> SUBSET Threads]
           /\ woken' \in [Instances -> SUBSET Threads]
           /\ counter' = counter
           /\ spurious' = spurious
           /\ blocked'[CondFull] = {}
           /\ \A u \in Threads : u \in blocked'[CondFull] \cup woken'[CondFull]
                                    <=> u \in InWait(CondFull)
           /\ blocked'[1] = {} /\ woken'[1] = {}
           /\ t \notin woken'[CondFull]
<1> USE DEF Inv, TypeOK, ConditionTypeOK, WaitersMatchPc, InWait, CondFull
<1>1. blocked[0] \subseteq Threads \ {t}
    OBVIOUS
<1>2. CASE counter[0] > 0
  <2>1. CASE blocked[0] = {} /\ UNCHANGED waitVars
      BY <2>1 DEF waitVars
  <2>2. CASE \E w \in blocked[0] : Wake(0, {w}) /\ UNCHANGED spurious
      BY <1>1, <2>2 DEF Wake
  <2> QED
      BY <1>2, <2>1, <2>2 DEF SignalIfWaiting, Signal
<1>3. CASE ~(counter[0] > 0)
  <2>1. blocked[0] = {}
      BY <1>1, <1>3 DEF Waiter
  <2> QED
      BY <1>3, <2>1 DEF SignalIfWaiting, waitVars
<1> QED
    BY <1>2, <1>3

(* Wrapping the index, signalling the other side and releasing the mutex.  *)
LEMMA WrapKeepsInv ==
    ASSUME Inv, NEW t \in Threads,
           IF t = Feeder THEN FeedWrap ELSE RecycleWrap
    PROVE  Inv'
<1>1. pc[t] = "ret_wrap"
    BY DEF FeedWrap, RecycleWrap
<1>2. SignalIfWaiting(CondFull)
    BY DEF FeedWrap, RecycleWrap, CondFull, CondEmpty
<1> USE DEF Inv, TypeOK
<1>3. holder' = NoThread /\ pc' = [pc EXCEPT ![t] = "out"] /\ raised' = raised
      /\ feed_outside' = feed_outside /\ fetch_outside' = fetch_outside
      /\ table' = table /\ got' = got
    BY <1>1 DEF FeedWrap, RecycleWrap, Unlock, Goto
<1>4. Load' = Load
    BY <1>1, WrapLoad DEF FeedWrap, RecycleWrap
<1>5. next_feed' \in 0 .. N /\ next_fetch' \in 0 .. N /\ IndexInRange'
    BY <1>1, <1>3 DEF FeedWrap, RecycleWrap, Wrap, IndexInRange
<1>6. TypeOK'
    BY <1>2, <1>1, <1>3, <1>5, SignalWakesTheOther DEF Labels, ConditionTypeOK, MutexTypeOK
<1>7. LockMatchesPc'
    BY <1>1, <1>3, NoThreadAssumption DEF LockMatchesPc, InLock
<1>8. WaitersMatchPc'
    BY <1>1, <1>2, <1>3, SignalWakesTheOther DEF WaitersMatchPc, InWait, Waiter
<1>9. ClaimsHold'
    BY <1>3, <1>4 DEF ClaimsHold, FeederClaims, FetcherClaims
<1>10. NoLostWakeup'
    BY <1>1, <1>2, SignalWakesTheOther DEF NoLostWakeup, CondFull, CondEmpty
<1>11. WokenIsServed'
  <2>1. t = Feeder => Load >= 1
      BY <1>1 DEF ClaimsHold
  <2>2. t = Fetcher => Load <= N - 2
      BY <1>1 DEF ClaimsHold
  <2>3. \A u \in Threads : pc'[u] = "get_retest" => pc[u] = "get_retest"
      BY <1>3
  <2>4. t \notin woken'[0]
      BY <1>1, <1>2, SignalWakesTheOther DEF CondFull
  <2> QED
      BY <1>1, <1>2, <1>3, <1>4, <2>1, <2>2, <2>3, <2>4, SignalWakesTheOther
         DEF WokenIsServed, NoBug, CondFull, CondEmpty
<1> QED
    BY <1>5, <1>6, <1>7, <1>8, <1>9, <1>10, <1>11

(* A return from pthread_cond_wait() that nobody asked for.                *)
LEMMA SpuriousKeepsInv ==
    ASSUME Inv, WakeUnasked
    PROVE  Inv'
<1>1. PICK t \in Threads : SpuriousWakeup(t, CondFull)
    BY DEF WakeUnasked
<1> USE DEF Inv, TypeOK, WakeUnasked, ringVars, callVars, SpuriousWakeup, Wake
<1>2. Load' = Load
    BY SameLoad
<1>3. TypeOK'
    BY <1>1 DEF ConditionTypeOK, MutexTypeOK
<1>4. LockMatchesPc'
    BY <1>1 DEF LockMatchesPc
<1>5. WaitersMatchPc'
    BY <1>1 DEF WaitersMatchPc, InWait, Waiter, ConditionTypeOK, CondFull
<1>6. ClaimsHold' /\ IndexInRange'
    BY <1>2 DEF ClaimsHold, FeederClaims, FetcherClaims, IndexInRange
<1>7. NoLostWakeup'
    BY <1>1, <1>2 DEF NoLostWakeup, ConditionTypeOK, CondFull, CondEmpty
<1>8. WokenIsServed'
    BY DEF WokenIsServed
<1> QED
    BY <1>3, <1>4, <1>5, <1>6, <1>7, <1>8

(* reset() while a thread is inside wait(): that one is awaken, and may    *)
(* find nothing, but the ring is left alone.                               *)
LEMMA ResetRefusedKeepsInv ==
    ASSUME Inv, NEW t \in Threads, reset_refused(t)
    PROVE  Inv'
<1> USE DEF Inv, TypeOK, reset_refused, MayReset, Throw, ringVars, Wake, CondFull, CondEmpty
<1>1. Load' = Load
    BY SameLoad
<1>2. TypeOK'
    BY DEF ConditionTypeOK, MutexTypeOK
<1>3. LockMatchesPc'
    BY DEF LockMatchesPc
<1>4. WaitersMatchPc'
    BY DEF WaitersMatchPc, InWait, Waiter, ConditionTypeOK
<1>5. ClaimsHold' /\ IndexInRange'
    BY <1>1 DEF ClaimsHold, FeederClaims, FetcherClaims, IndexInRange
<1>6. NoLostWakeup'
    BY <1>1 DEF NoLostWakeup, ConditionTypeOK
<1>7. WokenIsServed'
  <2>1. ~spurious' => ~spurious /\ blocked[0] = {}
      BY Zenon
  <2>2. blocked[0] = {} => woken'[0] = woken[0]
      BY DEF ConditionTypeOK
  <2>3. \A u \in Threads : raised[u] # "bug" => raised'[u] # "bug"
      OBVIOUS
  <2> QED
      BY <1>1, <2>1, <2>2, <2>3 DEF WokenIsServed, NoBug
<1> QED
    BY <1>2, <1>3, <1>4, <1>5, <1>6, <1>7

(* reset() while nobody is inside wait() nor in the middle of a claim      *)
(* empties the ring and takes back every claim.                            *)
LEMMA ResetKeepsInv ==
    ASSUME Inv, NEW t \in Threads, reset(t)
    PROVE  Inv'
<1> USE DEF Inv, TypeOK, reset, MayReset, NobodyWaits, Throw, condVars, waitVars, CondFull, CondEmpty
<1>1. Load' = 0
    BY DEF Load, Norm
<1>2. TypeOK'
  <2>1. ConditionTypeOK'
      BY DEF ConditionTypeOK, MutexTypeOK
  <2>2. feed_outside' \in BOOLEAN /\ fetch_outside' \in BOOLEAN
      BY Zenon
  <2>3. raised' \in [Threads -> {"none", "range", "bug"}]
      OBVIOUS
  <2> QED
      BY <2>1, <2>2, <2>3
<1>3. LockMatchesPc' /\ WaitersMatchPc'
    BY DEF LockMatchesPc, WaitersMatchPc, InWait, Waiter
<1>4. \A u \in Threads : u \notin InWait(0) /\ pc[u] \notin InLock
    BY NoThreadAssumption DEF WaitersMatchPc, Waiter, LockMatchesPc
<1>5. ClaimsHold' /\ IndexInRange'
    BY <1>1, <1>4 DEF ClaimsHold, FeederClaims, FetcherClaims, IndexInRange, InLock
<1>6. NoLostWakeup' /\ WokenIsServed'
    BY <1>4 DEF NoLostWakeup, WokenIsServed, NoBug, InWait, InLock
<1> QED
    BY <1>2, <1>3, <1>5, <1>6

-----------------------------------------------------------------------------
(***************************************************************************)
(* Inv is an invariant: lock ownership, waiters, indexes and claims agree, *)
(* and a sleeping thread is always one that still has a reason to sleep.   *)
(***************************************************************************)
THEOREM Invariance == Spec => []Inv
<1>1. Init => Inv
  <2> SUFFICES ASSUME Init PROVE Inv
      OBVIOUS
  <2> USE DEF Init, ConditionInit, MutexInit
  <2>1. Load = 0
      BY DEF Load, Norm
  <2>2. TypeOK
    <3>1. ConditionTypeOK
      <4>1. MutexTypeOK /\ spurious \in BOOLEAN
          BY Zenon DEF MutexTypeOK
      <4> QED
          BY <4>1 DEF ConditionTypeOK
    <3>2. pc \in [Threads -> Labels] /\ raised \in [Threads -> {"none", "range", "bug"}]
        BY DEF Labels
    <3>3. table \in [Slots -> Sizes] /\ got \in Sizes
        BY SizesAssumption
    <3>4. next_feed \in 0 .. N /\ next_fetch \in 0 .. N
        OBVIOUS
    <3> QED
        BY <3>1, <3>2, <3>3, <3>4, Zenon DEF TypeOK
  <2>3. LockMatchesPc
      BY NoThreadAssumption DEF LockMatchesPc, InLock
  <2>4. WaitersMatchPc
      BY DEF WaitersMatchPc, InWait, Waiter, CondFull
  <2>5. IndexInRange /\ ClaimsHold /\ NoLostWakeup /\ WokenIsServed
      BY <2>1 DEF IndexInRange, ClaimsHold, FeederClaims, FetcherClaims, NoLostWakeup,
         WokenIsServed, NoBug, CondFull, CondEmpty
  <2> QED
      BY <2>2, <2>3, <2>4, <2>5 DEF Inv
<1>2. Inv /\ [Next]_vars => Inv'
  <2> SUFFICES ASSUME Inv, [Next]_vars PROVE Inv'
      OBVIOUS
  <2>1. CASE FeederCalls
      BY <2>1, GetEnterKeepsInv, ReturnsKeepInv, SizesAssumption DEF FeederCalls, get_block_to_feed
  <2>2. CASE FetcherCalls
      BY <2>2, GetEnterKeepsInv, ReturnsKeepInv, SizesAssumption DEF FetcherCalls, fetch
  <2>3. CASE FeederSteps
    <3>1. FeedWrap => Inv'
        BY WrapKeepsInv
    <3> QED
        BY <2>3, <3>1, AcquireKeepsInv, GetTestKeepsInv, GetResumeKeepsInv,
           GetRetestKeepsInv, TakeKeepsInv, ShiftKeepsInv DEF FeederSteps
  <2>4. CASE FetcherSteps
    <3>1. RecycleWrap => Inv'
        BY WrapKeepsInv
    <3> QED
        BY <2>4, <3>1, AcquireKeepsInv, GetTestKeepsInv, GetResumeKeepsInv,
           GetRetestKeepsInv, TakeKeepsInv, ShiftKeepsInv DEF FetcherSteps
  <2>5. CASE WakeUnasked
      BY <2>5, SpuriousKeepsInv
  <2>6. CASE ResetCalls
      BY <2>6, ResetKeepsInv, ResetRefusedKeepsInv DEF ResetCalls
  <2>7. CASE UNCHANGED vars
    <3> USE <2>7 DEF vars, condVars, waitVars, ringVars, callVars
    <3>1. Load' = Load
        BY SameLoad
    <3>2. TypeOK' /\ LockMatchesPc' /\ WaitersMatchPc'
        BY DEF Inv, TypeOK, ConditionTypeOK, MutexTypeOK, LockMatchesPc, WaitersMatchPc,
           InWait, Waiter
    <3>3. IndexInRange' /\ ClaimsHold' /\ NoLostWakeup' /\ WokenIsServed'
        BY <3>1 DEF Inv, IndexInRange, ClaimsHold, FeederClaims, FetcherClaims,
           NoLostWakeup, WokenIsServed, NoBug
    <3> QED
        BY <3>2, <3>3 DEF Inv
  <2> QED
      BY <2>1, <2>2, <2>3, <2>4, <2>5, <2>6, <2>7 DEF Next
<1> QED
    BY <1>1, <1>2, PTL DEF Spec

(***************************************************************************)
(* Feeder and fetcher never have the same block in hand, whatever N.       *)
(***************************************************************************)
THEOREM BlocksAreDisjoint == Spec => []NoSharedBlock
<1>1. Inv => NoSharedBlock
    BY NotEmptyLoad DEF Inv, TypeOK, NoSharedBlock, ClaimsHold, FetcherClaims, IndexInRange,
       IsEmpty
<1> QED
    BY <1>1, Invariance, PTL

(***************************************************************************)
(* A thread asleep on the condition has a reason to be, or is about to be  *)
(* signalled.                                                              *)
(***************************************************************************)
THEOREM WakeupsAreNotLost == Spec => []NoLostWakeup
BY Invariance, PTL DEF Inv

(***************************************************************************)
(* As long as pthread_cond_wait() returns only when signalled, the         *)
(* exception_bug of get_block_to_feed() and fetch() is not thrown.         *)
(***************************************************************************)
THEOREM BugIsNotRaised == Spec => []NoBug
<1>1. Inv => NoBug
    BY DEF Inv, WokenIsServed, NoBug
<1> QED
    BY <1>1, Invariance, PTL

-----------------------------------------------------------------------------
(* The refinement of Pipe, step by step. *)
(* The slot of the i-th block of Unread. *)
SlotOf(i) == (Norm(next_fetch) + i - 1) % N
Wrapped(x) == IF x < N THEN x ELSE x - N

-----------------------------------------------------------------------------
(* The ring goes round once at most. *)
LEMMA RoundOnce ==
    ASSUME NEW x \in 0 .. 2 * N - 1
    PROVE  x % N = Wrapped(x)
<1>1. CASE x < N
    BY <1>1 DEF Wrapped
<1>2. CASE x >= N
  <2>1. x = N * 1 + (x - N) /\ x - N \in 0 .. N - 1
      BY <1>2
  <2> QED
      BY <1>2, <2>1 DEF Wrapped
<1> QED
    BY <1>1, <1>2

(* The slots of the blocks fed and not recycled: the first one is at       *)
(* next_fetch, the one after the last at next_feed, and they differ.       *)
LEMMA SlotsOfTheRing ==
    ASSUME next_feed \in 0 .. N, next_fetch \in 0 .. N
    PROVE  /\ \A i \in 1 .. Load : SlotOf(i) \in Slots /\ SlotOf(i) # Norm(next_feed)
           /\ SlotOf(1) = Norm(next_fetch)
           /\ \A i \in 2 .. Load : SlotOf(i) # Norm(next_fetch)
           /\ SlotOf(Load + 1) = Norm(next_feed)
<1>1. Load \in 0 .. N - 1 /\ Norm(next_fetch) \in 0 .. N - 1 /\ Norm(next_feed) \in 0 .. N - 1
    BY LoadType DEF Norm
<1>2. \A i \in 1 .. N : Norm(next_fetch) + i - 1 \in 0 .. 2 * N - 1
    BY <1>1
<1>3. \A i \in 1 .. N : SlotOf(i) = Wrapped(Norm(next_fetch) + i - 1)
    BY <1>2, RoundOnce, Zenon DEF SlotOf
<1>4. Load = IF Norm(next_feed) >= Norm(next_fetch) THEN Norm(next_feed) - Norm(next_fetch)
             ELSE Norm(next_feed) - Norm(next_fetch) + N
    BY <1>1 DEF Load
<1>5. \A i \in 1 .. Load : SlotOf(i) \in 0 .. N - 1 /\ SlotOf(i) # Norm(next_feed)
    BY <1>1, <1>3, <1>4 DEF Wrapped
<1>6. SlotOf(1) = Norm(next_fetch)
    BY <1>1, <1>3 DEF Wrapped
<1>7. \A i \in 2 .. Load : SlotOf(i) # Norm(next_fetch)
    BY <1>1, <1>3 DEF Wrapped
<1>8. SlotOf(Load + 1) = Norm(next_feed)
    BY <1>1, <1>3, <1>4 DEF Wrapped
<1> QED
    BY <1>5, <1>6, <1>7, <1>8 DEF Slots

(* The queue is a sequence of sizes. *)
LEMMA UnreadType ==
    ASSUME TypeOK
    PROVE  Unread \in Seq(Sizes) /\ Len(Unread) = Load /\ Load \in 0 .. N - 1
<1>1. Load \in 0 .. N - 1
    BY LoadType DEF TypeOK
<1>2. \A i \in 1 .. Load : table[SlotOf(i)] \in Sizes
    BY SlotsOfTheRing DEF TypeOK
<1> QED
    BY <1>1, <1>2 DEF Unread, SlotOf

-----------------------------------------------------------------------------
(* The side of the feeder, and that of the fetcher, as Pipe sees them. *)
Feeding == IF feed_outside THEN "in hand" ELSE IF InReturn(Feeder) THEN "given" ELSE "no"
Offered == IF InReturn(Feeder) THEN table[next_feed] ELSE 0
Fetching == fetch_outside \/ InReturn(Fetcher)

(* The queue depends on the sizes and, up to the wrap, on the indexes. *)
LEMMA SameUnread ==
    ASSUME UNCHANGED table, Norm(next_feed)' = Norm(next_feed),
           Norm(next_fetch)' = Norm(next_fetch)
    PROVE  Unread' = Unread
BY DEF Unread, Load

(* Waiting, taking the mutex and wrapping an index are not seen. *)
LEMMA InsideIsNotSeen ==
    ASSUME Inv,
           \/ GetEnter(Feeder, feed_outside, IsFull) \/ GetEnter(Fetcher, fetch_outside, IsEmpty)
           \/ \E t \in Threads : Acquire(t)
           \/ GetTest(Feeder, IsFull, CondFull) \/ GetTest(Fetcher, IsEmpty, CondEmpty)
           \/ GetResume(Feeder, CondFull) \/ GetResume(Fetcher, CondEmpty)
           \/ GetRetest(Feeder, IsFull) \/ GetRetest(Fetcher, IsEmpty)
           \/ \E t \in Threads : reset_refused(t)
           \/ WakeUnasked \/ UNCHANGED vars
    PROVE  UNCHANGED Promise!pipeVars
<1>1. UNCHANGED ringVars
    BY DEF GetEnter, Acquire, GetTest, GetResume, GetRetest, reset_refused, WakeUnasked, vars
<1>2. \A t \in Threads : InReturn(t)' = InReturn(t)
    BY DEF Inv, TypeOK, InReturn, GetEnter, Acquire, GetTest, GetResume, GetRetest,
       reset_refused, WakeUnasked, vars, callVars, Goto
<1>3. Unread' = Unread
    BY <1>1, SameUnread DEF ringVars
<1> QED
    BY <1>1, <1>2, <1>3, Zenon DEF ringVars, Promise!pipeVars

(* The wrap of an index is not seen either. *)
LEMMA WrapIsNotSeen ==
    ASSUME Inv, FeedWrap \/ RecycleWrap
    PROVE  UNCHANGED Promise!pipeVars
<1> USE DEF Inv, TypeOK, FeedWrap, RecycleWrap, Goto
<1>1. Norm(next_feed)' = Norm(next_feed) /\ Norm(next_fetch)' = Norm(next_fetch)
  <2>1. \A x \in 0 .. N : Norm(Wrap(x)) = Norm(x)
      BY DEF Norm, Wrap
  <2>2. next_feed' \in {next_feed, Wrap(next_feed)} /\ next_fetch' \in {next_fetch, Wrap(next_fetch)}
      OBVIOUS
  <2> QED
      BY <2>1, <2>2 DEF Norm
<1>2. Unread' = Unread
    BY <1>1, SameUnread
<1>3. InReturn(Feeder)' = InReturn(Feeder) /\ InReturn(Fetcher)' = InReturn(Fetcher)
    BY DEF InReturn
<1>4. UNCHANGED <<feed_outside, fetch_outside, table, got>>
    OBVIOUS
<1>5. Offered' = Offered
    BY <1>3 DEF Offered, InReturn
<1>6. Feeding' = Feeding /\ Fetching' = Fetching
    BY <1>3, <1>4, Zenon DEF Feeding, Fetching
<1> QED
    BY <1>2, <1>4, <1>5, <1>6, Zenon DEF Promise!pipeVars, Feeding, Offered, Fetching

-----------------------------------------------------------------------------
(* The feeder takes a block while there is room. *)
LEMMA FeedTakeObtains ==
    ASSUME Inv, FeedTake
    PROVE  Promise!Obtain
<1> USE DEF Inv, TypeOK, FeedTake, Goto
<1>1. Feeding = "no" /\ Feeding' = "in hand"
    BY DEF Feeding, InReturn, ClaimsHold
<1>2. Load < N - 1
    BY LoadType DEF ClaimsHold, FeederClaims
<1>3. Len(Unread) < N - 1
    BY <1>2, UnreadType
<1>4. Unread' = Unread
    BY SameUnread
<1>5. Offered' = Offered /\ Fetching' = Fetching /\ UNCHANGED got
    BY DEF Offered, Fetching, InReturn
<1> QED
    BY <1>1, <1>3, <1>4, <1>5 DEF Promise!Obtain, Feeding, Offered, Fetching

(* feed() sizes the block, which is not one of the queue. *)
LEMMA FeedGives ==
    ASSUME Inv, NEW size \in Sizes, feed(TRUE, size), feed_outside
    PROVE  Promise!Give
<1> USE DEF Inv, TypeOK, feed, Returns, Goto
<1>1. Feeding = "in hand" /\ Feeding' = "given"
    BY DEF Feeding, InReturn
<1>2. next_feed \in Slots /\ Norm(next_feed) = next_feed
    BY DEF IndexInRange, Slots, Norm
<1>3. table' = [table EXCEPT ![next_feed] = size]
    OBVIOUS
<1>4. Load' = Load /\ \A i \in 1 .. Load : table'[SlotOf(i)] = table[SlotOf(i)]
    BY <1>2, <1>3, SameLoad, SlotsOfTheRing
<1>5. Unread' = Unread
    BY <1>4 DEF Unread, SlotOf
<1>6. Offered' = size
    BY <1>2, <1>3 DEF Offered, InReturn
<1>7. Fetching' = Fetching /\ UNCHANGED got
    BY DEF Fetching, InReturn
<1> QED
    BY <1>1, <1>5, <1>6, <1>7 DEF Promise!Give, Feeding, Offered, Fetching

(* The move of next_feed appends it. *)
LEMMA FeedShiftCommits ==
    ASSUME Inv, FeedShift
    PROVE  Promise!Commit
<1> USE DEF Inv, TypeOK, FeedShift, Goto
<1>1. next_feed \in 0 .. N - 1 /\ next_fetch \in 0 .. N - 1
    BY DEF IndexInRange, LockMatchesPc, InLock
<1>2. Feeding = "given" /\ Feeding' = "no" /\ Offered = table[next_feed] /\ Offered' = 0
    BY DEF Feeding, Offered, InReturn, ClaimsHold
<1>3. Load \in 0 .. N - 1 /\ Load' = Load + 1
    BY <1>1, FeedShiftLoad, LoadType DEF ClaimsHold, FeederClaims
<1>4. SlotOf(Load + 1) = next_feed /\ \A i : SlotOf(i)' = SlotOf(i)
    BY <1>1, SlotsOfTheRing DEF SlotOf, Norm
<1>5. Unread' = [i \in 1 .. Load + 1 |-> table[SlotOf(i)]]
    BY <1>3, <1>4 DEF Unread, SlotOf
<1>6. Unread = [i \in 1 .. Load |-> table[SlotOf(i)]]
    BY DEF Unread, SlotOf
<1>7. Unread' = Append(Unread, Offered)
    BY <1>2, <1>3, <1>4, <1>5, <1>6, UnreadType
<1>8. Fetching' = Fetching /\ UNCHANGED got
    BY DEF Fetching, InReturn
<1> QED
    BY <1>2, <1>7, <1>8 DEF Promise!Commit, Feeding, Offered, Fetching

(* Given back unused, or not accepted, the block is out of the feeder's hand. *)
LEMMA CancelAbandons ==
    ASSUME Inv, NEW right \in BOOLEAN, NEW size \in Sizes,
           feed_cancel_get_block(right) \/ (feed(right, size) /\ ~(feed_outside /\ right))
    PROVE  Promise!Abandon \/ UNCHANGED Promise!pipeVars
<1> USE DEF Inv, TypeOK, feed, feed_cancel_get_block, Returns, Goto
<1>1. Feeding = (IF feed_outside THEN "in hand" ELSE "no") /\ Feeding' = "no"
    BY DEF Feeding, InReturn
<1>2. Offered = 0 /\ Offered' = 0
    BY DEF Offered, InReturn
<1>3. Unread' = Unread
    BY SameUnread
<1>4. Fetching' = Fetching /\ UNCHANGED got
    BY DEF Fetching, InReturn
<1> QED
    BY <1>1, <1>2, <1>3, <1>4
       DEF Promise!Abandon, Promise!pipeVars, Feeding, Offered, Fetching

-----------------------------------------------------------------------------
(* The fetcher takes the oldest block, and returns its size. *)
LEMMA FetchTakeBorrows ==
    ASSUME Inv, FetchTake
    PROVE  Promise!Borrow
<1> USE DEF Inv, TypeOK, FetchTake, Goto
<1>1. ~Fetching /\ Fetching'
    BY DEF Fetching, InReturn, ClaimsHold
<1>2. Load >= 1 /\ Len(Unread) = Load /\ Unread \in Seq(Sizes)
    BY UnreadType DEF ClaimsHold, FetcherClaims
<1>3. Norm(next_fetch) = next_fetch
    BY DEF Norm, IndexInRange
<1>4. Head(Unread) = table[SlotOf(1)]
    BY <1>2 DEF Unread, SlotOf
<1>5. got' = Head(Unread) /\ Unread # <<>>
    BY <1>2, <1>3, <1>4, SlotsOfTheRing
<1>6. Unread' = Unread
    BY SameUnread
<1>7. Feeding' = Feeding /\ Offered' = Offered
    BY DEF Feeding, Offered, InReturn
<1> QED
    BY <1>1, <1>5, <1>6, <1>7 DEF Promise!Borrow, Feeding, Offered, Fetching

(* fetch_recycle() keeps it until next_fetch moves, or gives it back. *)
LEMMA RecycleGivesBack ==
    ASSUME Inv, NEW right \in BOOLEAN, fetch_recycle(right)
    PROVE  Promise!GiveBack \/ UNCHANGED Promise!pipeVars
<1> USE DEF Inv, TypeOK, fetch_recycle, Returns, Goto
<1>1. Fetching = fetch_outside /\ Fetching' = (fetch_outside /\ right)
    BY DEF Fetching, InReturn
<1>2. Unread' = Unread
    BY SameUnread
<1>3. Feeding' = Feeding /\ Offered' = Offered /\ UNCHANGED got
    BY DEF Feeding, Offered, InReturn
<1> QED
    BY <1>1, <1>2, <1>3, Zenon DEF Promise!GiveBack, Promise!pipeVars, Feeding, Offered, Fetching

(* Then the queue loses it. *)
LEMMA RecycleShiftConsumes ==
    ASSUME Inv, RecycleShift
    PROVE  Promise!Consume
<1> USE DEF Inv, TypeOK, RecycleShift, Goto
<1>1. next_feed \in 0 .. N - 1 /\ next_fetch \in 0 .. N - 1
    BY DEF IndexInRange, LockMatchesPc, InLock
<1>2. Fetching /\ ~Fetching'
    BY DEF Fetching, InReturn, ClaimsHold
<1>3. Load \in 1 .. N - 1 /\ Load' = Load - 1
    BY <1>1, RecycleShiftLoad, LoadType DEF ClaimsHold, FetcherClaims
<1>4. \A i \in 1 .. Load - 1 : SlotOf(i)' = SlotOf(i + 1)
  <2>1. \A i \in 1 .. Load - 1 :
            /\ next_fetch + i \in 0 .. 2 * N - 1
            /\ SlotOf(i + 1) = (next_fetch + i) % N
            /\ SlotOf(i)' = (Norm(next_fetch + 1) + i - 1) % N
      BY <1>1, <1>3 DEF SlotOf, Norm
  <2>2. CASE next_fetch + 1 < N
    <3>1. \A i \in 1 .. Load - 1 : Norm(next_fetch + 1) + i - 1 = next_fetch + i
        BY <1>1, <1>3, <2>2 DEF Norm
    <3> TAKE i \in 1 .. Load - 1
    <3>2. SlotOf(i)' = (Norm(next_fetch + 1) + i - 1) % N /\ SlotOf(i + 1) = (next_fetch + i) % N
        BY <2>1
    <3>3. Norm(next_fetch + 1) + i - 1 = next_fetch + i
        BY <3>1
    <3> QED
        BY <3>2, <3>3
  <2>3. CASE next_fetch + 1 = N
    <3>1. Norm(next_fetch + 1) = 0
        BY <1>1, <2>3 DEF Norm
    <3> TAKE i \in 1 .. Load - 1
    <3>2. SlotOf(i)' = (i - 1) % N /\ SlotOf(i + 1) = (next_fetch + i) % N
      <4>1. Norm(next_fetch + 1) + i - 1 = i - 1
          BY <1>3, <3>1
      <4> QED
          BY <2>1, <4>1
    <3>3. i - 1 \in 0 .. 2 * N - 1 /\ next_fetch + i \in 0 .. 2 * N - 1
        BY <1>1, <1>3
    <3>4. (i - 1) % N = Wrapped(i - 1) /\ (next_fetch + i) % N = Wrapped(next_fetch + i)
        BY <3>3, RoundOnce, Zenon
    <3>5. Wrapped(i - 1) = Wrapped(next_fetch + i)
        BY <1>1, <1>3, <2>3 DEF Wrapped
    <3> QED
        BY <3>2, <3>4, <3>5
  <2> QED
      BY <1>1, <2>2, <2>3
<1>5. Unread' = [i \in 1 .. Load - 1 |-> table[SlotOf(i + 1)]]
    BY <1>3, <1>4 DEF Unread, SlotOf
<1>6. Unread = [i \in 1 .. Load |-> table[SlotOf(i)]]
    BY DEF Unread, SlotOf
<1>7. Unread' = Tail(Unread)
    BY <1>3, <1>5, <1>6, UnreadType
<1>8. Feeding' = Feeding /\ Offered' = Offered /\ UNCHANGED got
    BY DEF Feeding, Offered, InReturn
<1> QED
    BY <1>2, <1>7, <1>8 DEF Promise!Consume, Feeding, Offered, Fetching

(* fetch_push_back() gives the oldest block another size, and leaves the   *)
(* others alone, that of the feeder included.                              *)
LEMMA PushBackGivesBack ==
    ASSUME Inv, NEW right \in BOOLEAN, NEW size \in Sizes, fetch_push_back(right, size)
    PROVE  Promise!GiveBack \/ UNCHANGED Promise!pipeVars
<1> USE DEF Inv, TypeOK, fetch_push_back, Returns, Goto
<1>1. Fetching = fetch_outside /\ ~Fetching' /\ UNCHANGED got
    BY DEF Fetching, InReturn
<1>2. CASE ~(fetch_outside /\ right)
  <2>1. Unread' = Unread
      BY <1>2, SameUnread
  <2>2. Feeding' = Feeding /\ Offered' = Offered
      BY <1>2 DEF Feeding, Offered, InReturn
  <2> QED
      BY <1>1, <2>1, <2>2, Zenon
         DEF Promise!GiveBack, Promise!pipeVars, Feeding, Offered, Fetching
<1>3. CASE fetch_outside /\ right
  <2>1. next_fetch \in Slots /\ Norm(next_fetch) = next_fetch
      BY <1>3 DEF IndexInRange, ClaimsHold, Slots, Norm
  <2>2. table' = [table EXCEPT ![next_fetch] = size]
      BY <1>3
  <2>3. Load \in 1 .. N - 1 /\ Load' = Load
      BY <1>3, LoadType, SameLoad DEF ClaimsHold, FetcherClaims
  <2>4. \A i \in 1 .. Load :
            table'[SlotOf(i)] = IF i = 1 THEN size ELSE table[SlotOf(i)]
      BY <2>1, <2>2, <2>3, SlotsOfTheRing
  <2>5. Unread' = [i \in 1 .. Load |-> table'[SlotOf(i)]]
      BY <2>3 DEF Unread, SlotOf
  <2>6. Unread = [i \in 1 .. Load |-> table[SlotOf(i)]]
      BY DEF Unread, SlotOf
  <2>7. Unread' = [Unread EXCEPT ![1] = size]
      BY <2>3, <2>4, <2>5, <2>6
  <2>8. Feeding' = Feeding
      BY DEF Feeding, InReturn
  <2>9. InReturn(Feeder) => next_feed # next_fetch
      BY <2>1, <2>3, NotEmptyLoad DEF InReturn, IndexInRange, Slots, IsEmpty
  <2>10. Offered' = Offered
      BY <2>2, <2>9 DEF Offered, InReturn
  <2> QED
      BY <1>1, <1>3, <2>7, <2>8, <2>10, Zenon
         DEF Promise!GiveBack, Feeding, Offered, Fetching
<1> QED
    BY <1>2, <1>3

-----------------------------------------------------------------------------
(* reset() empties the queue and both hands. *)
LEMMA ResetClears ==
    ASSUME Inv, NEW t \in Threads, reset(t)
    PROVE  Promise!Clear
<1> USE DEF Inv, TypeOK, reset, MayReset
<1>1. \A u \in Threads : ~InReturn(u) /\ ~InReturn(u)'
    BY NoThreadAssumption DEF InReturn, LockMatchesPc, InLock
<1>2. Load' = 0
    BY DEF Load, Norm
<1>3. Unread' = <<>>
    BY <1>2 DEF Unread
<1>4. /\ Feeding # "given" /\ Feeding' = "no" /\ ~Fetching'
      /\ Offered = 0 /\ Offered' = 0 /\ UNCHANGED got
    BY <1>1 DEF Feeding, Fetching, Offered
<1> QED
    BY <1>3, <1>4 DEF Promise!Clear, Feeding, Offered, Fetching

(* Each step of fast_tampon is one of Pipe or is not seen. *)
LEMMA StepIsPromised ==
    ASSUME Inv, [Next]_vars
    PROVE  [Promise!Next]_Promise!pipeVars
<1>1. CASE FeederCalls
  <2>1. CASE get_block_to_feed
      BY <2>1, InsideIsNotSeen DEF get_block_to_feed
  <2>2. ASSUME NEW right \in BOOLEAN, feed_cancel_get_block(right)
        PROVE  Promise!Next \/ UNCHANGED Promise!pipeVars
      BY <2>2, SizesAssumption, CancelAbandons DEF Promise!Next
  <2>3. ASSUME NEW right \in BOOLEAN, NEW s \in Sizes, feed(right, s)
        PROVE  Promise!Next \/ UNCHANGED Promise!pipeVars
    <3>1. CASE feed_outside /\ right
        BY <2>3, <3>1, FeedGives DEF Promise!Next
    <3> QED
        BY <2>3, <3>1, CancelAbandons DEF Promise!Next
  <2> QED
      BY <1>1, <2>1, <2>2, <2>3 DEF FeederCalls
<1>2. CASE FetcherCalls
    BY <1>2, InsideIsNotSeen, RecycleGivesBack, PushBackGivesBack
       DEF FetcherCalls, fetch, Promise!Next
<1>3. CASE FeederSteps
    BY <1>3, InsideIsNotSeen, WrapIsNotSeen, FeedTakeObtains, FeedShiftCommits
       DEF FeederSteps, Promise!Next
<1>4. CASE FetcherSteps
    BY <1>4, InsideIsNotSeen, WrapIsNotSeen, FetchTakeBorrows, RecycleShiftConsumes
       DEF FetcherSteps, Promise!Next
<1>5. CASE ResetCalls
    BY <1>5, InsideIsNotSeen, ResetClears DEF ResetCalls, Promise!Next
<1>6. CASE WakeUnasked \/ UNCHANGED vars
    BY <1>6, InsideIsNotSeen
<1> QED
    BY <1>1, <1>2, <1>3, <1>4, <1>5, <1>6 DEF Next

(***************************************************************************)
(* fast_tampon implements a first-in, first-out queue of N - 1 blocks:     *)
(* they come out in the order they went in, with their sizes, none lost    *)
(* and none twice.                                                         *)
(***************************************************************************)
THEOREM FastTamponIsAPipe == Spec => PipeSpec
<1>1. Init => Promise!Init
  <2> SUFFICES ASSUME Init PROVE Promise!Init
      OBVIOUS
  <2>1. Load = 0
      BY DEF Init, Load, Norm
  <2>2. Unread = <<>>
      BY <2>1 DEF Unread
  <2>3. \A t \in Threads : ~InReturn(t)
      BY DEF Init, InReturn
  <2> QED
      BY <2>2, <2>3 DEF Init, Promise!Init
<1>2. Inv /\ [Next]_vars => [Promise!Next]_Promise!pipeVars
    BY StepIsPromised
<1> QED
    BY <1>1, <1>2, Invariance, PTL DEF Spec, PipeSpec, Promise!Spec

=============================================================================
