# A TLA+ verification project for libthreadar

libthreadar is a C++ library that wraps POSIX threads in classes: mutexes,
conditions, semaphores, barriers, threads, and containers that pass blocks or
objects between threads. This directory models these classes in TLA+,
model-checks them with TLC on small instances, and proves with TLAPS, for every
value of the constants, all the safety invariants that the passing runs check. Paths such as
`semaphore.cpp:103` are relative to `src/src/` of the repository.

Contents: 1 inventory, 2 how the code is modelled, 3 modules, 4 runs, bounds and
fairness, 5 proofs, 6 where the code and its documentation disagree, 7 what is
not modelled, 8 plan.

To check one run: `tlc -config FastTampon.cfg FastTampon`; to check the proofs:
`tlapm FastTampon_proofs.tla`, and so on for each `*_proofs.tla`.

## 1. Inventory

Every class is passive: it has state and operations, and the threads are the
user's. Classes call each other as follows.

    mutex <- condition <- fast_tampon, freezer, ratelier_*, barrier (one build)
    mutex <- semaphore, tampon, thread
    thread <- thread_signal

| component | state | operations |
|---|---|---|
| `mutex` | a pthread mutex, no owner | `lock`, `try_lock`, `unlock` |
| `condition` (is a `mutex`) | condition variables and waiting counts, by instance number | `wait`, `signal`, `broadcast`, `get_waiting_thread_count` |
| `freezer` | `value` under a condition; negative while threads are suspended | `lock`, `unlock`, `reset`, `waiting_thread` |
| `semaphore` | `value`, `max_value`, `val_mutex`, and the mutex `semaph` as a gate | `lock`, `unlock`, `reset` |
| `barrier` | a `pthread_barrier_t`, or a condition where there is none; `waiting_num` | `wait`, `get_waiting_count` |
| `thread` | `tid`, `running`, `joignable`, `do_cancel`, the stack, `field_control` | `run`, `join`, `cancel`, `kill`, `is_running`, `set_stack_size`, `reset_stack_size`, `cancellation_checkpoint` |
| `thread_signal` (is a `thread`) | the signal in use and whether its handler is installed, for the process; a signal mask per object | `change_default_signal`, `set_signal_mask`, what it adds to `cancel` |
| `fast_tampon` | a ring of blocks, two indexes, two "outside" flags, a condition | `get_block_to_feed`, `feed`, `feed_cancel_get_block`, `fetch`, `fetch_recycle`, `fetch_push_back`, `reset` |
| `tampon` (deprecated) | a ring with a third index and `full`, three mutexes | the same, `fetch_push_back_and_skip`, `fetch_skip_back` |
| `ratelier_scatter` | slots, a map from index to slot, free slots, next and lowest index, a condition | `scatter`, `worker_get_one`, `reset` |
| `ratelier_gather` | slots, a map from index to slot, free slots, next index, a condition | `worker_push_one`, `gather`, `reset` |
| exceptions, tools, examples, build files | none of their own | error classes, formatting, test programs |

What is hard, and what would make each part correct:

- **condition.** `wait` does not loop and counts its caller outside
  `pthread_cond_wait`; its users read the count to decide whether to signal. The
  count has to be exact whatever the order of waits, signals, broadcasts and
  spurious returns.
- **fast_tampon.** Full and empty are tested without the mutex while the other
  side is moving its index (through an out-of-range value). Correct: the two
  sides never have the same block, blocks come out in order with their sizes,
  nobody sleeps over what he waits for.
- **freezer.** `lock` waits without a loop, `reset` lets the mutex go in each turn
  of its loop. Correct: one thread is let go per `unlock`, `reset` ends.
- **semaphore.** The count is decided under one mutex and the suspension happens
  on another, which is a mutex and not a counter. Correct: never more holders
  than resources, nobody suspended beside a free resource.
- **barrier.** Built twice; `waiting_num` is changed by everyone without a lock.
  Correct: nobody leaves a round before all have begun it, and all leave it.
- **thread.** The worker may run, and end, before `run()` has published it, and the
  fields are only partly guarded. Correct: each worker is joined once, `running`
  is true of a live worker only, the destructor outlasts the worker, a stack
  outlives its thread, a cancellation reaches the worker it was meant for.
  `kill` marks a worker as not running while it still is.
- **ratelier_scatter and ratelier_gather.** Workers overtake each other, indexes wrap
  (unsigned), and a full table of objects that are ahead of their turn would
  stop everybody. Correct: all objects are gathered, in order, once.
- **tampon.** The feeder reads the ring without the mutex while the fetcher, which
  may skip blocks and recycle behind them, moves it. Correct: skipped blocks are
  preserved, order and size kept, no block shared.
- **thread_signal.** A signal that arrives before the system call that it was to
  interrupt is lost; the signal and its handler are changed in two steps; the
  worker is looked for and sent the signal in two steps. Correct: no signal
  finds its handler missing, a worker that is suspended, or will check, stops.

`PROJECT.json` lists these hazards line by line with the properties that watch
them.

## 2. How the code is modelled

**Grain.** What is done between taking a mutex and releasing it (or waiting) is
one step, if everything that can run at the same time and touches the same data
needs that mutex; two such sections commute with all that others do meanwhile.
Where data are read or written without the mutex, each access is a step:

- `FastTampon`: each of the unlocked tests, the taking of the block (flag, and
  size read by `fetch()`), the store of the size in `feed()`, and the increment and the wrap of the index are
  steps. The two halves of `shift_by_one` are apart because the other side reads
  the index in between.
- `Tampon`: each read that the feeder makes of `next_feed` and of `table` without `modif`, the
  two reads of `next_feed` in `feed()` (350, 352) and the store of the size among them.
- `Barrier`: the read and the write of `++waiting_num` and of `--waiting_num`.
- `Thread`: `running`, `joignable` and `tid` where `field_control` is not held.
- `Semaphore`: the gate is a mutex of its own, passed in a step of its own.
- `ThreadSignal`: `verrou` is held where the signal is changed and where its handler is
  installed; each is a step. The first test of `initialized`, which is not under
  `verrou`, is in the step of the second one: the handler is installed before
  `initialized` is set.
- `FastTampon`: `reset()` is one step, as the other side is kept off its unlocked
  accesses (`MayReset`).

The memory is sequentially consistent. The unlocked accesses of `fast_tampon`,
`thread` and `barrier` are data races in the sense of C++11; what a weakly ordered
machine may add is not shown here (section 7).

**Mutex and condition.** `Mutex` has a `holder` for the properties to speak of; the
code does not check it and neither does the model: `Unlock` may be called by
anybody (semaphore and tampon rely on it). `Condition` splits the threads inside
`wait(i)` into `blocked[i]` (asleep) and `woken[i]` (awake, not yet back with the
mutex). A woken thread counts in `counter[i]` until it is back, as in the code.
POSIX allows spurious returns; they are steps (`SpuriousWakeup`) in every module
that waits on a condition, and the variable `spurious` remembers that there has
been one, so that a property may say what holds without.

**Exceptions.** A call that throws ends there, with what it has changed so far. Where
a property tells what was thrown (`FastTampon`, the rateliers, `Tampon`), `raised` keeps it;
elsewhere a call that throws before it changes anything is no step. The return
codes of `pthread_*` that a correct use cannot provoke and failures of `new` are left
out, but where `thread` allocates its stack (`MemoryShort`).

**Data.** Blocks are identified with slots (`FastTampon`), numbered (`Tampon`), objects are
numbers in the order they are scattered (`Ratelier`). Contents are kept where a
property tells them apart. `unsigned` wraps at `IndexSize` or `WordSize` where wrapping
matters.

**Seeded faults.** Operators commented "Seeded fault" are wrong variants of the
definition after them. They are not used; putting one in the place of the right
one makes the property named in `PROJECT.json` fail, which shows that the property
depends on that line of code.

## 3. Modules

| module | models | its abstract view |
|---|---|---|
| `Mutex` | `mutex` | |
| `Condition` | `condition`, extended by all modules that wait | |
| `ConditionUse` | threads that use one condition as its header asks | |
| `FastTampon` | `fast_tampon`, one feeder, one fetcher | `Pipe`, a bounded queue |
| `Freezer` | `freezer` | `Permits` |
| `Semaphore` | `semaphore` | |
| `Barrier` | `barrier`, both builds | |
| `Thread` | `thread`: one object, its callers, its successive workers | |
| `ThreadSignal` | `thread_signal`, extends `Thread`: workers that enter system calls, the signal | |
| `RatelierScatter`, `RatelierGather` | the two rateliers | |
| `Ratelier` | their composition: a scattering thread, workers, a gathering thread | `OrderedPipe` |
| `Tampon` | `tampon` | |
| `Condition_proofs`, `FastTampon_proofs`, `Freezer_proofs`, `Semaphore_proofs`, `Barrier_proofs`, `ThreadSignal_proofs`, `Ratelier_proofs`, `Tampon_proofs` | theorems about the module of that name (`ConditionUse` for the first; `Thread`, too, in `ThreadSignal_proofs`) | |

Variables have the names of the fields and actions the names of the methods;
`pc` says where inside a call each thread is.

**FastTampon.** `get_block_to_feed` and `fetch` are the same control flow with the roles
exchanged, so they share `GetEnter` (flag test, first test without the mutex),
`Acquire`, `GetTest` (second test; `wait` or unlock), `GetResume`, `GetRetest` (third test,
THREADAR_BUG) and end in `FeedTake` or `FetchTake`. `feed` and `fetch_recycle` set the
flag and the size, then `Acquire`, `FeedShift` or `RecycleShift` (increment) and `FeedWrap` or
`RecycleWrap` (wrap, signal if somebody waits, unlock). `feed_cancel_get_block` and
`fetch_push_back` never take the mutex. Both condition numbers are 0 in the code,
hence in the model: the two sides share one instance and are told apart only by
being two. `right` is whether the caller gave back the pointer it was given; if
not, the flag falls all the same and exception_range is thrown, as in the code.
The refinement mapping to `Pipe` takes for queue the sizes of the slots from
`next_fetch` to `next_feed`; `feed()` takes effect when `next_feed` moves and
`fetch_recycle()` when `next_fetch` does. `Pipe` keeps the size given to `feed()` apart until then
(`offered`), so that nothing may touch the slot in between. `reset` and `reset_refused` are the
two ends of `reset()`, called by either side; the other one may be asleep, where it
is awaken for nothing (`spurious` says so, as of a spurious wakeup), or wait for the mutex.
`MayReset` is the discipline: the other side is not past its tests, not giving a block
back, and begins nothing meanwhile. Without it a side that has passed its tests
takes a block that the other gets too.

**Freezer.** `Call` is the request, `Enter` the mutex, then `lock`, `unlock` or one turn
of the loop of `reset`. `Permits` is what is promised: `Take` suspends or not, `Give`
lets exactly one go, `Escape` is the spurious return, the only other way out.

**Semaphore.** `lock` and `unlock` are one step under `val_mutex` and one at the gate
(`lock_gate`, `unlock_gate`); `reset` keeps `val_mutex` from its first step to its last. A thread may
`unlock(t, h)` what another one, `h`, has locked; and one that is outside may call it when nothing is
locked, which throws.

**Barrier.** `built_on` chooses the build once and for all. In the build over a
condition `waiting_num` starts with any value: that constructor does not set it
(barrier.cpp:64). The history variable `overlapped` remembers that a thread has begun a `++` or `--` of
`waiting_num` while another was inside its own: from then on the count may be wrong.

**Thread.** `run` is split where the worker exists but `running` and `joignable` are not set
yet (`run_publish`); `join` in its unlocked test, its `pthread_join` (`JoinCall`, `JoinWait`, with
EINVAL and ESRCH), and the marking; `kill` in `pthread_cancel` (`kill_cancel`) and the
clearing of `running` (`kill_mark`). A worker goes through the stages starting,
body, leaving (may still clear `running`), returning, ended, joined; one that is killed
may unwind from where it is (`Unwound`). `Owners` are the threads that run, join, kill, resize and
destroy; the others only cancel.

**ThreadSignal.** Every step of `Thread` is one here, `cancel` going on with `signaled_inherited_cancel`
(the user's, which may throw), `send_signal` (the search, `is_running(id)`) and `PthreadKill`. Other objects exist only
in that they are constructed (`thread_signal`). A worker in its body is at a checkpoint,
working, or suspended in a system call (`place`); it enters one system call at most
between two checkpoints. `handler` delivers a signal: the process ends if the handler is
not the library's, the system call returns if there is one. Nothing keeps `cancel()` away from
a change of the signal: the history variable `exposed` remembers that a signal was sent while
`change_default_signal()` had its handler still to install, or when the one in use cannot be caught.
`PthreadKill` sends to the worker that the search has found; once that one has been joined, its tid may
be that of a later worker (`Reached`), or `pthread_kill()` may report it, as it may of one
that has ended, and then `inherited_cancel()` tries once more.

**Ratelier.** Two instances of the two classes. A slot of a table holds an object with the index it was
put under, or none. The sanity checks on the slots (scatter 150-153, 201-206 and 215,
gather 187-190 and 241-248) are tests of the model, too, and so is what a throw does: everyone is
awaken, what has been moved before it stays moved. The scattering thread puts object
`sent`, a worker loops through `worker_get_one` and `worker_push_one`, the gathering
thread loops through `gather`. `Reset` resets both with nobody inside. `OrderedPipe` knows neither
slots nor indexes: `Put`, `Take` (the oldest), `GiveBack` in any order, `ComeOut` in order. The mapping
reads the tables through their maps, so that a slot freed too early or an index
that designates another object is a step `OrderedPipe` does not have.

**Tampon.** The fetcher may skip, recycle and put back at any time, as the header allows. The history
variable `exposed` remembers that it has done what the code does not withstand: skipped
the first or the last block of a full tampon (`SkipIsSafe`), or recycled behind skipped blocks while the
tampon was full or the feeder was between a read of `next_feed` and its use (`RecycleIsSafe`). The properties on blocks
say what holds until then; `RaisedOnlyIfExposed` says which checks cannot fail even after. Each half
of a waiting gate (decision under `modif`, then `waiting_feeder.lock()` outside) is a step.

## 4. Runs, bounds and fairness

Runs that pass:

| run | bounds | shows |
|---|---|---|
| `ConditionUse` | 3 threads, 2 instances | the count is exact (`CounterInv`, also proved) |
| `FastTampon` | 4 blocks, 2 sizes | `Inv` (the inductive invariant), `NoSharedBlock`, `NoLostWakeup`, `NoBug`; `PipeSpec`: it implements the queue; `SuspendedServed`, `ReturnsEnd`, all with `reset()` at any time |
| `Freezer` | 3 threads, value within -3 .. 3 at calls | `SleepersAreOwed`, `PermitSpec` (implements `Permits`), `WokenReturns`, `ResetEnds` |
| `Semaphore` | 4 threads, 1 or 2 resources | `AtMostMax`, `PermitsMatch`; `OnePermitServes` with one resource |
| `Barrier` | 3 threads, 2 rounds, word of 4, both builds | `CountIsExactUntilOverlap`, `SoundRoundsAligned`, `AllGoThrough` |
| `ThreadSignal` | 1 owner, 1 other caller, 2 workers, 3 signals: SIGUSR2, SIGCHLD, SIGKILL | `RunningIsExact`, `NoWorkerForgotten`, `DestroyedIsQuiet`, `TerminatedOnlyIfExposed`, `FoundIsNotJoined`, `CancelServes`, `DestructorEnds` |
| `Ratelier` | 2 slots each side, 2 workers, 7 objects, indexes modulo 6 | `PipeSpec` (implements `OrderedPipe`), `NothingRaised`, `RoomCanBeMade`, `NoIdleWorker`, `Delivered` |
| `Tampon` | 4 slots, 5 blocks fed, all uses together | `Preserved`, `FetchedIsNext`, `NoSharedBlock`, `RaisedOnlyIfExposed`, `GatesOpen` |

Each also checks the type invariant of its module, but `Barrier`, where `CountIsExactUntilOverlap` says more of
the count than its type, and `ConditionUse`, whose `CounterInv` has the types in it. Four more runs end in a
violation (section 6).

Why the bounds are enough for what they are to show:

- `FastTampon` has no bound on the number of calls: indexes wrap for ever, and with
  4 slots the ring is empty, full and in between. Its safety is proved for every size.
- `ConditionUse`, `Freezer`, `Semaphore`: three threads are the least with one that sleeps, one
  that is woken but not back, and one that acts; the fourth of `Semaphore` makes two
  holders and two suspended threads. Calls are unbounded; `Bound` only stops a user
  that calls `unlock()` of a freezer for ever.
- `Barrier`: two rounds are what it takes for a round to meet the next one.
- `ThreadSignal`: two workers are what it takes for one to be mistaken for the next,
  three signals give one that can be caught and one that cannot besides the default; both are
  forbidden, so that no change follows a change to them. `Masks` is the one mask given to the object, that
  of a signal a change may choose. `Aftermath` is FALSE: once `exposed`, calls under way go on
  and no new one begins, as `TerminatedOnlyIfExposed` has nothing more to say then. The
  stacks are left to `ThreadStack`.
- `Ratelier`: 7 objects over 6 indexes make the indexes wrap while others are in
  use; 6 is the least number of indexes for these tables and workers
  (`RatelierAssumption`: at any time, all objects in flight have different indexes,
  which in the code means fewer than 2^32). Two workers are what it takes to
  overtake, and two slots to reserve the last one.
- `Tampon`: in a ring of 4, a block can be recycled behind two skipped ones with one
  block moved and the feeder at work; the fifth block is the one the feeder has to
  wait for. Only the first block fed may be put back half read: that is enough to
  tell a remainder from the whole, wherever that block has gone in the ring.

`CHECK_DEADLOCK FALSE` is used where the program may stop: a barrier
after its rounds, a destroyed thread, a stream that has ended, a freezer that has
suspended everybody.

Fairness, and what in the code justifies it:

- A thread inside a call of the library keeps running: weak fairness of its
  steps. Nothing is assumed of a user who is outside: he may never call.
- `Barrier` and `Ratelier` assume a user that calls: threads that go through a barrier
  do so, workers and the gathering thread loop, as the examples do. The
  scattering thread may stop at any time.
- `Freezer` and `Ratelier` assume that a thread that finds the mutex free again and again
  gets it (strong fairness): their loops and `wait()` need the mutex that others
  keep taking. That is the scheduling of threads, not of the library; without it
  any user of a mutex may starve.
- `ThreadSignal`: a signal that is sent and not masked is delivered; a worker that is not
  suspended comes to its next checkpoint, as thread.hpp asks of `inherited_run()`. A
  system call need not return: only a signal ends it for sure.
- `FastTampon` needs weak fairness only: the other side cannot take the mutex again
  and again without the first one moving its index.
- Spurious wakeups are not fair, and may come for ever. Where they defeat a
  promise (the third test of `fast_tampon`, the barrier over a condition), the property
  says "or there was a spurious wakeup"; `Freezer` and `Ratelier` keep theirs.

## 5. Proofs

Every invariant of a passing run is stated by a theorem below, as are the refinements of
`Pipe`, `Permits` and `OrderedPipe`. What TLC alone shows is at the end of the section.

`Condition_proofs`: `CounterIsExact`, that is `Spec => []CounterInv` of `ConditionUse`, for every finite
set of threads and every set of instances. From `FiniteThreads` and
`NoThreadAssumption`. `CounterInv` adds to "the count is the cardinality of the threads inside `wait`" that a thread is in
one place: without it `wait()` could count a thread twice and a set would not.
Four lemmas say what waking, waiting and resuming do to it.

`FastTampon_proofs`, for every ring size of two or more, every set of sizes with 0:

- `Invariance`: `Spec => []Inv`.
- `BlocksAreDisjoint`: `Spec => []NoSharedBlock`. With `feed_outside` and `fetch_outside` the two
  slots differ.
- `WakeupsAreNotLost`: `Spec => []NoLostWakeup`.
- `BugIsNotRaised`: `Spec => []NoBug`.

The argument: `Load` is the number of blocks fed and not recycled, computed
modulo the ring, with an index that is N for a moment counted as 0. What each
side relies on between its test and the move of its index is a claim
(`ClaimsHold`): room for the feeder, a block for the fetcher. The other side can
only make a claim more true, which is why the unlocked tests are safe: they may
say "full" too late, never "room" too early. `TestsAreSafe` says what the tests mean
under the invariant, also in the middle of the other side's `shift_by_one`; `FeedShiftLoad`,
`RecycleShiftLoad` and `WrapLoad` what moving an index does. `NoLostWakeup` is
inductive with `WaitersMatchPc` (the count that `feed()` tests is that of the threads
inside `wait`) and `LockMatchesPc` (who decides to sleep has the mutex, and so has who
moves the index). `WokenIsServed` carries what a woken thread finds, as long as no
wakeup was spurious. There is one lemma per action or per pair of symmetric
actions.

Assumptions: the feeder and the fetcher are different and are the only threads
(`SidesAssumption`), `NAssumption` (the constructor refuses a ring of less than two),
`SizesAssumption`.

In its second part, under the same assumptions: `FastTamponIsAPipe`, `Spec => PipeSpec`. A
block of the queue is a slot from `next_fetch` to `next_feed`, the i-th one at `SlotOf(i)`.
The lemmas on the slots of the ring say that these slots differ from each other,
from the one the feeder has in hand (so that the size stored by `feed()` touches
none of the queue) and, but for the first, from the fetcher's. There is then one lemma per step
that the queue sees: `FeedTake` is `Obtain`, `feed` `Give`, `FeedShift` `Commit` (appends), `FetchTake`
`Borrow`, `RecycleShift` `Consume` (removes the first), `fetch_push_back` `GiveBack`, `feed_cancel_get_block` `Abandon`,
`reset` `Clear`; `fetch_recycle` only gives back if its pointer is wrong. All other steps stutter. `ClaimsHold` is what makes them steps of `Pipe`: nothing is committed to a full
queue, nothing borrowed from an empty one.

`Freezer_proofs`, for every finite set of threads, any `value`, and spurious wakeups at any time:
`PermitsAreGiven` (`Spec => []SleepersAreOwed`) and `FreezerGivesPermits` (`Spec => PermitSpec`). The invariant adds
to `SleepersAreOwed` who is inside `wait()` and who has the mutex (`WaitersMatchPc`,
`LockMatchesPc`): without them `value` could be decided under a mutex that another holds. `SignalPaysOne` is the
core: `unlock()` adds one to `value` and takes one sleeper away, or there was none. `FreezerTypeCorrect`
(`TypeOK`) says by how much `value` can pass the bound put on calls: a call is admitted before it
gets the mutex, so the invariant is that `value` and the calls on their way make no more
than the bound and the number of threads (`InBounds`).

`Semaphore_proofs`, for every finite set of threads and every `max_value`: `HoldersAreBounded` (`AtMostMax`) and
`PermitsAreExact` (`PermitsMatch`). Neither is inductive alone. `CountMatches` says that `value` is
`max_value` less the threads that hold or are suspended, until `reset()` is called;
with `permits <= suspended` this bounds the holders. `GotoMoves` counts: a thread that
goes from one label to another changes two cardinalities by one and no others. `SemaphoreTypeCorrect` (`TypeOK`)
comes from the same invariant.

`Barrier_proofs`, for every finite set of threads, any number of rounds and both builds: `RoundsAreAligned`
(`Spec => []SoundRoundsAligned`). Nothing in the invariant depends on `waiting_num`, however wrong lost
updates make it. With `pthread_barrier_t` all threads have been let through equally often at any time
(`PthreadRounds`): the last to arrive finds all the others inside, by cardinality (`AllButOne`). Over a
condition, `counter` is the number of threads inside `wait()` (`SleepersCounted`), and the first one that does not
wait has counted all the others (`FirstRound`); from the second round on this is no longer so, as those
awaken are still counted, and the proof stops at `SoundRounds` like the run. `CountIsExact` (`CountIsExactUntilOverlap`):
until two threads are between the read and the write of `waiting_num` at once, the value that a thread
has read is the number of the threads counted, and the one it writes is that number with itself
added or taken off (`CountInv`); the word is never full, as `Val` is less than its size.

`ThreadSignal_proofs` begins with `Thread`, for any callers, any number of runs and stacks, and **one** owner
(`Owners = {o}`; with two the code does not keep them, section 6): `RunningTellsTheTruth`
(`RunningIsExact`), `WorkersAreJoined` (`NoWorkerForgotten`), `DestructorIsLast` (`DestroyedIsQuiet`), all from `OwnedThread`, the
invariant `ThreadInv(o)`. It says that all workers but the last are joined (`OneAtATime`), that
while `run()` holds `field_control` the worker is held back at its start (`HeldBack`), which is why it
cannot clear `running` before `run()` has set it, that `joignable` is then whether the last
one is still to be joined, also while the owner is between the steps of `join()` and `kill()`
(`JoignableIsExact`, `OwnerIsAt`), and that `running` is that of the last worker unless it was killed.

On top of it, `SignaledIsAThread` has the three properties again for `SignalSpec`, from `SignaledThread`: each
step of `ThreadSignal` is one of `Thread`, or is one that `cancel()` adds and touches nothing of what `ThreadInv`
relates. `SearchFindsTheLast` is `FoundIsNotJoined`. Both have one owner, as above. `ProcessEndsOnlyIfExposed` is
`TerminatedOnlyIfExposed`, for any number of owners, callers and signals, whatever they do: the invariant is that,
until `exposed`, the signal in use has its handler outside `change_default_signal()` (`HandlerInstalled`) and every
signal sent has one (`SentAreHandled`). `SignalTypeCorrect` (`SignalTypeOK`) has one owner and
needs that the signal the process starts with can be caught (`SignalAssumption`).

`Ratelier_proofs`, for every finite set of workers, tables of any sizes and any number of objects, from
`RatelierAssumption`: the two tables and the workers together have no more room than there are
indexes (2^32 in the code). About the composition, `Spec` without fairness:

- `StreamsInvariant`: the invariant `Streams`, and where each thread can be (`PcMatches`).
- `NothingRaisedHolds` (`NothingRaised`): the code never meets an index twice, a slot to fill that is
  not empty, nor a slot to read that does not hold the index it looks for.
- `RateliersImplementOrderedPipe` (`PipeSpec`): objects come out in order, once each.
- `RoomCanBeMadeHolds` (`RoomCanBeMade`), if the gather table has two slots or more: it does not hold
  with one (`RatelierOne`).
- `NoIdleWorkerHolds` (`NoIdleWorker`) and `RatelierTypeCorrect` (`TypeOK`).

`Streams` says that the objects scattered and not come out are each in one place: a slot of the
first table, the hands of a worker, or a slot of the second one (`ScatterHolds`, `HandsHold`, `GatherHolds`).
So they are never more than the room there is (`Balance`), hence fewer than the indexes, and two of
them never have the same index however often indexes have wrapped (`IndexesDiffer`, from the uniqueness of
remainders). That is why a map by index designates the right object. For each table, `SlotsMatch` says
that the map and the free list share the slots, and `TableMatches` that the slots of the list are empty and
those of the map hold the index that leads to them, which is why no sanity check fails; `SlotIsUsed`, `SlotIsFreed` and
`SlotsAreFreed`, `TableIsFilled` and `TableIsEmptied` say that taking and freeing slots keeps that. One lemma per operation says what it does to the streams (`PutStep`,
`TakeStep`, `GiveStep`, `GatherStep`, `ResetStep`), and one that this is the step of `OrderedPipe` (`PutRefines` to
`ResetRefines`); all other steps stutter. `gather()` takes the objects in a row from the next one on, which
`ContinuousIs` finds without induction, from the count of them. `NoIdleWorker` is inductive with the sets of
threads inside `wait()` (`Asleep`): `scatter()` wakes one worker per object put, if one sleeps.

`Tampon_proofs`, for every table size, any number of blocks and whatever the fetcher calls, at any time:
`Invariance`, and from it `BlocksArePreserved` (`Preserved`), `NextIsFetched` (`FetchedIsNext`), `BlocksAreApart` (`NoSharedBlock`),
`ChecksFailOnlyIfExposed` (`RaisedOnlyIfExposed`) and `TamponTypeCorrect` (`TypeOK`). The invariant has two halves. `Sound`
holds whatever happens: the types, and why no one comes out of its wait for nothing. `TamponInv`
holds until `exposed`. It has five parts. The indexes
delimit `Load` slots from `fetch_head` on, those before `next_fetch` being the skipped ones (`RingOK`); each
holds the block whose turn it is, with its data and size, and no memory block is in two slots (`CellsHold`);
each thread, from where it is allowed to go on until it gives its block back, has a claim on a
slot, and its gate is open just when it may pass (`FeederHolds`, `FetcherHolds`); and nothing has been thrown
(`Calm`). The claims are why the feeder may read `next_feed` and the table without `modif`. The longest argument is
`fetch_recycle()` behind skipped blocks: it moves those blocks by one slot each and gives the recycled memory
to the slot that is left, which is a rotation of the memory blocks (`From`, `SqueezedIs`, `SwappedIs`); all blocks keep
their order, and a slot next to the feeder's becomes free. `RecycleIsSafe` is used there, and
`SkipIsSafe` in `SkipKeepsInv`: a step that is not safe sets `exposed`, and may break the invariant (section 6).

Model-checked only: the liveness properties (`SuspendedServed`, `ReturnsEnd`, `WokenReturns`, `ResetEnds`, `GatesOpen` and
the others of section 4), as the prover handles neither fairness nor `ENABLED`. The proofs say nothing of the runs
of section 6, where the code does not keep what is documented.

## 6. Where the code and its documentation disagree

Shown by a run that TLC ends in a violation:

- `SemaphoreLost` (`PermitServes`; semaphore.cpp:103 against semaphore.hpp:100-101). The gate
  is a mutex; two openings before a suspended thread has run are one. With two
  resources and two suspended threads, one stays suspended beside a free
  resource. With one resource it cannot happen (`OnePermitServes`).
- `ThreadStack` (`StackOutlivesWorker`; thread.cpp:105 against thread.hpp:125). `set_stack_size()`
  refuses while `running`, which the worker clears before it has left its stack
  (thread.cpp:359). Calling `join()` first is safe.
- `RatelierOne` (`Delivered`; ratelier_gather.hpp:174 against 115-116). A gather table of one slot does
  not reserve it: a worker that is ahead takes it and all wait for each other.
- `TamponSkip` (`PutBackIsPreserved`; tampon.hpp:436 against 92-93). Recycling behind a skipped block while
  the tampon is full swaps the oldest block with the one just recycled.

Met while modelling, without a run of their own:

- A `fast_tampon` of max_block blocks holds max_block - 1 (fast_tampon.hpp:92 and 168); it is
  `Capacity <- N - 1` in the mapping to `Pipe`.
- `get_waiting_thread_count()` counts threads that are awake and not back yet
  (condition.hpp:102 says "currently waiting").
- A spurious return of `pthread_cond_wait()` makes `get_block_to_feed()` and `fetch()` throw
  exception_bug (fast_tampon.hpp:282); `NoBug` holds without one.
- After a spurious return from a freezer, `value` counts a thread that is not
  suspended (freezer.hpp:97-98); the second half of `SleepersAreOwed` says "without".
- `semaphore::reset()` opens the gate several times in a row, and loses openings as
  `unlock()` does (semaphore.cpp:111-115 against semaphore.hpp:104).
- A barrier over a condition cannot be used for a second round at once, as
  barrier.hpp:53 allows: `SoundRounds` is 1 for that build, and with 2
  `SoundRoundsAligned` fails.
- `waiting_num` of a barrier may be wrong for ever after a lost update (barrier.cpp:106);
  `CountIsExactUntilOverlap` says that nothing but an overlap of two updates spoils it.
- Of two concurrent `join()`, the refused one clears `joignable` (thread.cpp:226), and a third
  returns beside a live worker. `ThreadSignal` has one owner.
- `kill()` clears `running` of a worker that is alive (thread.cpp:281), without `field_control`;
  `RunningIsExact` speaks of workers that were not killed.
- `change_default_signal()` takes effect at once, also for `cancel()` on objects that exist,
  though thread_signal.hpp:93 says it has none until a new object is created. Until its
  handler is installed (thread_signal.cpp:76 to 85) a `cancel()` ends the process; line 72
  compares the signal in use instead of the new one, so that SIGKILL is let in, and
  a later change is refused. The run goes through both, and `TerminatedOnlyIfExposed` says that there
  is no other way.
- `set_signal_mask()` refuses the signal in use (thread_signal.cpp:62); a later change may
  choose one that a worker masks, which then is not interrupted. The run does so; `CancelServes`
  speaks of a pending signal that the worker does not mask.
- Between `is_running(id)` and `pthread_kill()` the worker may end and be joined
  (thread_signal.cpp:113-115): the signal is for a thread that is no more, or for a later one with its
  tid. `FoundIsNotJoined`
  says only what is so at the time of the search.
- A signal that comes after the last checkpoint and before the system call is lost;
  `CancelServes` leaves such a worker out. For the same reason, and as it sends no signal, the
  destructor of a `thread_signal` may wait for ever for a worker in a system call
  (`DestructorEnds` speaks of the others).
- `fast_tampon::reset()` that finds a thread waiting throws, and the broadcast it makes before
  has that thread throw exception_bug (fast_tampon.hpp:414-419 and 283).
- `worker_push_one()` accepts an index that has been gathered already, though
  ratelier_gather.hpp:114 announces an exception.
- In `tampon`: a full tampon is compared at its first block instead of its last one
  (tampon.hpp:468), the exception at 469 leaves `modif` locked, and the feeder
  reads `next_feed` and the table without it (340, 350) while `fetch_recycle()` moves both.
  The passing run goes through
  the three; `Preserved`, `FetchedIsNext` and `NoSharedBlock` say what holds until then, and
  `RaisedOnlyIfExposed` that nothing else makes a check fail. `load()` is 0 when it is full (213).

## 7. What is not modelled

- What the methods of `thread` throw, and the copy of the exception of `inherited_run()` that `join()`
  throws again (thread.cpp:363, with `new(nothrow)`): values nothing else depends on.
- A thread that is killed inside a call of the library: what `pthread_cancel()` unwinds there
  (condition.cpp:77 would leave the mutex locked and the count too high). `kill()` is deprecated.
- Destructors other than that of `thread`; they need that nobody uses the object.
- `reset()` of the rateliers while somebody is inside: it clears fields without
  the mutex, which is a data race for all but an unused object. That of `fast_tampon` beside a
  side that is at its unlocked accesses (`MayReset`), for the same reason.
- Memory ordering weaker than sequential consistency.
- Failures of `new`, and null objects given to the rateliers (`! obj`). The checks of a `tampon` on the pointer
  its fetcher gives back, which is its own: the fetcher of the model gives back the block it was given.
- `mutex::try_lock()`, used by `tampon::reset()` alone, where only the state it leaves counts.
- `semaphore::unlock()` by a thread when no thread it could stand for has a resource and the value is below its
  maximum: semaphore.hpp:60 forbids more calls of `unlock()` than of `lock()`.
- Error classes, formatting, examples, build files: no state, or not the library's.
  The only choice of the build that changes behaviour is `built_on` in `Barrier`.

## 8. Plan

Done, in this order: `Mutex` and `Condition`, since all rests on them; `FastTampon` with `Pipe` and
its proofs; `Freezer` with `Permits`; `Semaphore`; `Barrier`; `Thread`; the rateliers and
their composition; `Tampon`; `ThreadSignal`; `OrderedPipe`; `reset()` of `fast_tampon`.

Proofs, in this order: `Condition`, `FastTampon`, `Thread`, `ThreadSignal`, `Semaphore`, `Freezer`, `Barrier`,
`FastTampon` implements `Pipe`, the rateliers implement `OrderedPipe`, `Tampon`, and the types of all.

Next, in modelling: a `fast_tampon` whose two sides have store buffers; what `pthread_cancel()`
unwinds inside `condition::wait()`.

Next, in proofs:

1. `Tampon`: an abstract specification of a queue with skipping, and that `Tampon` implements it.
2. `ThreadSignal`: `SignalTypeOK` with several owners, whose `join()` calls meet.
