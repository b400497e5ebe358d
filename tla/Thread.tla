-------------------------------- MODULE Thread --------------------------------
(***************************************************************************)
(* libthreadar::thread: one object, the threads that call its methods, and *)
(* the successive system threads ("workers") that run() creates for it.    *)
(*                                                                         *)
(* The fields are guarded by field_control only in part: the worker and    *)
(* kill() clear running, and join() reads and clears joignable, without    *)
(* it.  A method that does its whole work under field_control is one step, *)
(* and none if it throws before it has changed anything; what is thrown is *)
(* left out.                                                               *)
(*                                                                         *)
(* inherited_run() is the user's: it calls cancellation_checkpoint() time  *)
(* and again, and returns or throws when it likes.                         *)
(***************************************************************************)
EXTENDS Integers, FiniteSets

CONSTANTS
    Callers,        \* the threads that use the object
    Owners,         \* those that run(), join(), destroy and set the stack
    NoThread,
    MaxRuns,        \* bound of the model: system threads created
    MaxStacks,      \* bound of the model: stacks allocated
    StackAnyTime,   \* whether the stack is changed before join(), too
    MemoryShort     \* whether new(nothrow) fails

ASSUME ThreadAssumption ==
    /\ NoThread \notin Callers
    /\ Owners \subseteq Callers
    /\ MaxRuns \in Nat /\ MaxStacks \in Nat
    /\ StackAnyTime \in BOOLEAN /\ MemoryShort \in BOOLEAN

Workers == 1 .. MaxRuns

VARIABLES
    field_control,
    running, joignable, do_cancel,
    tid,        \* the last worker created, 0 before the first
    stack,      \* the stack allocated, 0 if none; stacks are numbered
    freed,      \* the stacks deleted
    pc,         \* pc[c]: what caller c does next
    target,     \* target[c]: the tid c has read
    alive,      \* "yes", "dying" inside the destructor, "no"
    worker,     \* worker[w]: the stage of worker w
    on_stack,   \* on_stack[w]: the stack w runs on
    joiner,     \* joiner[w]: who is inside pthread_join() for w
    killed      \* the workers given to pthread_cancel()

fields == <<running, joignable, do_cancel, tid>>
stackVars == <<stack, freed>>
callVars == <<pc, target, alive>>
workerVars == <<worker, on_stack, joiner, killed>>
vars == <<field_control, fields, stackVars, callVars, workerVars>>

FieldControl == INSTANCE Mutex WITH Threads <- Callers, holder <- field_control

Labels == {"out", "run_publish", "join_call", "join_wait", "join_mark", "clear",
           "pthread_cancel", "kill_mark", "inherited_cancel", "is_running", "pthread_kill"}
Stages == {"none", "starting", "body", "leaving", "returning", "ended", "joined"}
Active == {"starting", "body", "leaving"}

Init ==
    /\ FieldControl!MutexInit
    /\ running = FALSE /\ joignable = FALSE /\ do_cancel = FALSE
    /\ tid = 0
    /\ stack = 0 /\ freed = {}
    /\ pc = [c \in Callers |-> "out"]
    /\ target = [c \in Callers |-> 0]
    /\ alive = "yes"
    /\ worker = [w \in Workers |-> "none"]
    /\ on_stack = [w \in Workers |-> 0]
    /\ joiner = [w \in Workers |-> NoThread]
    /\ killed = {}

Goto(c, label) == pc' = [pc EXCEPT ![c] = label]
Stage(w, stage) == worker' = [worker EXCEPT ![w] = stage]

(* c may call a method; the object is not destroyed under its callers. *)
MayCall(c) == pc[c] = "out" /\ alive = "yes"
MayOwn(c) == MayCall(c) /\ c \in Owners

-----------------------------------------------------------------------------
(* Seeded fault: run() does not ask whether the last worker was joined. *)
Busy_running == running

Busy == running \/ joignable

(* run(), first half: pthread_create() may fail, and if it does not,       *)
(* field_control is kept.                                                  *)
run(c) ==
    /\ MayOwn(c)
    /\ tid < MaxRuns
    /\ field_control = NoThread
    /\ ~Busy
    /\ do_cancel' = FALSE
    /\ \/ UNCHANGED <<field_control, tid, pc, workerVars>>
       \/ /\ FieldControl!Lock(c)
          /\ tid' = tid + 1
          /\ Stage(tid + 1, "starting")
          /\ on_stack' = [on_stack EXCEPT ![tid + 1] = stack]
          /\ Goto(c, "run_publish")
          /\ UNCHANGED <<joiner, killed>>
    /\ UNCHANGED <<running, joignable, stackVars, target, alive>>

run_publish(c) ==
    /\ pc[c] = "run_publish"
    /\ running' = TRUE
    /\ joignable' = TRUE
    /\ FieldControl!Unlock
    /\ Goto(c, "out")
    /\ UNCHANGED <<do_cancel, tid, stackVars, target, alive, workerVars>>

-----------------------------------------------------------------------------
(* Seeded fault: join() asks whether the thread is running. *)
JoinTest_running(c, otherwise) == Goto(c, IF running THEN "join_call" ELSE otherwise)

(* join() tests joignable, then reads tid, both without field_control.     *)
JoinTest(c, otherwise) == Goto(c, IF joignable THEN "join_call" ELSE otherwise)

(* What join() throws, it throws when all is done. *)
JoinOver(c) ==
    /\ Goto(c, IF alive = "dying" THEN "clear" ELSE "out")
    /\ target' = [target EXCEPT ![c] = 0]

join(c) ==
    /\ MayOwn(c)
    /\ JoinTest(c, "out")
    /\ UNCHANGED <<field_control, fields, stackVars, target, alive, workerVars>>

(***************************************************************************)
(* pthread_join(): the first caller waits, another gets EINVAL, and one    *)
(* that comes when the worker is joined gets ESRCH; join() marks both.     *)
(***************************************************************************)
JoinCall(c) ==
    /\ pc[c] = "join_call"
    /\ IF joiner[tid] = NoThread
         THEN /\ joiner' = [joiner EXCEPT ![tid] = c]
              /\ target' = [target EXCEPT ![c] = tid]
              /\ Goto(c, "join_wait")
         ELSE Goto(c, "join_mark") /\ UNCHANGED <<joiner, target>>
    /\ UNCHANGED <<field_control, fields, stackVars, alive, worker, on_stack, killed>>

JoinWait(c) ==
    /\ pc[c] = "join_wait"
    /\ worker[target[c]] = "ended"
    /\ Stage(target[c], "joined")
    /\ on_stack' = [on_stack EXCEPT ![target[c]] = 0]
    /\ Goto(c, "join_mark")
    /\ UNCHANGED <<field_control, fields, stackVars, target, alive, joiner, killed>>

JoinMark(c) ==
    /\ pc[c] = "join_mark"
    /\ joignable' = FALSE
    /\ JoinOver(c)
    /\ UNCHANGED <<field_control, running, do_cancel, tid, stackVars, alive, workerVars>>

-----------------------------------------------------------------------------
cancel(c) ==
    /\ MayCall(c)
    /\ field_control = NoThread
    /\ do_cancel' = TRUE
    /\ Goto(c, "inherited_cancel")
    /\ UNCHANGED <<field_control, running, joignable, tid, stackVars, target, alive, workerVars>>

(* Does nothing, unless a derived class overrides it. *)
inherited_cancel(c) ==
    /\ pc[c] = "inherited_cancel"
    /\ Goto(c, "out")
    /\ UNCHANGED <<field_control, fields, stackVars, target, alive, workerVars>>

-----------------------------------------------------------------------------
(* Seeded faults: tid is given without asking whether its worker runs, or  *)
(* whether there has been one.                                             *)
IsRunning_unset(c, label) ==
    /\ field_control = NoThread
    /\ target' = [target EXCEPT ![c] = tid]
    /\ Goto(c, label)

IsRunning_any(c, label) == tid # 0 /\ IsRunning_unset(c, label)

(* is_running(id): running is tested without field_control, which settles  *)
(* it if it is false, then again with it to read tid.                      *)
IsRunning(c, label) ==
    /\ field_control = NoThread
    /\ running
    /\ target' = [target EXCEPT ![c] = tid]
    /\ Goto(c, label)

kill(c) ==
    /\ MayOwn(c)
    /\ IsRunning(c, "pthread_cancel")
    /\ UNCHANGED <<field_control, fields, stackVars, alive, workerVars>>

kill_cancel(c) ==
    /\ pc[c] = "pthread_cancel"
    /\ killed' = killed \cup {target[c]}
    /\ Goto(c, "kill_mark")
    /\ UNCHANGED <<field_control, fields, stackVars, target, alive,
                   worker, on_stack, joiner>>

kill_mark(c) ==
    /\ pc[c] = "kill_mark"
    /\ running' = FALSE
    /\ Goto(c, "out")
    /\ target' = [target EXCEPT ![c] = 0]
    /\ UNCHANGED <<field_control, joignable, do_cancel, tid, stackVars, alive, workerVars>>

-----------------------------------------------------------------------------
(* clear_stack(): delete [] of no stack does nothing *)
ClearStack == freed' = freed \cup ({stack} \ {0})

MayResize(c) ==
    /\ MayOwn(c)
    /\ StackAnyTime \/ ~joignable
    /\ field_control = NoThread
    /\ ~running

set_stack_size(c) ==
    /\ MayResize(c)
    /\ ClearStack
    /\ \/ stack' \in 1 .. MaxStacks \ (freed \cup {stack})
       \/ MemoryShort /\ stack' = 0
    /\ UNCHANGED <<field_control, fields, callVars, workerVars>>

reset_stack_size(c) ==
    /\ MayResize(c)
    /\ ClearStack
    /\ stack' = 0
    /\ UNCHANGED <<field_control, fields, callVars, workerVars>>

(* The destructor: cancel(), join(), clear_stack(), with nobody else inside. *)
destroy(c) ==
    /\ MayOwn(c)
    /\ \A d \in Callers : pc[d] = "out"
    /\ field_control = NoThread
    /\ do_cancel' = TRUE
    /\ alive' = "dying"
    /\ JoinTest(c, "clear")
    /\ UNCHANGED <<field_control, running, joignable, tid, stackVars, target, workerVars>>

destroy_end(c) ==
    /\ pc[c] = "clear"
    /\ ClearStack
    /\ stack' = 0
    /\ alive' = "no"
    /\ Goto(c, "out")
    /\ UNCHANGED <<field_control, fields, target, workerVars>>

-----------------------------------------------------------------------------
WorkerMoves(w, from, to) ==
    /\ worker[w] = from
    /\ Stage(w, to)
    /\ UNCHANGED <<field_control, joignable, tid, stackVars, callVars, on_stack, joiner, killed>>

(* Seeded faults: the worker does not wait for run() to end, or clears the *)
(* request for cancellation itself.                                        *)
run_obj_early(w) == WorkerMoves(w, "starting", "body") /\ UNCHANGED <<running, do_cancel>>

run_obj_clears(w) ==
    /\ WorkerMoves(w, "starting", "body")
    /\ field_control = NoThread
    /\ do_cancel' = FALSE
    /\ UNCHANGED running

(* run_obj(): lock() and unlock() of field_control hold the worker back    *)
(* until run() is over.                                                    *)
run_obj(w) ==
    /\ WorkerMoves(w, "starting", "body")
    /\ field_control = NoThread
    /\ UNCHANGED <<running, do_cancel>>

cancellation_checkpoint(w) ==
    /\ WorkerMoves(w, "body", "leaving")
    /\ do_cancel
    /\ UNCHANGED <<running, do_cancel>>

(* The body returns or throws. *)
inherited_run(w) == WorkerMoves(w, "body", "leaving") /\ UNCHANGED <<running, do_cancel>>

ClearRunning(w) ==
    /\ WorkerMoves(w, "leaving", "returning")
    /\ running' = FALSE
    /\ UNCHANGED do_cancel

Return(w) == WorkerMoves(w, "returning", "ended") /\ UNCHANGED <<running, do_cancel>>

(* pthread_cancel() acts at a cancellation point of the body, and the      *)
(* worker returns PTHREAD_CANCELED, where the C++ runtime lets it: if it   *)
(* unwinds the stack, the first catch(...) on the way clears running.      *)
Unwound(w) ==
    /\ WorkerMoves(w, "body", "ended")
    /\ w \in killed
    /\ UNCHANGED running \/ running' = FALSE
    /\ UNCHANGED do_cancel

Calls(c) == run(c) \/ join(c) \/ kill(c) \/ destroy(c)

CallerSteps(c) ==
    \/ run_publish(c) \/ JoinCall(c) \/ JoinWait(c) \/ JoinMark(c)
    \/ kill_cancel(c) \/ kill_mark(c) \/ destroy_end(c)

Next ==
    \/ \E c \in Callers :
          \/ Calls(c) \/ cancel(c) \/ set_stack_size(c) \/ reset_stack_size(c)
          \/ CallerSteps(c) \/ inherited_cancel(c)
    \/ \E w \in Workers :
          \/ run_obj(w) \/ cancellation_checkpoint(w) \/ inherited_run(w)
          \/ ClearRunning(w) \/ Return(w) \/ Unwound(w)

Spec == Init /\ [][Next]_vars

-----------------------------------------------------------------------------
TypeOK ==
    /\ field_control \in Callers \cup {NoThread}
    /\ running \in BOOLEAN /\ joignable \in BOOLEAN /\ do_cancel \in BOOLEAN
    /\ tid \in 0 .. MaxRuns
    /\ stack \in 0 .. MaxStacks
    /\ freed \subseteq 1 .. MaxStacks
    /\ pc \in [Callers -> Labels]
    /\ target \in [Callers -> 0 .. MaxRuns]
    /\ alive \in {"yes", "dying", "no"}
    /\ worker \in [Workers -> Stages]
    /\ on_stack \in [Workers -> 0 .. MaxStacks]
    /\ joiner \in [Workers -> Callers \cup {NoThread}]
    /\ killed \subseteq Workers

(* Outside run() and kill(), running says whether a worker has still to go *)
(* through inherited_run(), killed ones apart: the worker cannot clear it  *)
(* before run() has set it (thread.cpp:180-183, 281, 335-336).             *)
RunningIsExact ==
    field_control = NoThread /\ (\A c \in Callers : pc[c] # "kill_mark") =>
        (running <=> \E w \in Workers \ killed : worker[w] \in Active)

(* run() never overwrites the tid of a worker that nobody has joined, so   *)
(* each is joined once (thread.cpp:147-148, 180).                          *)
NoWorkerForgotten ==
    field_control = NoThread =>
        \A w \in Workers : worker[w] \notin {"none", "joined"} => joignable /\ tid = w

(* The destructor does not return while a worker may touch the object.     *)
DestroyedIsQuiet ==
    alive = "no" => \A w \in Workers : worker[w] \in {"none", "joined"}

(* "this method must not be called when the current object has its thread  *)
(* running" (thread.hpp:125), and the code throws if running: so the stack *)
(* of a worker is never deleted under it.                                  *)
StackOutlivesWorker ==
    \A w \in Workers :
        worker[w] \in Active \cup {"returning"} => on_stack[w] \notin freed

=============================================================================
