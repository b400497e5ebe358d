------------------------- MODULE ThreadSignal_proofs -------------------------
(***************************************************************************)
(* libthreadar::thread, for any number of callers and any number of runs:  *)
(* if one of the callers only runs, joins, kills and destroys the object,  *)
(* running tells whether its worker is at work, no worker is forgotten,    *)
(* and none is left when the destructor has returned.                      *)
(*                                                                         *)
(* libthreadar::thread_signal, for any number of callers, workers and      *)
(* signals: what thread guarantees, it still does with the steps that      *)
(* cancel() adds; what cancel() finds is not joined yet; and no signal     *)
(* ends the process before one has been sent at the wrong moment.          *)
(***************************************************************************)
EXTENDS ThreadSignal, TLAPS

OwnerLabels ==
    {"run_publish", "join_call", "join_wait", "join_mark", "clear", "pthread_cancel", "kill_mark"}

(* The other callers never are in one of the owner's methods, and          *)
(* field_control is kept from one step to the next by run() alone.         *)
OneOwner(o) ==
    /\ \A c \in Callers \ {o} : pc[c] \notin OwnerLabels
    /\ field_control = IF pc[o] = "run_publish" THEN o ELSE NoThread

(* All workers but the last one are joined, and nobody else has touched    *)
(* those to come.                                                          *)
OneAtATime ==
    \A w \in Workers :
        /\ w < tid => worker[w] = "joined"
        /\ w = tid => worker[w] # "none"
        /\ w > tid => worker[w] = "none" /\ joiner[w] = NoThread /\ w \notin killed

(* Until run() has published it, the worker is held back. *)
HeldBack(o) ==
    pc[o] = "run_publish" =>
        /\ ~running /\ ~joignable
        /\ tid > 0 /\ worker[tid] = "starting"
        /\ tid \notin killed /\ joiner[tid] = NoThread

(* Then joignable tells whether it has to be joined. *)
JoignableIsExact(o) ==
    pc[o] # "run_publish" =>
        /\ joignable <=> tid > 0 /\ (worker[tid] # "joined" \/ pc[o] = "join_mark")
        /\ joignable /\ pc[o] \notin {"join_wait", "join_mark"} => joiner[tid] = NoThread

(* Where the owner is says what has been done of its method. *)
OwnerIsAt(o) ==
    /\ pc[o] \in {"join_call", "join_wait", "pthread_cancel", "kill_mark"} =>
            joignable /\ worker[tid] # "joined"
    /\ pc[o] = "join_mark" => tid > 0 /\ worker[tid] = "joined"
    /\ pc[o] \in {"join_wait", "pthread_cancel"} => target[o] = tid
    /\ pc[o] = "kill_mark" => tid \in killed
    /\ pc[o] = "clear" => alive = "dying" /\ ~joignable
    /\ alive = "dying" => pc[o] \in {"join_call", "join_wait", "join_mark", "clear"}
    /\ alive = "no" => pc[o] = "out" /\ ~joignable

(* running is that of the last worker, unless kill() has cleared it or is  *)
(* about to.                                                               *)
RunningIsItsOwn(o) ==
    /\ tid = 0 => ~running
    /\ tid > 0 /\ tid \in killed /\ running => pc[o] = "kill_mark"
    /\ tid > 0 /\ tid \notin killed /\ pc[o] # "run_publish" =>
            (running <=> worker[tid] \in Active)

ThreadInv(o) ==
    /\ TypeOK
    /\ OneOwner(o)
    /\ OneAtATime
    /\ HeldBack(o)
    /\ JoignableIsExact(o)
    /\ OwnerIsAt(o)
    /\ RunningIsItsOwn(o)

-----------------------------------------------------------------------------
(* run() creates a worker only when the last one, if any, is joined. *)
LEMMA RunKeepsInv ==
    ASSUME NEW o \in Callers, Owners = {o}, ThreadInv(o),
           NEW c \in Callers, run(c)
    PROVE  ThreadInv(o)'
<1> USE ThreadAssumption DEF ThreadInv, TypeOK, Workers, Goto, OwnerLabels,
        fields, stackVars, callVars, workerVars, run, MayOwn, MayCall, Busy, Stage, FieldControl!Lock
<1>1. TypeOK'
  <2>1. running' \in BOOLEAN /\ joignable' \in BOOLEAN /\ do_cancel' \in BOOLEAN
      BY Zenon
  <2>2. pc' \in [Callers -> Labels]
      BY DEF Labels
  <2>3. target' \in [Callers -> 0 .. MaxRuns]
      OBVIOUS
  <2>4. worker' \in [Workers -> Stages] /\ joiner' \in [Workers -> Callers \cup {NoThread}]
      BY DEF OneOwner, OwnerIsAt, JoignableIsExact, Stages
  <2>5. tid + 1 \in Workers /\ stack \in 0 .. MaxStacks
      OBVIOUS
  <2>6. on_stack' \in [Workers -> 0 .. MaxStacks]
      BY <2>5
  <2>7. tid' \in 0 .. MaxRuns /\ field_control' \in Callers \cup {NoThread}
      OBVIOUS
  <2> QED
      BY <2>1, <2>2, <2>3, <2>4, <2>5, <2>6, <2>7
<1>2. OneOwner(o)'
    BY DEF OneOwner, OwnerIsAt
<1>3. OneAtATime'
    BY DEF OneOwner, OneAtATime, OwnerIsAt, JoignableIsExact, RunningIsItsOwn, HeldBack
<1>4. HeldBack(o)' /\ JoignableIsExact(o)'
    BY DEF OneOwner, OneAtATime, HeldBack, JoignableIsExact, OwnerIsAt, RunningIsItsOwn, Active
<1>5. OwnerIsAt(o)'
    BY DEF OneOwner, OneAtATime, HeldBack, JoignableIsExact, OwnerIsAt, RunningIsItsOwn, Active
<1>6. RunningIsItsOwn(o)'
    BY DEF OneOwner, OneAtATime, HeldBack, JoignableIsExact, OwnerIsAt, RunningIsItsOwn, Active
<1> QED
    BY <1>1, <1>2, <1>3, <1>4, <1>5, <1>6

(* run() makes the worker known before it lets it go. *)
LEMMA PublishKeepsInv ==
    ASSUME NEW o \in Callers, Owners = {o}, ThreadInv(o),
           NEW c \in Callers, run_publish(c)
    PROVE  ThreadInv(o)'
<1> USE ThreadAssumption DEF ThreadInv, TypeOK, Workers, Goto, OwnerLabels,
        fields, stackVars, callVars, workerVars, run_publish, FieldControl!Unlock
<1>1. TypeOK'
    BY DEF OneOwner, OneAtATime, OwnerIsAt, Labels, Stages
<1>2. OneOwner(o)'
    BY DEF OneOwner, OwnerIsAt
<1>3. OneAtATime'
    BY DEF OneOwner, OneAtATime, OwnerIsAt, JoignableIsExact, RunningIsItsOwn, HeldBack
<1>4. HeldBack(o)' /\ JoignableIsExact(o)'
    BY DEF OneOwner, OneAtATime, HeldBack, JoignableIsExact, OwnerIsAt, RunningIsItsOwn, Active
<1>5. OwnerIsAt(o)'
    BY DEF OneOwner, OneAtATime, HeldBack, JoignableIsExact, OwnerIsAt, RunningIsItsOwn, Active
<1>6. RunningIsItsOwn(o)'
    BY DEF OneOwner, OneAtATime, HeldBack, JoignableIsExact, OwnerIsAt, RunningIsItsOwn, Active
<1> QED
    BY <1>1, <1>2, <1>3, <1>4, <1>5, <1>6

(* join() is past its test only with a worker to wait for. *)
LEMMA JoinKeepsInv ==
    ASSUME NEW o \in Callers, Owners = {o}, ThreadInv(o),
           NEW c \in Callers, join(c) \/ JoinCall(c)
    PROVE  ThreadInv(o)'
<1> USE ThreadAssumption DEF ThreadInv, TypeOK, Workers, Goto, OwnerLabels,
        fields, stackVars, callVars, workerVars, join, JoinCall, JoinTest, MayOwn, MayCall
<1>1. TypeOK'
  <2>1. running' \in BOOLEAN /\ joignable' \in BOOLEAN /\ do_cancel' \in BOOLEAN
      BY Zenon
  <2>2. pc' \in [Callers -> Labels]
      BY DEF Labels
  <2>3. target' \in [Callers -> 0 .. MaxRuns]
      OBVIOUS
  <2>4. worker' \in [Workers -> Stages] /\ joiner' \in [Workers -> Callers \cup {NoThread}]
      BY DEF OneOwner, OwnerIsAt, JoignableIsExact, Stages
  <2> QED
      BY <2>1, <2>2, <2>3, <2>4
<1>2. OneOwner(o)'
    BY DEF OneOwner, OwnerIsAt
<1>3. OneAtATime'
    BY DEF OneOwner, OneAtATime, OwnerIsAt, JoignableIsExact, RunningIsItsOwn, HeldBack
<1>4. HeldBack(o)' /\ JoignableIsExact(o)'
    BY DEF OneOwner, OneAtATime, HeldBack, JoignableIsExact, OwnerIsAt, RunningIsItsOwn, Active
<1>5. OwnerIsAt(o)'
    BY DEF OneOwner, OneAtATime, HeldBack, JoignableIsExact, OwnerIsAt, RunningIsItsOwn, Active
<1>6. RunningIsItsOwn(o)'
    BY DEF OneOwner, OneAtATime, HeldBack, JoignableIsExact, OwnerIsAt, RunningIsItsOwn, Active
<1> QED
    BY <1>1, <1>2, <1>3, <1>4, <1>5, <1>6

(* pthread_join() returns, and join() marks it. *)
LEMMA JoinEndsKeepsInv ==
    ASSUME NEW o \in Callers, Owners = {o}, ThreadInv(o),
           NEW c \in Callers, JoinWait(c) \/ JoinMark(c)
    PROVE  ThreadInv(o)'
<1> USE ThreadAssumption DEF ThreadInv, TypeOK, Workers, Goto, OwnerLabels,
        fields, stackVars, callVars, workerVars, JoinWait, JoinMark, JoinOver, Stage
<1>1. TypeOK'
  <2>1. running' \in BOOLEAN /\ joignable' \in BOOLEAN /\ do_cancel' \in BOOLEAN
      BY Zenon
  <2>2. pc' \in [Callers -> Labels]
      BY DEF Labels
  <2>3. worker' \in [Workers -> Stages] /\ joiner' \in [Workers -> Callers \cup {NoThread}]
      BY DEF OneOwner, OwnerIsAt, JoignableIsExact, Stages
  <2>4. 0 \in 0 .. MaxStacks /\ 0 \in 0 .. MaxRuns
      OBVIOUS
  <2>5. target' \in [Callers -> 0 .. MaxRuns]
      BY <2>4
  <2>6. on_stack' \in [Workers -> 0 .. MaxStacks]
    <3>1. on_stack' = on_stack \/ on_stack' = [on_stack EXCEPT ![target[c]] = 0]
        BY Zenon DEF JoinWait, JoinMark, workerVars
    <3>2. on_stack \in [Workers -> 0 .. MaxStacks]
        BY Zenon DEF ThreadInv, TypeOK
    <3> QED
        BY ONLY <2>4, <3>1, <3>2
  <2> QED
      BY <2>1, <2>2, <2>3, <2>4, <2>5, <2>6
<1>2. OneOwner(o)'
    BY DEF OneOwner, OwnerIsAt
<1>3. OneAtATime'
    BY DEF OneOwner, OneAtATime, OwnerIsAt, JoignableIsExact, RunningIsItsOwn, HeldBack
<1>4. HeldBack(o)' /\ JoignableIsExact(o)'
    BY DEF OneOwner, OneAtATime, HeldBack, JoignableIsExact, OwnerIsAt, RunningIsItsOwn, Active
<1>5. OwnerIsAt(o)'
    BY DEF OneOwner, OneAtATime, HeldBack, JoignableIsExact, OwnerIsAt, RunningIsItsOwn, Active
<1>6. RunningIsItsOwn(o)'
    BY DEF OneOwner, OneAtATime, HeldBack, JoignableIsExact, OwnerIsAt, RunningIsItsOwn, Active
<1> QED
    BY <1>1, <1>2, <1>3, <1>4, <1>5, <1>6

(* kill() finds the last worker and clears running for it. *)
LEMMA KillKeepsInv ==
    ASSUME NEW o \in Callers, Owners = {o}, ThreadInv(o),
           NEW c \in Callers, kill(c) \/ kill_cancel(c) \/ kill_mark(c)
    PROVE  ThreadInv(o)'
<1> USE ThreadAssumption DEF ThreadInv, TypeOK, Workers, Goto, OwnerLabels,
        fields, stackVars, callVars, workerVars, kill, kill_cancel, kill_mark, IsRunning, MayOwn, MayCall
<1>1. TypeOK'
  <2>1. running' \in BOOLEAN /\ joignable' \in BOOLEAN /\ do_cancel' \in BOOLEAN
      BY Zenon
  <2>2. pc' \in [Callers -> Labels]
      BY DEF Labels
  <2>3. target' \in [Callers -> 0 .. MaxRuns]
      OBVIOUS
  <2>4. pc[c] = "pthread_cancel" => target[c] \in Workers
      BY DEF OneOwner, OwnerIsAt, JoignableIsExact
  <2>5. killed' \subseteq Workers
      BY <2>4
  <2> QED
      BY <2>1, <2>2, <2>3, <2>4, <2>5
<1>2. OneOwner(o)'
    BY DEF OneOwner, OwnerIsAt
<1>3. OneAtATime'
    BY DEF OneOwner, OneAtATime, OwnerIsAt, JoignableIsExact, RunningIsItsOwn, HeldBack
<1>4. HeldBack(o)' /\ JoignableIsExact(o)'
    BY DEF OneOwner, OneAtATime, HeldBack, JoignableIsExact, OwnerIsAt, RunningIsItsOwn, Active
<1>5. OwnerIsAt(o)'
    BY DEF OneOwner, OneAtATime, HeldBack, JoignableIsExact, OwnerIsAt, RunningIsItsOwn, Active
<1>6. RunningIsItsOwn(o)'
    BY DEF OneOwner, OneAtATime, HeldBack, JoignableIsExact, OwnerIsAt, RunningIsItsOwn, Active
<1> QED
    BY <1>1, <1>2, <1>3, <1>4, <1>5, <1>6

(* The destructor begins with nobody else inside, and ends with the last worker joined. *)
LEMMA DestroyKeepsInv ==
    ASSUME NEW o \in Callers, Owners = {o}, ThreadInv(o),
           NEW c \in Callers, destroy(c) \/ destroy_end(c)
    PROVE  ThreadInv(o)'
<1> USE ThreadAssumption DEF ThreadInv, TypeOK, Workers, Goto, OwnerLabels,
        fields, stackVars, callVars, workerVars, destroy, destroy_end, JoinTest, MayOwn, MayCall, ClearStack
<1>1. TypeOK'
  <2>1. running' \in BOOLEAN /\ joignable' \in BOOLEAN /\ do_cancel' \in BOOLEAN
      BY Zenon
  <2>2. pc' \in [Callers -> Labels]
      BY DEF Labels
  <2>3. target' \in [Callers -> 0 .. MaxRuns]
      OBVIOUS
  <2>4. {stack} \ {0} \subseteq 1 .. MaxStacks
      OBVIOUS
  <2>5. freed' \subseteq 1 .. MaxStacks
      BY <2>4
  <2>6. stack' \in 0 .. MaxStacks /\ alive' \in {"yes", "dying", "no"}
      OBVIOUS
  <2> QED
      BY <2>1, <2>2, <2>3, <2>4, <2>5, <2>6
<1>2. OneOwner(o)'
    BY DEF OneOwner, OwnerIsAt
<1>3. OneAtATime'
    BY DEF OneOwner, OneAtATime, OwnerIsAt, JoignableIsExact, RunningIsItsOwn, HeldBack
<1>4. HeldBack(o)' /\ JoignableIsExact(o)'
    BY DEF OneOwner, OneAtATime, HeldBack, JoignableIsExact, OwnerIsAt, RunningIsItsOwn, Active
<1>5. OwnerIsAt(o)'
    BY DEF OneOwner, OneAtATime, HeldBack, JoignableIsExact, OwnerIsAt, RunningIsItsOwn, Active
<1>6. RunningIsItsOwn(o)'
    BY DEF OneOwner, OneAtATime, HeldBack, JoignableIsExact, OwnerIsAt, RunningIsItsOwn, Active
<1> QED
    BY <1>1, <1>2, <1>3, <1>4, <1>5, <1>6

(* cancel() touches nothing but the request. *)
LEMMA CancelKeepsInv ==
    ASSUME NEW o \in Callers, Owners = {o}, ThreadInv(o),
           NEW c \in Callers, cancel(c) \/ inherited_cancel(c)
    PROVE  ThreadInv(o)'
<1> USE ThreadAssumption DEF ThreadInv, TypeOK, Workers, Goto, OwnerLabels,
        fields, stackVars, callVars, workerVars, cancel, inherited_cancel, MayCall
<1>1. TypeOK'
    BY DEF OneOwner, OneAtATime, OwnerIsAt, Labels, Stages
<1>2. OneOwner(o)'
    BY DEF OneOwner, OwnerIsAt
<1>3. OneAtATime'
    BY DEF OneOwner, OneAtATime, OwnerIsAt, JoignableIsExact, RunningIsItsOwn, HeldBack
<1>4. HeldBack(o)' /\ JoignableIsExact(o)'
    BY DEF OneOwner, OneAtATime, HeldBack, JoignableIsExact, OwnerIsAt, RunningIsItsOwn, Active
<1>5. OwnerIsAt(o)'
    BY DEF OneOwner, OneAtATime, HeldBack, JoignableIsExact, OwnerIsAt, RunningIsItsOwn, Active
<1>6. RunningIsItsOwn(o)'
    BY DEF OneOwner, OneAtATime, HeldBack, JoignableIsExact, OwnerIsAt, RunningIsItsOwn, Active
<1> QED
    BY <1>1, <1>2, <1>3, <1>4, <1>5, <1>6

(* Changing the stack touches nothing else. *)
LEMMA ResizeKeepsInv ==
    ASSUME NEW o \in Callers, Owners = {o}, ThreadInv(o),
           NEW c \in Callers, set_stack_size(c) \/ reset_stack_size(c)
    PROVE  ThreadInv(o)'
<1> USE ThreadAssumption DEF ThreadInv, TypeOK, Workers, Goto, OwnerLabels,
        fields, stackVars, callVars, workerVars, set_stack_size, reset_stack_size, MayResize, ClearStack, MayOwn, MayCall
<1>1. TypeOK'
  <2>1. running' \in BOOLEAN /\ joignable' \in BOOLEAN /\ do_cancel' \in BOOLEAN
      BY Zenon
  <2>2. {stack} \ {0} \subseteq 1 .. MaxStacks
      OBVIOUS
  <2>3. freed' \subseteq 1 .. MaxStacks
      BY <2>2
  <2>4. stack' \in 0 .. MaxStacks /\ alive' \in {"yes", "dying", "no"}
      OBVIOUS
  <2> QED
      BY <2>1, <2>2, <2>3, <2>4
<1>2. OneOwner(o)'
    BY DEF OneOwner, OwnerIsAt
<1>3. OneAtATime'
    BY DEF OneOwner, OneAtATime, OwnerIsAt, JoignableIsExact, RunningIsItsOwn, HeldBack
<1>4. HeldBack(o)' /\ JoignableIsExact(o)'
    BY DEF OneOwner, OneAtATime, HeldBack, JoignableIsExact, OwnerIsAt, RunningIsItsOwn, Active
<1>5. OwnerIsAt(o)'
    BY DEF OneOwner, OneAtATime, HeldBack, JoignableIsExact, OwnerIsAt, RunningIsItsOwn, Active
<1>6. RunningIsItsOwn(o)'
    BY DEF OneOwner, OneAtATime, HeldBack, JoignableIsExact, OwnerIsAt, RunningIsItsOwn, Active
<1> QED
    BY <1>1, <1>2, <1>3, <1>4, <1>5, <1>6

(* A worker at work is the last one, and run() is over. *)
LEMMA WorkerKeepsInv ==
    ASSUME NEW o \in Callers, Owners = {o}, ThreadInv(o),
           NEW w \in Workers, \/ run_obj(w) \/ cancellation_checkpoint(w) \/ inherited_run(w)
           \/ ClearRunning(w) \/ Return(w) \/ Unwound(w)
    PROVE  ThreadInv(o)'
<1> USE ThreadAssumption DEF ThreadInv, TypeOK, Workers, Goto, OwnerLabels,
        fields, stackVars, callVars, workerVars, run_obj, cancellation_checkpoint, inherited_run, ClearRunning, Return, Unwound, WorkerMoves, Stage
<1>1. TypeOK'
    BY DEF OneOwner, OneAtATime, OwnerIsAt, Labels, Stages
<1>2. OneOwner(o)'
    BY DEF OneOwner, OwnerIsAt
<1>3. OneAtATime'
    BY DEF OneOwner, OneAtATime, OwnerIsAt, JoignableIsExact, RunningIsItsOwn, HeldBack
<1>4. HeldBack(o)' /\ JoignableIsExact(o)'
    BY DEF OneOwner, OneAtATime, HeldBack, JoignableIsExact, OwnerIsAt, RunningIsItsOwn, Active
<1>5. OwnerIsAt(o)'
    BY DEF OneOwner, OneAtATime, HeldBack, JoignableIsExact, OwnerIsAt, RunningIsItsOwn, Active
<1>6. RunningIsItsOwn(o)'
    BY DEF OneOwner, OneAtATime, HeldBack, JoignableIsExact, OwnerIsAt, RunningIsItsOwn, Active
<1> QED
    BY <1>1, <1>2, <1>3, <1>4, <1>5, <1>6

-----------------------------------------------------------------------------
(* Nothing has been created yet. *)
LEMMA InitInv ==
    ASSUME NEW o \in Callers, Init
    PROVE  ThreadInv(o)
<1> USE ThreadAssumption DEF Init, ThreadInv, Workers, FieldControl!MutexInit, OwnerLabels
<1>1. TypeOK
  <2>1. running \in BOOLEAN /\ joignable \in BOOLEAN /\ do_cancel \in BOOLEAN
      BY Zenon
  <2> QED
      BY <2>1 DEF TypeOK, Labels, Stages
<1>2. OneOwner(o) /\ OneAtATime /\ HeldBack(o)
    BY DEF OneOwner, OneAtATime, HeldBack
<1>3. JoignableIsExact(o) /\ OwnerIsAt(o) /\ RunningIsItsOwn(o)
    BY DEF JoignableIsExact, OwnerIsAt, RunningIsItsOwn
<1> QED
    BY <1>1, <1>2, <1>3

(* No step of Thread breaks the invariant. *)
LEMMA NextKeepsInv ==
    ASSUME NEW o \in Callers, Owners = {o}, ThreadInv(o), [Next]_vars
    PROVE  ThreadInv(o)'
<1>1. CASE \E c \in Callers : Calls(c) \/ cancel(c) \/ set_stack_size(c) \/ reset_stack_size(c)
    BY <1>1, RunKeepsInv, JoinKeepsInv, KillKeepsInv, DestroyKeepsInv, CancelKeepsInv,
       ResizeKeepsInv DEF Calls
<1>2. CASE \E c \in Callers : CallerSteps(c) \/ inherited_cancel(c)
    BY <1>2, PublishKeepsInv, JoinKeepsInv, JoinEndsKeepsInv, KillKeepsInv, DestroyKeepsInv,
       CancelKeepsInv DEF CallerSteps
<1>3. CASE \E w \in Workers :
             \/ run_obj(w) \/ cancellation_checkpoint(w) \/ inherited_run(w)
             \/ ClearRunning(w) \/ Return(w) \/ Unwound(w)
    BY <1>3, WorkerKeepsInv
<1>4. CASE UNCHANGED vars
    BY <1>4 DEF ThreadInv, TypeOK, OneOwner, OneAtATime, HeldBack, JoignableIsExact,
       OwnerIsAt, RunningIsItsOwn, vars, fields, stackVars, callVars, workerVars
<1> QED
    BY <1>1, <1>2, <1>3, <1>4 DEF Next

(***************************************************************************)
(* What the invariant says of the three properties.                        *)
(***************************************************************************)
LEMMA InvImplies ==
    ASSUME NEW o \in Callers, Owners = {o}, ThreadInv(o)
    PROVE  RunningIsExact /\ NoWorkerForgotten /\ DestroyedIsQuiet
<1> USE ThreadAssumption DEF ThreadInv, TypeOK, OneOwner, OneAtATime, JoignableIsExact, Workers
<1>1. RunningIsExact
    BY DEF RunningIsExact, RunningIsItsOwn, Active
<1>2. NoWorkerForgotten
    BY DEF NoWorkerForgotten, OwnerIsAt
<1>3. DestroyedIsQuiet
    BY DEF DestroyedIsQuiet, OwnerIsAt
<1> QED
    BY <1>1, <1>2, <1>3

(***************************************************************************)
(* The invariant of a thread object with one owner.                        *)
(***************************************************************************)
THEOREM OwnedThread ==
    ASSUME NEW o \in Callers, Owners = {o}
    PROVE  Spec => []ThreadInv(o)
<1>1. Init => ThreadInv(o)
    BY InitInv
<1>2. ThreadInv(o) /\ [Next]_vars => ThreadInv(o)'
    BY NextKeepsInv
<1> QED
    BY <1>1, <1>2, PTL DEF Spec

(***************************************************************************)
(* running is exact whenever run() and kill() are not in between.          *)
(***************************************************************************)
THEOREM RunningTellsTheTruth ==
    ASSUME NEW o \in Callers, Owners = {o}
    PROVE  Spec => []RunningIsExact
<1>1. ThreadInv(o) => RunningIsExact
    BY InvImplies
<1> QED
    BY <1>1, OwnedThread, PTL

(***************************************************************************)
(* A worker that nobody has joined is the one that join() waits for.       *)
(***************************************************************************)
THEOREM WorkersAreJoined ==
    ASSUME NEW o \in Callers, Owners = {o}
    PROVE  Spec => []NoWorkerForgotten
<1>1. ThreadInv(o) => NoWorkerForgotten
    BY InvImplies
<1> QED
    BY <1>1, OwnedThread, PTL

(***************************************************************************)
(* The destructor outlasts every worker.                                   *)
(***************************************************************************)
THEOREM DestructorIsLast ==
    ASSUME NEW o \in Callers, Owners = {o}
    PROVE  Spec => []DestroyedIsQuiet
<1>1. ThreadInv(o) => DestroyedIsQuiet
    BY InvImplies
<1> QED
    BY <1>1, OwnedThread, PTL

-----------------------------------------------------------------------------

(* Outside change_default_signal() the signal in use has its handler, if   *)
(* it can have one.                                                        *)
HandlerInstalled ==
    /\ initialized => awaking_signal \in handled
    /\ changing = {} => initialized \/ awaking_signal \in Uncatchable

SentAreHandled == \A w \in Workers : pending[w] \subseteq handled

SignalInv ==
    /\ awaking_signal \in Signals
    /\ pending \in [Workers -> SUBSET Signals]
    /\ HandlerInstalled
    /\ ~exposed => SentAreHandled /\ ~terminated

-----------------------------------------------------------------------------
(* What cancel() adds changes nothing that the other methods rely on.      *)
LEMMA InCancelKeepsThreadInv ==
    ASSUME NEW o \in Callers, Owners = {o}, ThreadInv(o),
           NEW c \in Callers, InCancel(c)
    PROVE  ThreadInv(o)'
<1> USE ThreadAssumption DEF ThreadInv, TypeOK, Workers, Goto, OwnerLabels,
        fields, stackVars, callVars, workerVars, InCancel, signaled_inherited_cancel,
        send_signal, PthreadKill, CancelOver, IsRunning
<1>1. TypeOK'
  <2>1. running' \in BOOLEAN /\ joignable' \in BOOLEAN /\ do_cancel' \in BOOLEAN
      BY Zenon
  <2>2. pc' \in [Callers -> Labels]
      BY DEF Labels
  <2>3. target' = target \/ \E t \in {0, tid} : target' = [target EXCEPT ![c] = t]
      BY Zenon
  <2>4. target \in [Callers -> 0 .. MaxRuns] /\ {0, tid} \subseteq 0 .. MaxRuns
      OBVIOUS
  <2>5. target' \in [Callers -> 0 .. MaxRuns]
      BY ONLY <2>3, <2>4
  <2> QED
      BY <2>1, <2>2, <2>5
<1>2. OneOwner(o)'
    BY DEF OneOwner
<1>3. OneAtATime' /\ HeldBack(o)'
    BY DEF OneAtATime, HeldBack
<1>4. JoignableIsExact(o)'
    BY DEF JoignableIsExact
<1>5. OwnerIsAt(o)'
    BY DEF OwnerIsAt
<1>6. RunningIsItsOwn(o)'
    BY DEF RunningIsItsOwn, OwnerIsAt
<1> QED
    BY <1>1, <1>2, <1>3, <1>4, <1>5, <1>6

(* Every other step is one of thread, or leaves the object alone.          *)
LEMMA SignalNextKeepsThreadInv ==
    ASSUME NEW o \in Callers, Owners = {o}, ThreadInv(o), [SignalNext]_allVars
    PROVE  ThreadInv(o)'
<1>1. CASE \E c \in Callers : OfThread(Calls(c) \/ cancel(c)) \/ OfThread(CallerSteps(c))
    BY <1>1, NextKeepsInv DEF OfThread, Next
<1>2. CASE \E c \in Callers : InCancel(c)
    BY <1>2, InCancelKeepsThreadInv
<1>3. CASE \E w \in Workers :
             \/ run_obj_masked(w) \/ AtCheckpoint(w) \/ WorkerEnds(w)
             \/ OfThread(place[w] # "blocked" /\ inherited_run(w))
  <2>1. \E w \in Workers :
            \/ run_obj(w) \/ cancellation_checkpoint(w) \/ inherited_run(w)
            \/ ClearRunning(w) \/ Return(w) \/ Unwound(w)
      BY <1>3 DEF run_obj_masked, AtCheckpoint, WorkerEnds, OfThread
  <2> QED
      BY <2>1, NextKeepsInv DEF Next
<1>4. CASE UNCHANGED vars
    BY <1>4, NextKeepsInv
<1>5. CASE \E c \in Callers : CallerNext(c)
    BY <1>5, <1>1, <1>2, <1>4 DEF CallerNext, thread_signal, change_default_signal, change_end,
       set_signal_mask
<1>6. CASE \E w \in Workers : WorkerNext(w)
    BY <1>6, <1>3, <1>4 DEF WorkerNext, PassCheckpoint, Work, CallReturns, BodyMoves, handler
<1> QED
    BY <1>4, <1>5, <1>6 DEF SignalNext, allVars

(***************************************************************************)
(* thread keeps its invariant under thread_signal.                         *)
(***************************************************************************)
THEOREM SignaledThread ==
    ASSUME NEW o \in Callers, Owners = {o}
    PROVE  SignalSpec => []ThreadInv(o)
<1>1. SignalInit => ThreadInv(o)
    BY InitInv DEF SignalInit
<1>2. ThreadInv(o) /\ [SignalNext]_allVars => ThreadInv(o)'
    BY SignalNextKeepsThreadInv
<1> QED
    BY <1>1, <1>2, PTL DEF SignalSpec

(***************************************************************************)
(* The three properties of thread hold of a thread_signal.                 *)
(***************************************************************************)
THEOREM SignaledIsAThread ==
    ASSUME NEW o \in Callers, Owners = {o}
    PROVE  SignalSpec => [](RunningIsExact /\ NoWorkerForgotten /\ DestroyedIsQuiet)
<1>1. ThreadInv(o) => RunningIsExact /\ NoWorkerForgotten /\ DestroyedIsQuiet
    BY InvImplies
<1> QED
    BY <1>1, SignaledThread, PTL

-----------------------------------------------------------------------------
(* The search is the only step from one label to the other. *)
LEMMA OnlyTheSearch ==
    ASSUME pc \in [Callers -> Labels], [SignalNext]_allVars, NEW c \in Callers,
           pc[c] = "is_running", pc'[c] = "pthread_kill"
    PROVE  IsRunning(c, "pthread_kill")
<1>1. pc' # pc
    OBVIOUS
<1>2. ~ UNCHANGED allVars
    BY <1>1 DEF allVars, vars, callVars
<1>3. ASSUME NEW d \in Callers, Calls(d) \/ cancel(d) \/ CallerSteps(d)
      PROVE  FALSE
    BY <1>3 DEF Calls, CallerSteps, cancel, run, join, kill, destroy, run_publish, JoinCall,
       JoinWait, JoinMark, JoinOver, JoinTest, kill_cancel, kill_mark, destroy_end, IsRunning,
       MayOwn, MayCall, Goto, callVars
<1>4. ASSUME NEW d \in Callers, InCancel(d)
      PROVE  IsRunning(c, "pthread_kill")
    BY <1>4 DEF InCancel, signaled_inherited_cancel, send_signal, PthreadKill, CancelOver,
       IsRunning, Goto
<1>5. ASSUME NEW w \in Workers,
             \/ run_obj(w) \/ cancellation_checkpoint(w) \/ inherited_run(w)
             \/ ClearRunning(w) \/ Return(w) \/ Unwound(w)
      PROVE  UNCHANGED pc
    BY <1>5 DEF run_obj, cancellation_checkpoint, inherited_run, ClearRunning, Return,
       Unwound, WorkerMoves, callVars
<1>6. SignalNext
    BY <1>2
<1>7. CASE \E d \in Callers : OfThread(Calls(d) \/ cancel(d)) \/ OfThread(CallerSteps(d))
    BY <1>7, <1>3 DEF OfThread
<1>8. CASE \E d \in Callers : InCancel(d)
    BY <1>8, <1>4
<1>9. CASE UNCHANGED pc
    BY <1>9, <1>1
<1>10. CASE \E d \in Callers : CallerNext(d)
    BY <1>10, <1>7, <1>8, <1>9 DEF CallerNext, thread_signal, change_default_signal,
       change_end, set_signal_mask, vars, callVars
<1>11. ASSUME NEW w \in Workers, WorkerNext(w)
      PROVE  UNCHANGED pc
    BY <1>11, <1>5 DEF WorkerNext, run_obj_masked, AtCheckpoint, WorkerEnds, OfThread,
       PassCheckpoint, Work, CallReturns, BodyMoves, handler, vars, callVars
<1> QED
    BY <1>6, <1>9, <1>10, <1>11 DEF SignalNext

(***************************************************************************)
(* The worker that cancel() finds has not been joined.                     *)
(***************************************************************************)
THEOREM SearchFindsTheLast ==
    ASSUME NEW o \in Callers, Owners = {o}
    PROVE  SignalSpec => FoundIsNotJoined
<1>1. ASSUME ThreadInv(o), [SignalNext]_allVars,
             NEW c \in Callers, pc[c] = "is_running", pc'[c] = "pthread_kill"
      PROVE  worker[target'[c]] # "joined"
  <2>1. IsRunning(c, "pthread_kill")
      BY <1>1, OnlyTheSearch DEF ThreadInv, TypeOK
  <2>2. target'[c] = tid /\ running /\ field_control = NoThread
      BY <2>1, <1>1 DEF IsRunning, ThreadInv, TypeOK
  <2>3. pc[o] # "run_publish" /\ tid > 0
      BY <2>2, <1>1, ThreadAssumption DEF ThreadInv, TypeOK, OneOwner, RunningIsItsOwn
  <2>4. CASE tid \in killed
      BY <2>2, <2>3, <2>4, <1>1 DEF ThreadInv, RunningIsItsOwn, OwnerIsAt
  <2>5. CASE tid \notin killed
      BY <2>2, <2>3, <2>5, <1>1 DEF ThreadInv, RunningIsItsOwn, Active
  <2> QED
      BY <2>4, <2>5
<1>2. ThreadInv(o) /\ [SignalNext]_allVars =>
        [\A c \in Callers :
           pc[c] = "is_running" /\ pc'[c] = "pthread_kill" => worker[target'[c]] # "joined"]_allVars
    BY <1>1
<1> QED
    BY <1>2, SignaledThread, PTL DEF SignalSpec, FoundIsNotJoined

-----------------------------------------------------------------------------
(* set_signal_handler() never takes a handler away, and installs that of   *)
(* the signal in use if it can be caught.                                  *)
LEMMA HandlersStay ==
    ASSUME HandlerInstalled, set_signal_handler, UNCHANGED awaking_signal
    PROVE  /\ handled \subseteq handled'
           /\ initialized' => awaking_signal' \in handled'
           /\ initialized' \/ awaking_signal' \in Uncatchable
    BY DEF HandlerInstalled, set_signal_handler

(* The steps of thread and of the workers send no signal.                  *)
LEMMA OthersKeepInv ==
    ASSUME SignalInv, UNCHANGED <<setupVars, outcomeVars>>,
           pending' \in [Workers -> SUBSET Signals],
           \A w \in Workers : pending'[w] \subseteq pending[w]
    PROVE  SignalInv'
    BY DEF SignalInv, HandlerInstalled, SentAreHandled, setupVars, outcomeVars

(* A signal sent while nobody changes it, and that can be caught, has its  *)
(* handler.                                                                *)
LEMMA SendingKeepsInv ==
    ASSUME SignalInv, NEW c \in Callers, PthreadKill(c)
    PROVE  SignalInv'
<1>1. UNCHANGED <<setupVars, terminated>>
    BY DEF PthreadKill
<1>2. /\ pending' \in [Workers -> SUBSET Signals]
      /\ \A w \in Workers : pending'[w] \subseteq pending[w] \cup {awaking_signal}
    BY DEF PthreadKill, SignalInv
<1>3. ~exposed' => ~exposed /\ awaking_signal \in handled
    BY DEF PthreadKill, SignalInv, HandlerInstalled
<1> QED
    BY <1>1, <1>2, <1>3 DEF SignalInv, HandlerInstalled, SentAreHandled, setupVars

(* What a caller does leaves handled the signals that have been sent.      *)
LEMMA CallerKeepsInv ==
    ASSUME SignalInv, NEW c \in Callers, CallerNext(c)
    PROVE  SignalInv'
<1> USE DEF SignalInv
<1>1. CASE OfThread(Calls(c) \/ cancel(c)) \/ OfThread(CallerSteps(c))
    BY <1>1, OthersKeepInv DEF OfThread, signalVars, deliveryVars
<1>2. CASE signaled_inherited_cancel(c) \/ send_signal(c)
    BY <1>2, OthersKeepInv DEF signaled_inherited_cancel, send_signal, deliveryVars
<1>3. CASE PthreadKill(c)
    BY <1>3, SendingKeepsInv
<1>4. CASE thread_signal(c) \/ change_end(c)
  <2>1. UNCHANGED <<pending, outcomeVars, awaking_signal>> /\ set_signal_handler
      BY <1>4 DEF thread_signal, change_end, deliveryVars
  <2> QED
      BY <2>1, HandlersStay DEF HandlerInstalled, SentAreHandled, outcomeVars
<1>5. CASE \E sig \in Signals : change_default_signal(c, sig)
    BY <1>5 DEF change_default_signal, Published, deliveryVars, outcomeVars,
       HandlerInstalled, SentAreHandled
<1>6. CASE \E m \in Masks : set_signal_mask(c, m)
    BY <1>6, OthersKeepInv DEF set_signal_mask
<1> QED
    BY <1>1, <1>2, <1>3, <1>4, <1>5, <1>6 DEF CallerNext, InCancel

(* A signal that has its handler does not end the process.                 *)
LEMMA WorkerKeepsSignalInv ==
    ASSUME SignalInv, NEW w \in Workers, WorkerNext(w)
    PROVE  SignalInv'
<1> USE DEF SignalInv
<1>1. CASE handler(w)
  <2>1. UNCHANGED <<setupVars, exposed>>
      BY <1>1 DEF handler
  <2>2. PICK sig \in pending[w] :
            /\ pending' = [pending EXCEPT ![w] = @ \ {sig}]
            /\ terminated' = (sig \notin handled)
      BY <1>1 DEF handler
  <2>3. SentAreHandled => ~terminated'
      BY <2>2 DEF SentAreHandled
  <2> QED
      BY <2>1, <2>2, <2>3 DEF HandlerInstalled, SentAreHandled, setupVars
<1>2. CASE \/ run_obj_masked(w) \/ AtCheckpoint(w) \/ WorkerEnds(w)
           \/ OfThread(place[w] # "blocked" /\ inherited_run(w))
           \/ PassCheckpoint(w) \/ Work(w) \/ CallReturns(w)
  <2>1. UNCHANGED <<setupVars, outcomeVars>>
      BY <1>2 DEF run_obj_masked, AtCheckpoint, WorkerEnds, OfThread, PassCheckpoint, Work,
         CallReturns, BodyMoves, signalVars
  <2>2. pending' = pending \/ pending' = [pending EXCEPT ![w] = {}]
      BY <1>2 DEF run_obj_masked, AtCheckpoint, WorkerEnds, OfThread, PassCheckpoint, Work,
         CallReturns, BodyMoves, signalVars, deliveryVars
  <2> QED
      BY <2>1, <2>2, OthersKeepInv
<1> QED
    BY <1>1, <1>2 DEF WorkerNext

(***************************************************************************)
(* Whatever constructors, changes of the signal and calls of cancel()      *)
(* overlap, for any number of owners and any signals: a signal ends the    *)
(* process only after one was sent while change_default_signal() had still *)
(* to install its handler, or while the one in use cannot be caught.       *)
(***************************************************************************)
THEOREM ProcessEndsOnlyIfExposed ==
    SignalSpec => []TerminatedOnlyIfExposed
<1>1. SignalInit => SignalInv
    BY SignalAssumption DEF SignalInit, SignalInv, HandlerInstalled, SentAreHandled
<1>2. SignalInv /\ [SignalNext]_allVars => SignalInv'
  <2> SUFFICES ASSUME SignalInv, [SignalNext]_allVars PROVE SignalInv'
      OBVIOUS
  <2>1. CASE UNCHANGED allVars
      BY <2>1, OthersKeepInv DEF SignalInv, allVars, signalVars, deliveryVars
  <2>2. CASE SignalNext
      BY <2>2, CallerKeepsInv, WorkerKeepsSignalInv DEF SignalNext
  <2> QED
      BY <2>1, <2>2
<1>3. SignalInv => TerminatedOnlyIfExposed
    BY DEF SignalInv, TerminatedOnlyIfExposed
<1> QED
    BY <1>1, <1>2, <1>3, PTL DEF SignalSpec

-----------------------------------------------------------------------------
(* The types of what thread_signal adds to thread *)
SignalTypes ==
    /\ initialized \in BOOLEAN
    /\ awaking_signal \in Signals
    /\ handled \subseteq Signals \ Uncatchable
    /\ sigmask \subseteq Signals
    /\ mask \in [Workers -> SUBSET Signals]
    /\ pending \in [Workers -> SUBSET Signals]
    /\ place \in [Workers -> Places]
    /\ changing \subseteq Callers /\ catching \subseteq Callers
    /\ terminated \in BOOLEAN /\ exposed \in BOOLEAN

(* set_signal_handler() gives a handler to signals that can be caught only. *)
LEMMA HandlerTyped ==
    ASSUME SignalTypes, set_signal_handler
    PROVE  initialized' \in BOOLEAN /\ handled' \subseteq Signals \ Uncatchable
    BY DEF SignalTypes, set_signal_handler

(* A step of a caller keeps the types. *)
LEMMA CallerKeepsTypes ==
    ASSUME SignalTypes, NEW c \in Callers,
           CallerNext(c)
    PROVE  SignalTypes'
<1>1. CASE OfThread(Calls(c) \/ cancel(c)) \/ OfThread(CallerSteps(c))
    BY <1>1 DEF OfThread, SignalTypes, signalVars, setupVars, deliveryVars, outcomeVars
<1>2. CASE InCancel(c)
  <2>1. /\ UNCHANGED <<setupVars, sigmask, mask, place, terminated>>
        /\ catching' \subseteq catching \cup {c}
      BY <1>2 DEF InCancel, signaled_inherited_cancel, send_signal, PthreadKill, CancelOver,
         deliveryVars, outcomeVars
  <2>3. exposed' \in BOOLEAN
      BY <1>2 DEF InCancel, signaled_inherited_cancel, send_signal, PthreadKill, outcomeVars,
         SignalTypes
  <2>2. pending' \in [Workers -> SUBSET Signals]
      BY <1>2 DEF InCancel, signaled_inherited_cancel, send_signal, PthreadKill, deliveryVars,
         SignalTypes
  <2> QED
      BY <2>1, <2>2, <2>3 DEF SignalTypes, setupVars
<1>3. CASE thread_signal(c) \/ change_end(c)
  <2>1. /\ set_signal_handler /\ changing' \subseteq changing
        /\ UNCHANGED <<awaking_signal, deliveryVars, catching, outcomeVars>>
      BY <1>3 DEF thread_signal, change_end
  <2> QED
      BY <2>1, HandlerTyped DEF SignalTypes, deliveryVars, outcomeVars
<1>4. CASE \E sig \in Signals : change_default_signal(c, sig)
    BY <1>4 DEF change_default_signal, Published, SignalTypes, deliveryVars, outcomeVars
<1>5. CASE \E m \in Masks : set_signal_mask(c, m)
    BY <1>5, SignalAssumption DEF set_signal_mask, SignalTypes, setupVars, outcomeVars
<1> QED
    BY <1>1, <1>2, <1>3, <1>4, <1>5 DEF CallerNext

(* A step of a worker keeps the types. *)
LEMMA WorkerKeepsTypes ==
    ASSUME SignalTypes, NEW w \in Workers, WorkerNext(w)
    PROVE  SignalTypes'
<1> USE DEF SignalTypes, setupVars, deliveryVars, outcomeVars, signalVars
<1>1. CASE run_obj_masked(w)
    BY <1>1 DEF run_obj_masked
<1>2. CASE AtCheckpoint(w) \/ OfThread(place[w] # "blocked" /\ inherited_run(w))
    BY <1>2 DEF AtCheckpoint, OfThread
<1>3. CASE WorkerEnds(w)
    BY <1>3 DEF WorkerEnds, OfThread, At, Places
<1>4. CASE PassCheckpoint(w) \/ Work(w) \/ CallReturns(w)
    BY <1>4 DEF PassCheckpoint, Work, CallReturns, BodyMoves, At, Places
<1>5. CASE handler(w)
  <2>1. place' \in [Workers -> Places]
      BY <1>5 DEF handler, Interrupt, At, Places
  <2>2. pending' \in [Workers -> SUBSET Signals] /\ terminated' \in BOOLEAN
      BY <1>5 DEF handler
  <2> QED
      BY <1>5, <2>1, <2>2 DEF handler
<1> QED
    BY <1>1, <1>2, <1>3, <1>4, <1>5 DEF WorkerNext

(***************************************************************************)
(* The types, for one owner and any number of callers, workers and         *)
(* signals: in particular a handler is installed only for signals that     *)
(* sigaction() takes.                                                      *)
(***************************************************************************)
THEOREM SignalTypeCorrect ==
    ASSUME NEW o \in Callers, Owners = {o}
    PROVE  SignalSpec => []SignalTypeOK
<1>1. SignalInit => SignalTypes
    BY SignalAssumption DEF SignalInit, SignalTypes, Places
<1>2. SignalTypes /\ [SignalNext]_allVars => SignalTypes'
  <2> SUFFICES ASSUME SignalTypes, [SignalNext]_allVars PROVE SignalTypes'
      OBVIOUS
  <2>1. CASE UNCHANGED allVars
      BY <2>1 DEF allVars, signalVars, setupVars, deliveryVars, outcomeVars, SignalTypes
  <2>2. CASE SignalNext
      BY <2>2, CallerKeepsTypes, WorkerKeepsTypes DEF SignalNext
  <2> QED
      BY <2>1, <2>2
<1>3. SignalSpec => []ThreadInv(o)
    BY SignaledThread
<1>4. ThreadInv(o) /\ SignalTypes => SignalTypeOK
    BY DEF ThreadInv, SignalTypes, SignalTypeOK
<1> QED
    BY <1>1, <1>2, <1>3, <1>4, PTL DEF SignalSpec

=============================================================================
