----------------------------- MODULE ThreadSignal -----------------------------
(***************************************************************************)
(* libthreadar::thread_signal: a thread whose cancel() also sends a signal *)
(* to the worker, so that a system call it is suspended in returns.  The   *)
(* signal and its handler belong to the process: other objects, that only  *)
(* get constructed here, share them.                                       *)
(*                                                                         *)
(* inherited_run() is the user's and follows thread_signal.cpp:161-165: it *)
(* enters one system call at most between two checkpoints.                 *)
(***************************************************************************)
EXTENDS Thread

CONSTANTS
    Signals,
    DefaultSignal,  \* SIGUSR2
    Forbidden,      \* SIGCHLD and SIGKILL
    Uncatchable,    \* the signals sigaction() refuses, SIGKILL among them
    Masks,          \* bound of the model: the masks given to the object
    Aftermath       \* bound of the model: whether calls begin once exposed

ASSUME SignalAssumption ==
    /\ DefaultSignal \in Signals \ Uncatchable
    /\ Forbidden \subseteq Signals /\ Uncatchable \subseteq Signals
    /\ Masks \subseteq SUBSET Signals /\ Aftermath \in BOOLEAN

VARIABLES
    initialized, awaking_signal,
    handled,        \* the signals that have the handler
    sigmask,        \* the mask of the object, for its next worker
    mask,           \* mask[w]: the mask of worker w
    pending,        \* pending[w]: the signals sent to w, not delivered yet
    place,          \* place[w]: where w is between two checkpoints
    changing,       \* the callers inside change_default_signal(), past verrou
    catching,       \* the callers inside the catch(...) of inherited_cancel()
    terminated,     \* a signal has ended the process
    exposed         \* history: a signal was sent while a change was under
                    \* way, or when the one in use cannot be caught

deliveryVars == <<sigmask, mask, pending, place>>
setupVars == <<initialized, awaking_signal, handled, changing>>
outcomeVars == <<terminated, exposed>>
signalVars == <<setupVars, deliveryVars, catching, outcomeVars>>
allVars == <<vars, signalVars>>

Sending == {"inherited_cancel", "is_running", "pthread_kill"}
Places == {"checkpoint", "working", "blocked"}

(* The object and the first handler are constructed. *)
SignalInit ==
    /\ Init
    /\ initialized = TRUE /\ awaking_signal = DefaultSignal
    /\ handled = {DefaultSignal}
    /\ sigmask = {}
    /\ mask = [w \in Workers |-> {}]
    /\ pending = [w \in Workers |-> {}]
    /\ place = [w \in Workers |-> "checkpoint"]
    /\ changing = {} /\ catching = {}
    /\ terminated = FALSE /\ exposed = FALSE

Idle(c) == pc[c] = "out" /\ c \notin changing /\ (exposed => Aftermath)

-----------------------------------------------------------------------------
(***************************************************************************)
(* set_signal_handler(): all under verrou but a first test of initialized, *)
(* which is set last.  sigaction() fails for a signal that cannot be       *)
(* caught, and an exception is thrown.                                     *)
(***************************************************************************)
set_signal_handler ==
    IF initialized \/ awaking_signal \in Uncatchable
      THEN UNCHANGED <<initialized, handled>>
      ELSE initialized' = TRUE /\ handled' = handled \cup {awaking_signal}

(* Another object is constructed. *)
thread_signal(c) ==
    /\ Idle(c)
    /\ set_signal_handler
    /\ UNCHANGED <<vars, awaking_signal, changing, deliveryVars, catching, outcomeVars>>

(* Seeded fault: the new signal is published as if it had its handler. *)
Published_handled(sig) == awaking_signal' = sig /\ UNCHANGED initialized

Published(sig) == awaking_signal' = sig /\ initialized' = FALSE

(* change_default_signal(), under verrou: it is the signal in use that is  *)
(* compared with the forbidden ones.  The handler comes after verrou has   *)
(* been released.                                                          *)
change_default_signal(c, sig) ==
    /\ Idle(c)
    /\ awaking_signal \notin Forbidden
    /\ Published(sig)
    /\ changing' = changing \cup {c}
    /\ UNCHANGED <<vars, handled, deliveryVars, catching, outcomeVars>>

change_end(c) ==
    /\ c \in changing
    /\ set_signal_handler
    /\ changing' = changing \ {c}
    /\ UNCHANGED <<vars, awaking_signal, deliveryVars, catching, outcomeVars>>

-----------------------------------------------------------------------------
set_signal_mask(c, m) ==
    /\ MayOwn(c) /\ Idle(c)
    /\ awaking_signal \notin m
    /\ sigmask' = m
    /\ UNCHANGED <<vars, setupVars, mask, pending, place, catching, outcomeVars>>

(* inherited_cancel(): whatever signaled_inherited_cancel() throws, the    *)
(* signal is sent before it is thrown again, unless it is a cancel_except. *)
signaled_inherited_cancel(c) ==
    /\ pc[c] = "inherited_cancel"
    /\ \/ Goto(c, "is_running") /\ (UNCHANGED catching \/ catching' = catching \cup {c})
       \/ Goto(c, "out") /\ UNCHANGED catching
    /\ UNCHANGED <<field_control, fields, stackVars, target, alive, workerVars, setupVars,
                   deliveryVars, outcomeVars>>

CancelOver(c) ==
    /\ Goto(c, "out")
    /\ target' = [target EXCEPT ![c] = 0]
    /\ catching' = catching \ {c}

(* send_signal(), first half: is_running(id) *)
send_signal(c) ==
    /\ pc[c] = "is_running"
    /\ \/ IsRunning(c, "pthread_kill") /\ UNCHANGED catching
       \/ ~running /\ CancelOver(c)
    /\ UNCHANGED <<field_control, fields, stackVars, alive, workerVars, setupVars,
                   deliveryVars, outcomeVars>>

Live == {w \in Workers : worker[w] \in {"starting", "body", "leaving", "returning"}}

(* Whom a signal sent to worker w reaches: nobody if it has ended, and, as *)
(* its tid may have been given again, a later worker if it is joined.      *)
Reached(w) ==
    IF w \in Live THEN {w}
    ELSE {0} \cup {v \in Live : worker[w] = "joined" /\ v > w}

(***************************************************************************)
(* Second half.  pthread_kill() may report a worker that has ended; that   *)
(* makes inherited_cancel() send the signal once more before it throws.    *)
(***************************************************************************)
PthreadKill(c) ==
    /\ pc[c] = "pthread_kill"
    /\ LET w == target[c]
       IN \/ /\ \E v \in Reached(w) :
                   pending' = [u \in Workers |->
                                 IF u = v THEN pending[u] \cup {awaking_signal} ELSE pending[u]]
             /\ CancelOver(c)
          \/ /\ w \notin Live /\ c \notin catching
             /\ catching' = catching \cup {c}
             /\ Goto(c, "is_running")
             /\ UNCHANGED <<target, pending>>
    /\ exposed' = (exposed \/ changing # {} \/ awaking_signal \in Uncatchable)
    /\ UNCHANGED <<field_control, fields, stackVars, alive, workerVars, setupVars,
                   sigmask, mask, place, terminated>>

-----------------------------------------------------------------------------
At(w, p) == place' = [place EXCEPT ![w] = p]

run_obj_masked(w) ==
    /\ run_obj(w)
    /\ mask' = [mask EXCEPT ![w] = sigmask \ Uncatchable]
    /\ UNCHANGED <<setupVars, sigmask, pending, place, catching, outcomeVars>>

BodyMoves(w, from, to) ==
    /\ worker[w] = "body"
    /\ place[w] = from
    /\ At(w, to)
    /\ UNCHANGED <<vars, setupVars, sigmask, mask, pending, catching, outcomeVars>>

(* The checkpoint finds no request; *)
PassCheckpoint(w) == ~do_cancel /\ BodyMoves(w, "checkpoint", "working")

(* the body enters a system call, or comes to the next checkpoint; *)
Work(w) == BodyMoves(w, "working", "blocked") \/ BodyMoves(w, "working", "checkpoint")

(* and the system call returns when it likes, maybe never. *)
CallReturns(w) == BodyMoves(w, "blocked", "checkpoint")

(* Seeded fault: sa_flags has SA_RESTART. *)
Interrupt_restart(w) == UNCHANGED place

(* sa_flags is 0: the system call returns EINTR. *)
Interrupt(w) == IF place[w] = "blocked" THEN At(w, "checkpoint") ELSE UNCHANGED place

(* A signal whose handler is not installed ends the process.               *)
handler(w) ==
    /\ w \in Live
    /\ \E sig \in pending[w] \ mask[w] :
         /\ pending' = [pending EXCEPT ![w] = @ \ {sig}]
         /\ terminated' = (sig \notin handled)
    /\ Interrupt(w)
    /\ UNCHANGED <<vars, setupVars, sigmask, mask, catching, exposed>>

-----------------------------------------------------------------------------
OfThread(A) == A /\ UNCHANGED signalVars

InCancel(c) == signaled_inherited_cancel(c) \/ send_signal(c) \/ PthreadKill(c)

AtCheckpoint(w) == OfThread(place[w] = "checkpoint" /\ cancellation_checkpoint(w))

(* The system keeps nothing of a worker that has ended. *)
WorkerEnds(w) ==
    \/ OfThread(ClearRunning(w))
    \/ /\ Return(w) \/ Unwound(w)
       /\ mask' = [mask EXCEPT ![w] = {}]
       /\ pending' = [pending EXCEPT ![w] = {}]
       /\ At(w, "checkpoint")
       /\ UNCHANGED <<setupVars, sigmask, catching, outcomeVars>>

CallerNext(c) ==
    \/ Idle(c) /\ OfThread(Calls(c) \/ cancel(c))
    \/ OfThread(CallerSteps(c)) \/ InCancel(c)
    \/ thread_signal(c) \/ change_end(c)
    \/ \E sig \in Signals : change_default_signal(c, sig)
    \/ \E m \in Masks : set_signal_mask(c, m)

WorkerNext(w) ==
    \/ run_obj_masked(w) \/ AtCheckpoint(w) \/ WorkerEnds(w)
    \/ OfThread(place[w] # "blocked" /\ inherited_run(w))
    \/ PassCheckpoint(w) \/ Work(w) \/ CallReturns(w) \/ handler(w)

SignalNext ==
    /\ ~terminated
    /\ (\E c \in Callers : CallerNext(c)) \/ (\E w \in Workers : WorkerNext(w))

SignalSpec == SignalInit /\ [][SignalNext]_allVars

(***************************************************************************)
(* A call that has begun goes on, signals are delivered, and a worker that *)
(* is not suspended comes to its next checkpoint, as thread.hpp asks.      *)
(***************************************************************************)
CallsGoOn(c) == OfThread(CallerSteps(c)) \/ InCancel(c) \/ change_end(c)
WorkGoesOn(w) == run_obj_masked(w) \/ AtCheckpoint(w) \/ WorkerEnds(w) \/ Work(w)

FairSignalSpec ==
    /\ SignalSpec
    /\ \A c \in Callers : WF_allVars(~terminated /\ CallsGoOn(c))
    /\ \A w \in Workers :
          /\ WF_allVars(~terminated /\ WorkGoesOn(w))
          /\ WF_allVars(~terminated /\ handler(w))

-----------------------------------------------------------------------------
SignalTypeOK ==
    /\ TypeOK
    /\ initialized \in BOOLEAN
    /\ awaking_signal \in Signals
    /\ handled \subseteq Signals \ Uncatchable
    /\ sigmask \subseteq Signals
    /\ mask \in [Workers -> SUBSET Signals]
    /\ pending \in [Workers -> SUBSET Signals]
    /\ place \in [Workers -> Places]
    /\ changing \subseteq Callers /\ catching \subseteq Callers
    /\ terminated \in BOOLEAN /\ exposed \in BOOLEAN

(* Whatever constructors, changes of the signal and calls of cancel()      *)
(* overlap, a signal finds its handler missing, and ends the process, only *)
(* if one was sent while change_default_signal() had still to install it   *)
(* (thread_signal.cpp:76-85), or when the one in use cannot be caught,     *)
(* which 72 does not ask of the new signal (113, 123-142).                 *)
TerminatedOnlyIfExposed == terminated => exposed

(* cancel() finds a worker that nobody has joined yet, also while run()    *)
(* creates the next one; join() may still return before the signal is sent *)
(* (thread_signal.cpp:113-115, thread.cpp:195-214).                        *)
FoundIsNotJoined ==
    [][\A c \in Callers :
         pc[c] = "is_running" /\ pc'[c] = "pthread_kill" => worker[target'[c]] # "joined"]_allVars

Ended(w) == worker[w] \in {"ended", "joined"}

(* A worker asked to stop does, unless it was already past its checkpoint, *)
(* on its way to a system call that nothing interrupts: one that comes to  *)
(* a checkpoint, or that is suspended with a signal sent to it that it     *)
(* does not mask (thread.cpp:179, 290, 310, thread_signal.cpp:62, 113-115, *)
(* 138).                                                                   *)
CancelServes ==
    \A w \in Workers :
        /\ do_cancel
        /\ worker[w] \in {"starting", "body"}
        /\ \/ place[w] = "checkpoint"
           \/ place[w] = "blocked" /\ pending[w] \ mask[w] # {}
        ~> Ended(w) \/ terminated

(* The destructor, which cancels and joins but sends no signal, ends if no *)
(* worker was past its checkpoint (thread.cpp:66-67).                      *)
DestructorEnds ==
    alive = "dying" /\ (\A w \in Workers : place[w] = "checkpoint" \/ Ended(w))
        ~> alive = "no" \/ terminated

=============================================================================
