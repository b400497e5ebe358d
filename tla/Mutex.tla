------------------------------- MODULE Mutex -------------------------------
(***************************************************************************)
(* libthreadar::mutex: a pthread mutex with the default attributes.  The   *)
(* class records no owner, and semaphore, freezer and condition rely on    *)
(* it: one thread may release what another one locked.                     *)
(***************************************************************************)

CONSTANTS
    Threads,    \* the threads that call the object
    NoThread    \* the holder of a free mutex

ASSUME NoThreadAssumption == NoThread \notin Threads

VARIABLE holder \* the thread whose lock() or try_lock() succeeded last

MutexTypeOK == holder \in Threads \cup {NoThread}

MutexInit == holder = NoThread

(***************************************************************************)
(* lock() suspends its caller until this step is possible.                 *)
(***************************************************************************)
Lock(t) ==
    /\ holder = NoThread
    /\ holder' = t

(***************************************************************************)
(* unlock() asks nothing about the caller.  Releasing a mutex nobody holds *)
(* leaves a default pthread mutex as it is.                                *)
(***************************************************************************)
Unlock == holder' = NoThread

=============================================================================
