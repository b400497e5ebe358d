------------------------------- MODULE Permits -------------------------------
(***************************************************************************)
(* What freezer promises: lock() takes a permit or suspends, unlock() lets *)
(* exactly one suspended thread go or adds a permit, and a suspended       *)
(* thread goes on for no other reason, but for one: Escape.                *)
(***************************************************************************)
EXTENDS Integers

CONSTANTS
    Threads,
    Initial     \* the value after construction and after reset()

VARIABLES
    value,      \* the permits left; if negative, how many threads want one
    suspended,  \* the threads lock() has suspended
    released,   \* those of them that unlock() has let go
    escaped     \* whether one has ever gone on without

permitVars == <<value, suspended, released, escaped>>

Init ==
    /\ value = Initial
    /\ suspended = {}
    /\ released = {}
    /\ escaped = FALSE

Take(t) ==
    /\ t \notin suspended \cup released
    /\ value' = value - 1
    /\ suspended' = IF value > 0 THEN suspended ELSE suspended \cup {t}
    /\ UNCHANGED <<released, escaped>>

Return(t) ==
    /\ t \in released
    /\ released' = released \ {t}
    /\ UNCHANGED <<value, suspended, escaped>>

Give ==
    /\ value' = value + 1
    /\ \/ suspended = {} /\ UNCHANGED <<suspended, released>>
       \/ \E t \in suspended :
             /\ suspended' = suspended \ {t}
             /\ released' = released \cup {t}
    /\ UNCHANGED escaped

Reset ==
    /\ suspended = {}
    /\ value' = Initial
    /\ UNCHANGED <<suspended, released, escaped>>

(* The system may wake a suspended thread unasked: no permit is used.      *)
Escape(t) ==
    /\ t \in suspended
    /\ suspended' = suspended \ {t}
    /\ released' = released \cup {t}
    /\ escaped' = TRUE
    /\ UNCHANGED value

Next == Give \/ Reset \/ \E t \in Threads : Take(t) \/ Return(t) \/ Escape(t)

Spec == Init /\ [][Next]_permitVars

=============================================================================
