----------------------------- MODULE OrderedPipe -----------------------------
(***************************************************************************)
(* What a ratelier_scatter and a ratelier_gather promise together to the   *)
(* threads at both ends and to the workers between them: objects are       *)
(* numbered as they are scattered, workers take them first come first      *)
(* served and give them back in any order, and they come out as they went  *)
(* in, once each, within the room of the two tables.                       *)
(***************************************************************************)
EXTENDS Integers, Sequences, FiniteSets, FiniteSetsExt

CONSTANTS Workers, ScatterRoom, GatherRoom

VARIABLES
    sent,       \* how many objects have been scattered
    waiting,    \* those that no worker has taken
    working,    \* working[w]: the object w has in hand, or none
    ready,      \* those that are given back and not gathered
    gathered    \* what has come out, in order

pipeVars == <<sent, waiting, working, ready, gathered>>

Init ==
    /\ sent = 0
    /\ waiting = {} /\ ready = {}
    /\ working = [w \in Workers |-> {}]
    /\ gathered = <<>>

Put ==
    /\ Cardinality(waiting) < ScatterRoom
    /\ waiting' = waiting \cup {sent}
    /\ sent' = sent + 1
    /\ UNCHANGED <<working, ready, gathered>>

Take(w) ==
    /\ working[w] = {}
    /\ waiting # {}
    /\ working' = [working EXCEPT ![w] = {Min(waiting)}]
    /\ waiting' = waiting \ {Min(waiting)}
    /\ UNCHANGED <<sent, ready, gathered>>

GiveBack(w) ==
    /\ working[w] # {}
    /\ Cardinality(ready) < GatherRoom
    /\ ready' = ready \cup working[w]
    /\ working' = [working EXCEPT ![w] = {}]
    /\ UNCHANGED <<sent, waiting, gathered>>

(* Some or all of those that are ready and have no hole before them *)
ComeOut ==
    \E next \in ready :
        LET first == Len(gathered)
        IN /\ first <= next /\ first .. next \subseteq ready
           /\ gathered' = gathered \o [n \in 1 .. next - first + 1 |-> first + n - 1]
           /\ ready' = ready \ (first .. next)
           /\ UNCHANGED <<sent, waiting, working>>

(* Between two streams *)
Empty ==
    /\ \A w \in Workers : working[w] = {}
    /\ sent' = 0 /\ waiting' = {} /\ ready' = {} /\ gathered' = <<>>
    /\ UNCHANGED working

Next == Put \/ ComeOut \/ Empty \/ \E w \in Workers : Take(w) \/ GiveBack(w)

Spec == Init /\ [][Next]_pipeVars

=============================================================================
