-------------------------------- MODULE Pipe --------------------------------
(***************************************************************************)
(* What fast_tampon promises to its two users: a bounded first-in,         *)
(* first-out queue of blocks.  The feeder has at most one block in hand,   *)
(* the fetcher at most one, which stays the oldest of the queue until it   *)
(* is recycled.                                                            *)
(***************************************************************************)
EXTENDS Naturals, Sequences

CONSTANTS
    Capacity,   \* how many fed blocks may be waiting or being read
    Sizes       \* the sizes a block may be given

VARIABLES
    queue,      \* the sizes of the blocks fed and not recycled
    feeding,    \* the feeder has a block: "no", "in hand" or "given" back
    offered,    \* the size of a block that is given back, 0 without one
    fetching,   \* the fetcher has the oldest block in hand
    got         \* the size the last fetch() returned

pipeVars == <<queue, feeding, offered, fetching, got>>

Init ==
    /\ queue = <<>>
    /\ feeding = "no"
    /\ offered = 0
    /\ fetching = FALSE
    /\ got = 0

Obtain ==
    /\ feeding = "no"
    /\ Len(queue) < Capacity
    /\ feeding' = "in hand"
    /\ UNCHANGED <<queue, offered, fetching, got>>

Give ==
    /\ feeding = "in hand"
    /\ feeding' = "given"
    /\ offered' \in Sizes
    /\ UNCHANGED <<queue, fetching, got>>

Commit ==
    /\ feeding = "given"
    /\ queue' = Append(queue, offered)
    /\ feeding' = "no"
    /\ offered' = 0
    /\ UNCHANGED <<fetching, got>>

Abandon ==
    /\ feeding = "in hand"
    /\ feeding' = "no"
    /\ UNCHANGED <<queue, offered, fetching, got>>

Borrow ==
    /\ ~fetching
    /\ queue # <<>>
    /\ fetching' = TRUE
    /\ got' = Head(queue)
    /\ UNCHANGED <<queue, feeding, offered>>

Consume ==
    /\ fetching
    /\ queue' = Tail(queue)
    /\ fetching' = FALSE
    /\ UNCHANGED <<feeding, offered, got>>

GiveBack ==
    /\ fetching
    /\ fetching' = FALSE
    /\ queue' = queue \/ \E s \in Sizes : queue' = [queue EXCEPT ![1] = s]
    /\ UNCHANGED <<feeding, offered, got>>

Clear ==
    /\ feeding # "given"
    /\ queue' = <<>> /\ feeding' = "no" /\ fetching' = FALSE
    /\ UNCHANGED <<offered, got>>

Next == Obtain \/ Give \/ Commit \/ Abandon \/ Borrow \/ Consume \/ GiveBack \/ Clear

Spec == Init /\ [][Next]_pipeVars

=============================================================================
