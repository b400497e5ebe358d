------------------------------- MODULE Ratelier -------------------------------
(***************************************************************************)
(* A ratelier_scatter and a ratelier_gather as their headers use them: one *)
(* thread scatters objects 0, 1, 2..., workers take and push them, another *)
(* thread gathers them.                                                    *)
(***************************************************************************)
EXTENDS Integers, FiniteSets, Sequences

CONSTANTS
    Workers, Scattering, Gathering,     \* the threads
    NoThread,
    ScatterSize, GatherSize,            \* the sizes given to the constructors
    IndexSize,
    Total,                              \* bound of the model: objects scattered
    NoObject

Objects == 0 .. Total - 1
Instances == {0, 1}

VARIABLES
    s_holder, s_blocked, s_woken, s_counter, s_spurious,
    s_next_index, lowest_index, s_table, s_corres, s_empty_slot,
    g_holder, g_blocked, g_woken, g_counter, g_spurious,
    g_next_index, g_table, g_corres, g_empty_slot,
    hand, gathered, raised, pc,
    sent        \* how many times scatter() has returned or thrown

scatterSide == <<s_holder, s_blocked, s_woken, s_counter, s_spurious,
                 s_next_index, lowest_index, s_table, s_corres, s_empty_slot>>
gatherSide == <<g_holder, g_blocked, g_woken, g_counter, g_spurious,
                g_next_index, g_table, g_corres, g_empty_slot>>
vars == <<scatterSide, gatherSide, hand, gathered, raised, pc, sent>>

Threads == Workers \cup {Scattering, Gathering}

Scatter == INSTANCE RatelierScatter WITH
    TableSize <- ScatterSize, holder <- s_holder, blocked <- s_blocked, woken <- s_woken,
    counter <- s_counter, spurious <- s_spurious, next_index <- s_next_index,
    table <- s_table, corres <- s_corres, empty_slot <- s_empty_slot

Gather == INSTANCE RatelierGather WITH
    TableSize <- GatherSize, holder <- g_holder, blocked <- g_blocked, woken <- g_woken,
    counter <- g_counter, spurious <- g_spurious, next_index <- g_next_index,
    table <- g_table, corres <- g_corres, empty_slot <- g_empty_slot

(* At any time the objects between scatter() and gather() have indexes of  *)
(* their own (ratelier_scatter.hpp:80-81).                                 *)
ASSUME RatelierAssumption ==
    /\ Scatter!ScatterAssumption /\ Gather!GatherAssumption
    /\ Workers # {} /\ IsFiniteSet(Workers)
    /\ ScatterSize + Cardinality(Workers) + GatherSize <= IndexSize
    /\ Total \in Nat
    /\ Scattering \notin Workers /\ Gathering \notin Workers /\ Scattering # Gathering

Labels == {"out", "scatter", "scatter_wait", "get", "get_wait", "got",
           "push", "push_wait", "gather", "gather_wait"}

Init ==
    /\ Scatter!ScatterInit
    /\ Gather!GatherInit
    /\ hand = [w \in Workers |-> <<>>]
    /\ gathered = <<>>
    /\ raised = FALSE
    /\ pc = [t \in Threads |-> "out"]
    /\ sent = 0

-----------------------------------------------------------------------------
(* The scattering thread *)
CallScatter ==
    /\ pc[Scattering] = "out"
    /\ sent < Total
    /\ Scatter!ScatterLock(Scattering, "scatter")
    /\ UNCHANGED <<gatherSide, gathered, sent>>

InScatter ==
    /\ \/ Scatter!ScatterWait(Scattering) /\ UNCHANGED sent
       \/ Scatter!ScatterResume(Scattering, Scatter!CondFull, "scatter_wait", "scatter")
            /\ UNCHANGED sent
       \/ Scatter!scatter(Scattering, sent) /\ sent' = sent + 1
    /\ UNCHANGED <<gatherSide, gathered>>

(* A worker, for ever: worker_get_one(), then worker_push_one() *)
CallGet(w) ==
    /\ pc[w] = "out"
    /\ Scatter!ScatterLock(w, "get")
    /\ UNCHANGED <<gatherSide, gathered, sent>>

InGet(w) ==
    /\ \/ Scatter!GetWait(w)
       \/ Scatter!ScatterResume(w, Scatter!CondEmpty, "get_wait", "get")
       \/ Scatter!worker_get_one(w)
    /\ UNCHANGED <<gatherSide, gathered, sent>>

CallPush(w) ==
    /\ pc[w] = "got"
    /\ hand[w] # <<>>
    /\ Gather!GatherLock(w, "push")
    /\ UNCHANGED <<scatterSide, sent>>

InPush(w) ==
    /\ \/ Gather!PushWait(w)
       \/ Gather!GatherResume(w, Gather!CondFull, "push_wait", "push")
       \/ Gather!worker_push_one(w)
    /\ UNCHANGED <<scatterSide, sent>>

(* The gathering thread, for ever *)
CallGather ==
    /\ pc[Gathering] = "out"
    /\ Gather!GatherLock(Gathering, "gather")
    /\ UNCHANGED <<scatterSide, sent>>

InGather ==
    /\ \/ Gather!GatherWait(Gathering)
       \/ Gather!GatherResume(Gathering, Gather!CondPendingData, "gather_wait", "gather")
       \/ Gather!gather(Gathering)
    /\ UNCHANGED <<scatterSide, sent>>

WakeUnasked ==
    \/ /\ \E t \in Threads, i \in Instances : Scatter!SpuriousWakeup(t, i)
       /\ UNCHANGED <<s_next_index, lowest_index, s_table, s_corres, s_empty_slot,
                      gatherSide, hand, gathered, raised, pc, sent>>
    \/ /\ \E t \in Threads, i \in Instances : Gather!SpuriousWakeup(t, i)
       /\ UNCHANGED <<scatterSide, g_next_index, g_table, g_corres, g_empty_slot,
                      hand, gathered, raised, pc, sent>>

(* Both objects are reset between two streams, whatever they still hold,   *)
(* while nobody is inside a call.                                          *)
Reset ==
    /\ \A t \in Threads : pc[t] = "out"
    /\ Scatter!ScatterReset /\ Gather!GatherReset
    /\ sent' = 0 /\ gathered' = <<>>
    /\ UNCHANGED <<s_holder, s_blocked, s_woken, s_counter, s_spurious,
                   g_holder, g_blocked, g_woken, g_counter, g_spurious, hand, raised, pc>>

WorkerSteps(w) == CallGet(w) \/ InGet(w) \/ CallPush(w) \/ InPush(w)

Next ==
    \/ CallScatter \/ InScatter
    \/ \E w \in Workers : WorkerSteps(w)
    \/ CallGather \/ InGather
    \/ WakeUnasked \/ Reset

Spec == Init /\ [][Next]_vars

(* A call that has begun goes on, the workers and the gathering thread     *)
(* call again; a thread that asks for a mutex gets it in the end, however  *)
(* often others take it before (POSIX scheduling, no thread is starved).   *)
FairSpec ==
    /\ Spec
    /\ SF_vars(InScatter)
    /\ \A w \in Workers : SF_vars(WorkerSteps(w))
    /\ SF_vars(CallGather \/ InGather)

-----------------------------------------------------------------------------
(* The types of both classes and the sharing of their slots: none is lost, *)
(* none used twice, none is left filled by reset() (ratelier_scatter.hpp:  *)
(* 250-264, ratelier_gather.hpp:287-300).                                  *)
TypeOK ==
    /\ Scatter!ScatterTypeOK /\ Gather!GatherTypeOK
    /\ \A w \in Workers : hand[w] \in {<<>>} \cup (0 .. IndexSize - 1) \X Objects
    /\ Len(gathered) <= Total
    /\ raised \in BOOLEAN
    /\ pc \in [Threads -> Labels]
    /\ sent \in 0 .. Total

(* The two classes, whose tables are read through their maps, implement    *)
(* the ordered pipe: objects come out in the order of scatter(), each      *)
(* once, however the workers overtake each other and wherever the index    *)
(* wraps (ratelier_gather.hpp:50-55).                                      *)
Ordered == INSTANCE OrderedPipe WITH
    ScatterRoom <- ScatterSize, GatherRoom <- GatherSize,
    waiting <- {s_table[s_corres[i]][2] : i \in DOMAIN s_corres},
    working <- [w \in Workers |-> IF hand[w] = <<>> THEN {} ELSE {hand[w][2]}],
    ready <- {g_table[g_corres[i]][2] : i \in DOMAIN g_corres}
PipeSpec == Ordered!Spec

(* No sanity check of either class fails and no index is pushed while it   *)
(* is in use: a slot to fill is empty, one to read holds the object of its *)
(* index (ratelier_scatter.hpp:150-153, 201-206, 215,                      *)
(* ratelier_gather.hpp:180-190, 241-248).                                  *)
NothingRaised == ~raised

(* A full ratelier_gather holds the object that gather() needs to make     *)
(* some room (ratelier_gather.hpp:172-175).                                *)
RoomCanBeMade == g_empty_slot = <<>> => g_next_index \in DOMAIN g_corres

(* Workers do not sleep over objects that nobody else comes for: scatter() *)
(* signals once per object (ratelier_scatter.hpp:166-167).                 *)
NoIdleWorker ==
    s_blocked[0] # {} =>
        Cardinality(DOMAIN s_corres)
            <= Cardinality(s_woken[0] \cup {w \in Workers : pc[w] = "get"})

(* Whenever the scattering thread pauses, which Total makes it do, all it  *)
(* has scattered is gathered in the end: nobody waits for a slot that only *)
(* its own object would free (ratelier_gather.hpp:115-116).                *)
Delivered == []<>(Len(gathered) = sent)

=============================================================================
