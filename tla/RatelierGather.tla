---------------------------- MODULE RatelierGather ----------------------------
(***************************************************************************)
(* libthreadar::ratelier_gather: workers put objects, each with the index  *)
(* it was scattered under, in the slots of a table; one thread takes those *)
(* whose indexes follow the last one it has taken.  Steps and flags as in  *)
(* RatelierScatter.                                                        *)
(***************************************************************************)
EXTENDS Condition, SequencesExt

CONSTANTS
    TableSize,  \* the constructor's size
    IndexSize,  \* an index is unsigned: it wraps at IndexSize
    Objects,
    NoObject    \* an empty slot

Slots == 0 .. TableSize - 1
Indexes == 0 .. IndexSize - 1

(* What the constructor and reset() need of the constants. *)
GatherAssumption ==
    /\ TableSize \in Nat \ {0} /\ IndexSize \in Nat \ {0}
    /\ NoObject \notin Indexes \X Objects

VARIABLES
    next_index,
    table,      \* table[s]: the <<index, object>> in slot s, NoObject if it is empty
    corres,     \* corres[i]: the slot of the object of index i
    empty_slot, \* the empty slots, the last one is used first
    hand,       \* hand[t]: the <<index, object>> worker t has to push, or <<>>
    gathered,   \* all the objects that gather() has put in "ones", in order
    raised,     \* whether a call has thrown
    pc

gatherVars == <<next_index, table, corres, empty_slot>>

CondPendingData == 0
CondFull == 1

(* Types, and how the slots are shared, which the sanity checks rest on: a *)
(* slot is in the list while it is empty, else under the index it holds.   *)
GatherTypeOK ==
    /\ ConditionTypeOK
    /\ next_index \in Indexes
    /\ table \in [Slots -> Indexes \X Objects \cup {NoObject}]
    /\ DOMAIN corres \subseteq Indexes
    /\ \A i \in DOMAIN corres : corres[i] \in Slots
    /\ empty_slot \in Seq(Slots)
    /\ Len(empty_slot) + Cardinality(DOMAIN corres) = TableSize
    /\ \A n \in DOMAIN empty_slot : table[empty_slot[n]] = NoObject
    /\ \A i \in DOMAIN corres : table[corres[i]] # NoObject /\ table[corres[i]][1] = i

(* The values of the constructor, and those reset() puts back. *)
Pristine ==
    [next_index |-> 0, table |-> [s \in Slots |-> NoObject],
     corres |-> <<>>, empty_slot |-> [n \in 1 .. TableSize |-> n - 1]]

GatherInit ==
    /\ ConditionInit
    /\ next_index = Pristine.next_index
    /\ table = Pristine.table
    /\ corres = Pristine.corres
    /\ empty_slot = Pristine.empty_slot

Goto(t, label) == pc' = [pc EXCEPT ![t] = label]

(* verrou.lock(), first thing in both calls *)
GatherLock(t, label) ==
    /\ Lock(t)
    /\ Goto(t, label)
    /\ UNCHANGED <<waitVars, gatherVars, hand, gathered, raised>>

(* wait() in a loop: its condition is evaluated again after it. *)
WaitFor(t, instance, label) ==
    /\ Wait(t, instance)
    /\ Goto(t, label)
    /\ UNCHANGED <<gatherVars, hand, gathered, raised>>

GatherResume(t, instance, from, label) ==
    /\ pc[t] = from
    /\ Resume(t, instance)
    /\ Goto(t, label)
    /\ UNCHANGED <<gatherVars, hand, gathered, raised>>

-----------------------------------------------------------------------------
(* The sanity checks of both calls on the slot they are about to use *)
IsEmpty(s) == s \in Slots /\ table[s] = NoObject
IsFilled(s) == s \in Slots /\ table[s] # NoObject

(* What catch(...) does once verrou is unlocked: everyone is awaken. *)
Throw ==
    /\ raised' = TRUE
    /\ blocked' = [c \in Instances |-> {}]
    /\ woken' = [c \in Instances |-> InWait(c)]
    /\ UNCHANGED <<counter, spurious>>

(* Seeded fault: the last empty slot is for anyone. *)
MustWait_full(slot) == empty_slot = <<>>

(* The last empty slot is kept for the object that gather() needs, unless  *)
(* the lowest index present is that one, or there is none.                 *)
MustWait(slot) ==
    \/ empty_slot = <<>>
    \/ /\ Len(empty_slot) = 1
       /\ slot # next_index
       /\ DOMAIN corres # {}
       /\ Min(DOMAIN corres) # next_index

PushWait(t) ==
    /\ pc[t] = "push"
    /\ MustWait(hand[t][1])
    /\ WaitFor(t, CondFull, "push_wait")

(* A worker asks whether some data can be gathered, once it has added its own. *)
Gatherable == next_index \in DOMAIN corres'

(* Seeded fault: the slot used is not the one that leaves empty_slot. *)
FreeSlot_first == Head(empty_slot)

FreeSlot == Last(empty_slot)

worker_push_one(t) ==
    /\ pc[t] = "push"
    /\ LET slot == hand[t][1]
       IN /\ ~MustWait(slot)
          /\ IF slot \notin DOMAIN corres /\ IsEmpty(FreeSlot)
               THEN /\ corres' = [i \in DOMAIN corres \cup {slot} |->
                                     IF i = slot THEN FreeSlot ELSE corres[i]]
                    /\ table' = [table EXCEPT ![FreeSlot] = hand[t]]
                    /\ empty_slot' = Front(empty_slot)
                    /\ IF counter[CondPendingData] > 0 /\ Gatherable
                         THEN Signal(CondPendingData)
                         ELSE UNCHANGED waitVars
                    /\ UNCHANGED raised
               ELSE Throw /\ UNCHANGED <<corres, table, empty_slot>>
    /\ hand' = [hand EXCEPT ![t] = <<>>]
    /\ Unlock
    /\ Goto(t, "out")
    /\ UNCHANGED <<next_index, gathered>>

-----------------------------------------------------------------------------
(* One scan of corres, in the order of the indexes: those from next_index  *)
(* on without a hole.  It stops where the index wraps, and passes over the *)
(* indexes that have wrapped.                                              *)
Continuous == {i \in DOMAIN corres : i >= next_index /\ next_index .. i \subseteq DOMAIN corres}

GatherWait(t) ==
    /\ pc[t] = "gather"
    /\ Continuous = {}
    /\ WaitFor(t, CondPendingData, "gather_wait")

(* Seeded fault: one of the suspended workers is awaken. *)
WakeWorkers_one == IF counter[CondFull] > 0 THEN Signal(CondFull) ELSE UNCHANGED waitVars

WakeWorkers == IF counter[CondFull] > 0 THEN Broadcast(CondFull) ELSE UNCHANGED waitVars

(* The scan throws at the first slot that does not hold the object of its  *)
(* index; those before it have come out.                                   *)
IsSound(i) == IsFilled(corres[i]) /\ table[corres[i]][1] = i
Sound == {i \in Continuous : \A j \in next_index .. i : IsSound(j)}

gather(t) ==
    /\ pc[t] = "gather"
    /\ Continuous # {}
    /\ LET count == Cardinality(Sound)
           from == [n \in 1 .. count |-> corres[next_index + n - 1]]
       IN /\ gathered' = gathered \o [n \in 1 .. count |-> table[from[n]][2]]
          /\ table' = [s \in Slots |-> IF s \in Range(from) THEN NoObject ELSE table[s]]
          /\ empty_slot' = empty_slot \o from
          /\ corres' = [i \in DOMAIN corres \ Sound |-> corres[i]]
          /\ next_index' = (next_index + count) % IndexSize
    /\ IF Sound = Continuous THEN WakeWorkers /\ UNCHANGED raised ELSE Throw
    /\ Unlock
    /\ Goto(t, "out")
    /\ UNCHANGED hand

-----------------------------------------------------------------------------
(* reset(), with nobody else inside: it clears the fields without verrou,  *)
(* and its broadcasts find nobody.                                         *)
GatherReset ==
    /\ next_index' = Pristine.next_index
    /\ table' = Pristine.table
    /\ corres' = Pristine.corres
    /\ empty_slot' = Pristine.empty_slot

=============================================================================
