--------------------------- MODULE RatelierScatter ---------------------------
(***************************************************************************)
(* libthreadar::ratelier_scatter: one thread puts objects in the slots of  *)
(* a table, each under the next index; workers take them, lowest index     *)
(* first.  Everything happens under verrou, a condition with two           *)
(* instances; a step is the code between taking verrou and releasing it or *)
(* waiting.  The flag of an object is part of the object.                  *)
(***************************************************************************)
EXTENDS Condition, SequencesExt

CONSTANTS
    TableSize,  \* the constructor's size
    IndexSize,  \* an index is unsigned: it wraps at IndexSize
    Objects,
    NoObject    \* an empty slot

Slots == 0 .. TableSize - 1
Indexes == 0 .. IndexSize - 1

(* What the constructor and reset() need of the constants. *)
ScatterAssumption ==
    /\ TableSize \in Nat \ {0} /\ IndexSize \in Nat \ {0}
    /\ NoObject \notin Indexes \X Objects

VARIABLES
    next_index, lowest_index,
    table,      \* table[s]: the <<index, object>> in slot s, NoObject if it is empty
    corres,     \* corres[i]: the slot of the object of index i
    empty_slot, \* the empty slots, the last one is used first
    hand,       \* hand[t]: the <<index, object>> worker t has got, or <<>>
    raised,     \* whether a call has thrown
    pc

scatterVars == <<next_index, lowest_index, table, corres, empty_slot>>

CondEmpty == 0
CondFull == 1

(* Types, and how the slots are shared, which the sanity checks rest on: a *)
(* slot is in the list while it is empty, else under the index it holds.   *)
ScatterTypeOK ==
    /\ ConditionTypeOK
    /\ next_index \in Indexes /\ lowest_index \in Indexes
    /\ table \in [Slots -> Indexes \X Objects \cup {NoObject}]
    /\ DOMAIN corres \subseteq Indexes
    /\ \A i \in DOMAIN corres : corres[i] \in Slots
    /\ empty_slot \in Seq(Slots)
    /\ Len(empty_slot) + Cardinality(DOMAIN corres) = TableSize
    /\ \A n \in DOMAIN empty_slot : table[empty_slot[n]] = NoObject
    /\ \A i \in DOMAIN corres : table[corres[i]] # NoObject /\ table[corres[i]][1] = i

(* The values of the constructor, and those reset() puts back. *)
Pristine ==
    [next_index |-> 0, lowest_index |-> 0, table |-> [s \in Slots |-> NoObject],
     corres |-> <<>>, empty_slot |-> [n \in 1 .. TableSize |-> n - 1]]

ScatterInit ==
    /\ ConditionInit
    /\ next_index = Pristine.next_index
    /\ lowest_index = Pristine.lowest_index
    /\ table = Pristine.table
    /\ corres = Pristine.corres
    /\ empty_slot = Pristine.empty_slot

Successor(index) == (index + 1) % IndexSize

Goto(t, label) == pc' = [pc EXCEPT ![t] = label]

(* verrou.lock(), first thing in both calls *)
ScatterLock(t, label) ==
    /\ Lock(t)
    /\ Goto(t, label)
    /\ UNCHANGED <<waitVars, scatterVars, hand, raised>>

(* wait() in a loop: its condition is evaluated again after it. *)
WaitFor(t, instance, label) ==
    /\ Wait(t, instance)
    /\ Goto(t, label)
    /\ UNCHANGED <<scatterVars, hand, raised>>

ScatterResume(t, instance, from, label) ==
    /\ pc[t] = from
    /\ Resume(t, instance)
    /\ Goto(t, label)
    /\ UNCHANGED <<scatterVars, hand, raised>>

-----------------------------------------------------------------------------
(* The sanity checks of both calls on the slot they are about to use *)
IsEmpty(s) == s \in Slots /\ table[s] = NoObject
IsFilled(s) == s \in Slots /\ table[s] # NoObject

(* What catch(...) does once verrou is unlocked: everyone is awaken. *)
Throw ==
    /\ raised' = TRUE
    /\ blocked' = [c \in Instances |-> {}]
    /\ woken' = [c \in Instances |-> InWait(c)]
    /\ UNCHANGED <<counter, spurious>>

(* Seeded fault: the signal is sent when several threads wait only. *)
SignalWaiting_many(i) == IF counter[i] > 1 THEN Signal(i) ELSE UNCHANGED waitVars

SignalWaiting(i) == IF counter[i] > 0 THEN Signal(i) ELSE UNCHANGED waitVars

ScatterWait(t) ==
    /\ pc[t] = "scatter"
    /\ empty_slot = <<>>
    /\ WaitFor(t, CondFull, "scatter_wait")

FreeSlot == Last(empty_slot)

scatter(t, one) ==
    /\ pc[t] = "scatter"
    /\ empty_slot # <<>>
    /\ IF IsEmpty(FreeSlot)
         THEN /\ table' = [table EXCEPT ![FreeSlot] = <<next_index, one>>]
              /\ corres' = [i \in DOMAIN corres \cup {next_index} |->
                               IF i = next_index THEN FreeSlot ELSE corres[i]]
              /\ next_index' = Successor(next_index)
              /\ empty_slot' = Front(empty_slot)
              /\ SignalWaiting(CondEmpty)
              /\ UNCHANGED raised
         ELSE Throw /\ UNCHANGED <<table, corres, next_index, empty_slot>>
    /\ Unlock
    /\ Goto(t, "out")
    /\ UNCHANGED <<lowest_index, hand>>

-----------------------------------------------------------------------------
(* Seeded fault: the indexes that have wrapped are not passed over. *)
Visible_all == DOMAIN corres

(* The indexes below lowest_index have wrapped, and are passed over.       *)
Visible == {i \in DOMAIN corres : i >= lowest_index}

GetWait(t) ==
    /\ pc[t] = "get"
    /\ Visible = {}
    /\ WaitFor(t, CondEmpty, "get_wait")

(* The slot has to be filled, with the object of lowest_index: another     *)
(* object is taken out of the table and lost in the throw.                 *)
worker_get_one(t) ==
    /\ pc[t] = "get"
    /\ Visible # {}
    /\ LET i == Min(Visible)
           s == corres[i]
       IN IF IsFilled(s) /\ table[s][1] = lowest_index
            THEN /\ hand' = [hand EXCEPT ![t] = table[s]]
                 /\ table' = [table EXCEPT ![s] = NoObject]
                 /\ lowest_index' = Successor(lowest_index)
                 /\ empty_slot' = Append(empty_slot, s)
                 /\ corres' = [j \in DOMAIN corres \ {i} |-> corres[j]]
                 /\ SignalWaiting(CondFull)
                 /\ UNCHANGED raised
            ELSE /\ table' = IF IsFilled(s) THEN [table EXCEPT ![s] = NoObject] ELSE table
                 /\ Throw
                 /\ UNCHANGED <<hand, lowest_index, empty_slot, corres>>
    /\ Unlock
    /\ Goto(t, "got")
    /\ UNCHANGED next_index

-----------------------------------------------------------------------------
(* Seeded fault: the slots are not marked empty. *)
ScatterReset_filled ==
    /\ next_index' = Pristine.next_index
    /\ lowest_index' = Pristine.lowest_index
    /\ corres' = Pristine.corres
    /\ empty_slot' = Pristine.empty_slot
    /\ UNCHANGED table

(* reset(), with nobody else inside: it clears the fields without verrou,  *)
(* and its broadcasts find nobody.                                         *)
ScatterReset ==
    /\ next_index' = Pristine.next_index
    /\ lowest_index' = Pristine.lowest_index
    /\ table' = Pristine.table
    /\ corres' = Pristine.corres
    /\ empty_slot' = Pristine.empty_slot

=============================================================================
