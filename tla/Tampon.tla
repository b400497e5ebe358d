-------------------------------- MODULE Tampon --------------------------------
(***************************************************************************)
(* libthreadar::tampon: blocks go from one feeder thread to one fetcher    *)
(* thread through a ring of slots; the fetcher may skip blocks, read the   *)
(* following ones, and come back.  The indexes change under modif; a       *)
(* thread that has to wait does so on a mutex of its own (waiting_feeder,  *)
(* waiting_fetcher), which the other one unlocks.  A section under modif   *)
(* is one step; the feeder reads next_feed and table without modif, in     *)
(* steps of their own.  The fetcher may call what it likes at any time;    *)
(* exposed tells when it has done what the code does not withstand.        *)
(*                                                                         *)
(* What the feeder writes in a block is abstracted to a number, and the    *)
(* size it gives with the block to the same number.  The fetcher that puts *)
(* a block back half read leaves Remainder in it.                          *)
(***************************************************************************)
EXTENDS Integers, SequencesExt

CONSTANTS
    TableSize,  \* the constructor's max_block
    Total       \* bound of the model: blocks fed, all uses together

ASSUME TamponAssumption == TableSize \in Nat \ {0} /\ Total \in Nat

VARIABLES
    modif,              \* whether modif is locked between two steps
    waiting_feeder, waiting_fetcher,    \* whether each of these is locked
    table,              \* table[s]: the memory block of slot s, its data_size
    content,            \* content[b]: what is written in memory block b
    next_feed, next_fetch, fetch_head, full,
    feeder_go_lock, fetcher_go_lock,
    feeder, fetcher,    \* what each thread does next; "has": block outside
    seen,               \* the value of next_feed that the feeder has read
    ptr, got,           \* the blocks outside, and the size fetch() has given
                        \* (locals, and content of blocks not in use, are 0)
    fed,                \* how many blocks have been fed
    raised,             \* the last method whose check has failed, or "none"
    kept, skipped,      \* history: the blocks fed and not recycled, in order,
                        \* and how many of them the fetcher has skipped
    exposed             \* history: whether SkipIsSafe or RecycleIsSafe was not
                        \* so when the fetcher skipped or recycled

locks == <<modif, waiting_feeder, waiting_fetcher>>
ring == <<table, next_feed, next_fetch, fetch_head, full>>
flags == <<feeder_go_lock, fetcher_go_lock>>
feederVars == <<feeder, seen, fed>>
fetcherVars == <<fetcher, got, kept, skipped, exposed>>
vars == <<locks, ring, flags, feederVars, fetcherVars, content, ptr, raised>>

Slots == 0 .. TableSize - 1
Blocks == Slots                 \* one memory block per slot, at first
Remainder == Total + 1
Data == 0 .. Remainder

Init ==
    /\ modif = FALSE
    /\ waiting_feeder = TRUE /\ waiting_fetcher = TRUE
    /\ table = [s \in Slots |-> [mem |-> s, data_size |-> 0]]
    /\ content = [b \in Blocks |-> 0]
    /\ next_feed = 0 /\ next_fetch = 0 /\ fetch_head = 0 /\ full = FALSE
    /\ feeder_go_lock = FALSE /\ fetcher_go_lock = FALSE
    /\ feeder = "out" /\ fetcher = "out"
    /\ seen = 0 /\ got = 0 /\ fed = 0
    /\ ptr = [feeder |-> 0, fetcher |-> 0]
    /\ raised = "none"
    /\ kept = <<>> /\ skipped = 0 /\ exposed = FALSE

(* Seeded fault: the index reaches table_size before it goes back to zero. *)
shift_by_one_late(x) == (x + 1) % (TableSize + 1)

shift_by_one(x) == (x + 1) % TableSize
shift_back_by_one(x) == (x + TableSize - 1) % TableSize

-----------------------------------------------------------------------------
(* The feeder *)

(* get_block_to_feed(), under modif *)
GetTest ==
    /\ feeder = "out" /\ ~modif /\ fed < Total
    /\ IF full
         THEN feeder_go_lock' = TRUE /\ feeder' = "gate"
         ELSE feeder' = "read" /\ UNCHANGED feeder_go_lock
    /\ UNCHANGED <<locks, ring, fetcher_go_lock, seen, fed, fetcherVars, content, ptr, raised>>

(* waiting_feeder.lock() *)
FeederGate ==
    /\ feeder = "gate" /\ ~waiting_feeder
    /\ waiting_feeder' = TRUE
    /\ feeder' = "read"
    /\ UNCHANGED <<modif, waiting_fetcher, ring, flags, seen, fed, fetcherVars, content, ptr, raised>>

(* The end of get_block_to_feed(), without modif: full, next_feed, table *)
GetRead ==
    /\ feeder = "read"
    /\ IF full
         THEN raised' = "get_block_to_feed" /\ feeder' = "out" /\ UNCHANGED seen
         ELSE seen' = next_feed /\ feeder' = "take" /\ UNCHANGED raised
    /\ UNCHANGED <<locks, ring, flags, fed, fetcherVars, content, ptr>>

get_block_to_feed ==
    /\ feeder = "take"
    /\ ptr' = [ptr EXCEPT !.feeder = table[seen].mem]
    /\ seen' = 0
    /\ feeder' = "has"
    /\ UNCHANGED <<locks, ring, flags, fed, fetcherVars, content, raised>>

(* The feeder writes its data, then feed() begins, without modif: it reads *)
(* next_feed to compare the pointer, and reads it again to store the size. *)
FeedRead ==
    /\ feeder = "has"
    /\ content' = [content EXCEPT ![ptr.feeder] = fed + 1]
    /\ seen' = next_feed
    /\ feeder' = "check"
    /\ UNCHANGED <<locks, ring, flags, fed, fetcherVars, ptr, raised>>

FeedCheck ==
    /\ feeder = "check"
    /\ IF table[seen].mem = ptr.feeder
         THEN feeder' = "again" /\ UNCHANGED <<ptr, raised>>
         ELSE raised' = "feed" /\ feeder' = "out" /\ ptr' = [ptr EXCEPT !.feeder = 0]
    /\ seen' = 0
    /\ UNCHANGED <<locks, ring, flags, fed, fetcherVars, content>>

FeedReadAgain ==
    /\ feeder = "again"
    /\ seen' = next_feed
    /\ feeder' = "store"
    /\ UNCHANGED <<locks, ring, flags, fed, fetcherVars, content, ptr, raised>>

FeedSize ==
    /\ feeder = "store"
    /\ table' = [table EXCEPT ![seen].data_size = fed + 1]
    /\ seen' = 0
    /\ feeder' = "feed"
    /\ ptr' = [ptr EXCEPT !.feeder = 0]
    /\ UNCHANGED <<locks, next_feed, next_fetch, fetch_head, full, flags, fed,
                   fetcherVars, content, raised>>

(* Seeded fault: the other thread is never awaken. *)
OpenIf_never(asked, gate) == UNCHANGED <<asked, gate>>

OpenIf(asked, gate) ==
    IF asked THEN asked' = FALSE /\ gate' = FALSE ELSE UNCHANGED <<asked, gate>>

(* The end of feed(), under modif *)
feed ==
    /\ feeder = "feed" /\ ~modif
    /\ next_feed' = shift_by_one(next_feed)
    /\ full' = (full \/ next_feed' = fetch_head)
    /\ OpenIf(fetcher_go_lock, waiting_fetcher)
    /\ fed' = fed + 1
    /\ kept' = Append(kept, fed + 1)
    /\ feeder' = "out"
    /\ UNCHANGED <<modif, waiting_feeder, table, next_fetch, fetch_head, feeder_go_lock, seen,
                   fetcher, got, skipped, exposed, content, ptr, raised>>

(* feed_cancel_get_block() reads next_feed and table without modif, too.   *)
CancelRead ==
    /\ feeder = "has"
    /\ seen' = next_feed
    /\ feeder' = "cancel"
    /\ UNCHANGED <<locks, ring, flags, fed, fetcherVars, content, ptr, raised>>

feed_cancel_get_block ==
    /\ feeder = "cancel"
    /\ feeder' = "out"
    /\ raised' = IF table[seen].mem = ptr.feeder THEN raised ELSE "feed_cancel_get_block"
    /\ seen' = 0
    /\ ptr' = [ptr EXCEPT !.feeder = 0]
    /\ UNCHANGED <<locks, ring, flags, fed, fetcherVars, content>>

-----------------------------------------------------------------------------
(* The fetcher *)
has_readable_block_next == next_feed # next_fetch \/ full
is_empty == next_feed = fetch_head /\ ~full

(* fetch(), under modif *)
FetchTest ==
    /\ fetcher = "out" /\ ~modif
    /\ IF has_readable_block_next
         THEN fetcher' = "take" /\ UNCHANGED fetcher_go_lock
         ELSE fetcher_go_lock' = TRUE /\ fetcher' = "gate"
    /\ UNCHANGED <<locks, ring, feeder_go_lock, feederVars, got, kept, skipped, exposed, content, ptr,
                   raised>>

(* waiting_fetcher.lock() *)
FetcherGate ==
    /\ fetcher = "gate" /\ ~waiting_fetcher
    /\ waiting_fetcher' = TRUE
    /\ fetcher' = "take"
    /\ UNCHANGED <<modif, waiting_feeder, ring, flags, feederVars, got, kept, skipped,
                   exposed, content, ptr, raised>>

(* The end of fetch(): is_empty() takes modif. *)
fetch ==
    /\ fetcher = "take" /\ ~modif
    /\ IF is_empty
         THEN raised' = "fetch" /\ fetcher' = "out" /\ UNCHANGED <<ptr, got>>
         ELSE /\ ptr' = [ptr EXCEPT !.fetcher = table[next_fetch].mem]
              /\ got' = table[next_fetch].data_size
              /\ fetcher' = "has"
              /\ UNCHANGED raised
    /\ UNCHANGED <<locks, ring, flags, feederVars, kept, skipped, exposed, content>>

(***************************************************************************)
(* fetch_recycle() behind skipped blocks: those fed later move back by one *)
(* slot, next_feed too, and the slots around next_feed are swapped for a   *)
(* feeder that has the old one in hand.                                    *)
(***************************************************************************)
(* Seeded fault: the last block fed is not moved. *)
Moved_short == {s \in Slots : /\ s # next_fetch /\ shift_by_one(s) # next_feed
                               /\ (s - next_fetch - 1) % TableSize
                                    < (next_feed - next_fetch - 1) % TableSize}

Moved == {s \in Slots : /\ s # next_fetch
                         /\ (s - next_fetch - 1) % TableSize
                              < (next_feed - next_fetch - 1) % TableSize}

(* Seeded fault: the memory block recycled is not put in the last slot. *)
Squeezed_lost ==
    [s \in Slots |-> IF shift_by_one(s) \in Moved THEN table[shift_by_one(s)] ELSE table[s]]

Squeezed ==
    LET last == shift_back_by_one(next_feed)
    IN [s \in Slots |->
          IF shift_by_one(s) \in Moved THEN table[shift_by_one(s)]
          ELSE IF Moved # {} /\ s = last
                 THEN [mem |-> table[next_fetch].mem, data_size |-> 0]
                 ELSE table[s]]

(* Seeded fault: the slots around next_feed are left where they are. *)
Swapped_not(tab) == tab

Swapped(tab) ==
    LET new == shift_back_by_one(next_feed)
    IN [tab EXCEPT ![new] = tab[next_feed], ![next_feed] = tab[new]]

(* What the code withstands: a block is skipped, if the tampon is full,    *)
(* when it is neither the first nor the last one; a block is recycled      *)
(* behind skipped ones when the tampon is not full and the feeder is not   *)
(* between reading next_feed and using it.                                 *)
SkipIsSafe == full => next_fetch # next_feed /\ shift_by_one(next_fetch) # next_feed

HoldsIndex == feeder \in {"take", "check", "store", "cancel"}
RecycleIsSafe == next_fetch # fetch_head => ~full /\ ~HoldsIndex

(* What the fetcher takes out, in the history: the block behind those that *)
(* it has skipped, if there is one.                                        *)
Recycled == IF skipped + 1 \in DOMAIN kept THEN RemoveAt(kept, skipped + 1) ELSE kept

(* fetch_outside = false *)
FetchedOver ==
    /\ fetcher' = "out"
    /\ ptr' = [ptr EXCEPT !.fetcher = 0]
    /\ got' = 0

fetch_recycle ==
    /\ fetcher = "has" /\ ~modif
    /\ IF next_fetch = fetch_head
         THEN /\ fetch_head' = shift_by_one(fetch_head)
              /\ next_fetch' = fetch_head'
              /\ UNCHANGED <<table, next_feed>>
         ELSE /\ table' = Swapped(Squeezed)
              /\ next_feed' = shift_back_by_one(next_feed)
              /\ UNCHANGED <<fetch_head, next_fetch>>
    /\ full' = FALSE
    /\ OpenIf(feeder_go_lock, waiting_feeder)
    /\ kept' = Recycled
    /\ exposed' = (exposed \/ ~RecycleIsSafe)
    /\ content' = [content EXCEPT ![ptr.fetcher] = 0]
    /\ FetchedOver
    /\ UNCHANGED <<modif, waiting_fetcher, fetcher_go_lock, feederVars, skipped, raised>>

(* fetch_push_back(): the block as it is, or what is left of it.  Bound of *)
(* the model: the first block fed only is put back half read.              *)
PushBack ==
    \E n \in {got} \cup {r \in {Remainder} : got = 1} :
        /\ content' = [content EXCEPT ![ptr.fetcher] = n]
        /\ table' = [table EXCEPT ![next_fetch].data_size = n]
        /\ kept' = [i \in DOMAIN kept |-> IF i = skipped + 1 THEN n ELSE kept[i]]

fetch_push_back ==
    /\ fetcher = "has"
    /\ PushBack
    /\ FetchedOver
    /\ UNCHANGED <<locks, next_feed, next_fetch, fetch_head, full, flags, feederVars, skipped,
                   exposed, raised>>

(* It throws with modif locked. *)
fetch_push_back_and_skip ==
    /\ fetcher = "has" /\ ~modif
    /\ PushBack
    /\ exposed' = (exposed \/ ~SkipIsSafe)
    /\ IF full /\ next_fetch = next_feed
         THEN /\ raised' = "fetch_push_back_and_skip"
              /\ modif' = TRUE
              /\ UNCHANGED <<next_fetch, skipped>>
         ELSE /\ next_fetch' = shift_by_one(next_fetch)
              /\ skipped' = skipped + 1
              /\ UNCHANGED <<raised, modif>>
    /\ FetchedOver
    /\ UNCHANGED <<waiting_feeder, waiting_fetcher, next_feed, fetch_head, full, flags,
                   feederVars>>

(* Seeded fault: the blocks skipped are forgotten. *)
fetch_skip_back_forward ==
    /\ fetcher = "out" /\ skipped > 0
    /\ next_fetch' = next_feed
    /\ skipped' = 0
    /\ UNCHANGED <<locks, table, next_feed, fetch_head, full, flags, feederVars, fetcher, got,
                   kept, exposed, content, ptr, raised>>

fetch_skip_back ==
    /\ fetcher = "out" /\ skipped > 0
    /\ next_fetch' = fetch_head
    /\ skipped' = 0
    /\ UNCHANGED <<locks, table, next_feed, fetch_head, full, flags, feederVars, fetcher, got,
                   kept, exposed, content, ptr, raised>>

-----------------------------------------------------------------------------
(* reset(), between two uses: it does not unlock modif.                    *)
reset ==
    /\ feeder = "out" /\ fetcher = "out"
    /\ next_feed' = 0 /\ next_fetch' = 0 /\ fetch_head' = 0 /\ full' = FALSE
    /\ feeder_go_lock' = FALSE /\ fetcher_go_lock' = FALSE
    /\ waiting_feeder' = TRUE /\ waiting_fetcher' = TRUE
    /\ kept' = <<>> /\ skipped' = 0
    /\ content' = [b \in Blocks |-> 0]
    /\ UNCHANGED <<modif, table, feederVars, fetcher, got, exposed, ptr, raised>>

InFeed ==
    \/ FeederGate \/ GetRead \/ get_block_to_feed
    \/ FeedCheck \/ FeedReadAgain \/ FeedSize \/ feed
    \/ feed_cancel_get_block
InFetch == FetcherGate \/ fetch

Next ==
    \/ GetTest \/ FeedRead \/ CancelRead \/ InFeed
    \/ FetchTest \/ fetch_recycle \/ fetch_push_back \/ fetch_push_back_and_skip
    \/ fetch_skip_back \/ InFetch
    \/ reset

Spec == Init /\ [][Next]_vars

(* A call that has begun goes on; nothing obliges either thread to call.   *)
FairSpec == Spec /\ WF_vars(InFeed) /\ WF_vars(InFetch)

-----------------------------------------------------------------------------
Checks == {"none", "get_block_to_feed", "feed", "feed_cancel_get_block", "fetch",
           "fetch_push_back_and_skip"}

TypeOK ==
    /\ modif \in BOOLEAN /\ waiting_feeder \in BOOLEAN /\ waiting_fetcher \in BOOLEAN
    /\ table \in [Slots -> [mem : Blocks, data_size : Data]]
    /\ content \in [Blocks -> Data]
    /\ next_feed \in Slots /\ next_fetch \in Slots /\ fetch_head \in Slots
    /\ full \in BOOLEAN /\ feeder_go_lock \in BOOLEAN /\ fetcher_go_lock \in BOOLEAN
    /\ feeder \in {"out", "gate", "read", "has", "again", "feed"}
                   \cup {"take", "check", "store", "cancel"}
    /\ fetcher \in {"out", "gate", "take", "has"}
    /\ seen \in Slots /\ got \in Data /\ fed \in 0 .. Total
    /\ ptr \in [feeder : Blocks, fetcher : Blocks]
    /\ raised \in Checks
    /\ kept \in Seq(Data) /\ skipped \in Nat /\ exposed \in BOOLEAN

(* The blocks from fetch_head to next_feed, as fetch() would return them.  *)
(* (The code's load() says 0 of a full tampon.)                            *)
Load == IF full THEN TableSize ELSE (next_feed - fetch_head) % TableSize
InRing(i) == table[(fetch_head + i - 1) % TableSize]

(* "The block that has been put back this way to the tampon object is      *)
(* preserved" (tampon.hpp:92-93): the ring holds the blocks fed and not    *)
(* recycled, in order, each with its own data and size.                    *)
PutBackIsPreserved ==
    /\ Len(kept) = Load
    /\ \A i \in 1 .. Load : InRing(i).data_size = kept[i] /\ content[InRing(i).mem] = kept[i]

(* So it is through any sequence of skips, recycles and puts back, until   *)
(* the first one that the code does not withstand (tampon.hpp:414-446).    *)
Preserved == ~exposed => PutBackIsPreserved

(* Until then fetch() returns the block that follows those skipped, never  *)
(* one of the skipped ones again (tampon.hpp:90-92).                       *)
FetchedIsNext ==
    ~exposed /\ fetcher = "has" =>
        /\ skipped < Len(kept)
        /\ got = kept[skipped + 1] /\ content[ptr.fetcher] = got

(* Until then, too, the feeder writes in a block that is not in the ring,  *)
(* and slots never share a block, though table is changed under the        *)
(* feeder's feet (tampon.hpp:426-438).                                     *)
NoSharedBlock ==
    ~exposed =>
        /\ \A s, u \in Slots : table[s].mem = table[u].mem => s = u
        /\ feeder \in {"has", "check", "again", "store", "cancel"} =>
               \A i \in 1 .. Load : InRing(i).mem # ptr.feeder

(* Whatever the fetcher does and whenever, a thread that comes out of its  *)
(* wait finds what it waited for (tampon.hpp:336, 394).  The other checks  *)
(* fail only if the fetcher has skipped a block that the code cannot skip  *)
(* (468), or recycled behind skipped ones while the tampon was full or the *)
(* feeder was using next_feed without modif (340, 350-352, 371).           *)
RaisedOnlyIfExposed ==
    /\ raised \notin {"get_block_to_feed", "fetch"}
    /\ raised # "none" => exposed

(* A thread suspended goes on once the other one has done what it waits    *)
(* for, though each decides to wait under modif and waits outside.         *)
GatesOpen ==
    /\ feeder = "gate" /\ ~full ~> feeder # "gate"
    /\ fetcher = "gate" /\ has_readable_block_next ~> fetcher # "gate"

=============================================================================
