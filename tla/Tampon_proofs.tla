----------------------------- MODULE Tampon_proofs -----------------------------
(***************************************************************************)
(* For any number of slots and of blocks fed: tampon keeps the blocks in   *)
(* order, each with its data, through skips, recycles behind skipped       *)
(* blocks and puts back, until a call exposes it; and its waits end well,  *)
(* exposed or not.                                                         *)
(***************************************************************************)
EXTENDS Tampon, SequenceTheorems, TLAPS

-----------------------------------------------------------------------------
(* Going round the table *)
Wrap(x) == IF x < 0 THEN x + TableSize ELSE IF x < TableSize THEN x ELSE x - TableSize

(* The k-th slot from slot h on, from 0 *)
Place(h, k) == (h + k) % TableSize

(* An index goes round once at most, in either direction. *)
LEMMA RoundOnce ==
    ASSUME NEW x \in -TableSize .. 2 * TableSize - 1
    PROVE  x % TableSize = Wrap(x)
<1> USE TamponAssumption
<1>1. CASE x < 0
  <2>1. x = TableSize * (-1) + (x + TableSize) /\ x + TableSize \in 0 .. TableSize - 1
      BY <1>1
  <2> QED
      BY <1>1, <2>1 DEF Wrap
<1>2. CASE x >= 0 /\ x < TableSize
    BY <1>2 DEF Wrap
<1>3. CASE x >= TableSize
  <2>1. x = TableSize * 1 + (x - TableSize) /\ x - TableSize \in 0 .. TableSize - 1
      BY <1>3
  <2> QED
      BY <1>3, <2>1 DEF Wrap
<1> QED
    BY <1>1, <1>2, <1>3

(* The slot of a place, as a number *)
LEMMA PlaceIs ==
    ASSUME NEW h \in Slots, NEW k \in 0 .. TableSize
    PROVE  Place(h, k) = Wrap(h + k) /\ Place(h, k) \in Slots
<1>1. h + k \in -TableSize .. 2 * TableSize - 1
    BY TamponAssumption DEF Slots
<1> QED
    BY <1>1, RoundOnce, TamponAssumption DEF Place, Wrap, Slots

(* shift_by_one() and shift_back_by_one() go to the neighbours of a slot. *)
LEMMA ShiftIs ==
    ASSUME NEW s \in Slots
    PROVE  /\ shift_by_one(s) = Wrap(s + 1) /\ shift_by_one(s) \in Slots
           /\ shift_back_by_one(s) = Wrap(s - 1) /\ shift_back_by_one(s) \in Slots
<1>1. s + 1 \in -TableSize .. 2 * TableSize - 1 /\ s + TableSize - 1 \in -TableSize .. 2 * TableSize - 1
    BY TamponAssumption DEF Slots
<1>2. shift_by_one(s) = Wrap(s + 1) /\ shift_back_by_one(s) = Wrap(s + TableSize - 1)
    BY <1>1, RoundOnce DEF shift_by_one, shift_back_by_one
<1> QED
    BY <1>2, TamponAssumption DEF Wrap, Slots

(* Different places are different slots. *)
LEMMA PlacesDiffer ==
    ASSUME NEW h \in Slots, NEW j \in 0 .. TableSize - 1, NEW k \in 0 .. TableSize - 1,
           Place(h, j) = Place(h, k)
    PROVE  j = k
<1>1. j \in 0 .. TableSize /\ k \in 0 .. TableSize
    BY TamponAssumption
<1>2. Place(h, j) = Wrap(h + j) /\ Place(h, k) = Wrap(h + k)
    BY <1>1, PlaceIs
<1>3. Wrap(h + j) = Wrap(h + k)
    BY <1>2
<1> QED
    BY <1>3, TamponAssumption DEF Wrap, Slots

(* Every slot has a place. *)
LEMMA PlaceOf ==
    ASSUME NEW h \in Slots, NEW s \in Slots
    PROVE  \E k \in 0 .. TableSize - 1 : s = Place(h, k) /\ k = (s - h) % TableSize
<1>1. s - h \in -TableSize .. 2 * TableSize - 1
    BY TamponAssumption DEF Slots
<1>2. (s - h) % TableSize = Wrap(s - h) /\ Wrap(s - h) \in 0 .. TableSize - 1
    BY <1>1, RoundOnce, TamponAssumption DEF Wrap, Slots
<1>3. PICK k \in 0 .. TableSize - 1 : k = Wrap(s - h)
    BY <1>2
<1>4. Place(h, k) = Wrap(h + k)
    BY PlaceIs, TamponAssumption
<1>5. Wrap(h + k) = s
    BY <1>3, TamponAssumption DEF Wrap, Slots
<1> QED
    BY <1>2, <1>3, <1>4, <1>5

(* The places in a row, from one slot and from the one behind it *)
LEMMA PlaceNext ==
    ASSUME NEW h \in Slots, NEW k \in 0 .. TableSize - 1
    PROVE  /\ shift_by_one(Place(h, k)) = Place(h, k + 1)
           /\ Place(shift_by_one(h), k) = Place(h, k + 1)
           /\ shift_back_by_one(Place(h, k + 1)) = Place(h, k)
<1>1. Place(h, k) = Wrap(h + k) /\ Place(h, k) \in Slots
      /\ Place(h, k + 1) = Wrap(h + k + 1) /\ Place(h, k + 1) \in Slots
  <2>1. k + 1 \in 0 .. TableSize /\ k \in 0 .. TableSize /\ h + (k + 1) = h + k + 1
      BY TamponAssumption DEF Slots
  <2>2. Place(h, k) = Wrap(h + k) /\ Place(h, k) \in Slots
      BY <2>1, PlaceIs
  <2>3. Place(h, k + 1) = Wrap(h + (k + 1)) /\ Place(h, k + 1) \in Slots
      BY <2>1, PlaceIs
  <2> QED
      BY <2>1, <2>2, <2>3
<1>2. shift_by_one(Place(h, k)) = Wrap(Wrap(h + k) + 1)
      /\ shift_back_by_one(Place(h, k + 1)) = Wrap(Wrap(h + k + 1) - 1)
      /\ shift_by_one(h) = Wrap(h + 1) /\ shift_by_one(h) \in Slots
    BY <1>1, ShiftIs
<1>3. Place(shift_by_one(h), k) = Wrap(Wrap(h + 1) + k)
    BY <1>2, PlaceIs, TamponAssumption
<1>4. Wrap(Wrap(h + k) + 1) = Wrap(h + k + 1) /\ Wrap(Wrap(h + 1) + k) = Wrap(h + k + 1)
      /\ Wrap(Wrap(h + k + 1) - 1) = Wrap(h + k)
    BY TamponAssumption DEF Wrap, Slots
<1> QED
    BY <1>1, <1>2, <1>3, <1>4

(* What RemoveAt does to a sequence *)
LEMMA Removed ==
    ASSUME NEW S, NEW seq \in Seq(S), NEW i \in 1 .. Len(seq)
    PROVE  /\ RemoveAt(seq, i) \in Seq(S)
           /\ Len(RemoveAt(seq, i)) = Len(seq) - 1
           /\ \A j \in 1 .. Len(seq) - 1 :
                  RemoveAt(seq, i)[j] = IF j < i THEN seq[j] ELSE seq[j + 1]
<1> DEFINE a == SubSeq(seq, 1, i - 1)
           b == SubSeq(seq, i + 1, Len(seq))
<1>1. Len(seq) \in Nat
    BY LenProperties
<1>2. a \in Seq(S) /\ Len(a) = i - 1 /\ \A j \in 1 .. i - 1 : a[j] = seq[j]
  <2>1. \A j \in 1 .. i - 1 : seq[j] \in S
      BY <1>1, ElementOfSeq
  <2>2. /\ a \in Seq(S) /\ Len(a) = IF 1 <= i - 1 THEN (i - 1) - 1 + 1 ELSE 0
        /\ \A j \in 1 .. (i - 1) - 1 + 1 : a[j] = seq[1 + j - 1]
      BY <1>1, <2>1, SubSeqProperties
  <2> QED
      BY <1>1, <2>2
<1>3. b \in Seq(S) /\ Len(b) = Len(seq) - i
      /\ \A j \in 1 .. Len(seq) - i : b[j] = seq[j + i]
  <2>1. \A j \in i + 1 .. Len(seq) : seq[j] \in S
      BY <1>1, ElementOfSeq
  <2>2. /\ b \in Seq(S) /\ Len(b) = IF i + 1 <= Len(seq) THEN Len(seq) - (i + 1) + 1 ELSE 0
        /\ \A j \in 1 .. Len(seq) - (i + 1) + 1 : b[j] = seq[(i + 1) + j - 1]
      BY <1>1, <2>1, SubSeqProperties
  <2> QED
      BY <1>1, <2>2
<1>4. RemoveAt(seq, i) = a \o b
    BY DEF RemoveAt
<1> HIDE DEF a, b
<1>5. /\ a \o b \in Seq(S) /\ Len(a \o b) = Len(a) + Len(b)
      /\ \A j \in 1 .. Len(a) + Len(b) : (a \o b)[j] = IF j <= Len(a) THEN a[j] ELSE b[j - Len(a)]
    BY <1>2, <1>3, ConcatProperties, Zenon
<1>6. ASSUME NEW j \in 1 .. Len(seq) - 1
      PROVE  (a \o b)[j] = IF j < i THEN seq[j] ELSE seq[j + 1]
  <2>1. (a \o b)[j] = IF j <= i - 1 THEN a[j] ELSE b[j - (i - 1)]
      BY <1>1, <1>2, <1>3, <1>5
  <2>2. CASE j < i
      BY <1>1, <1>2, <2>1, <2>2
  <2>3. CASE j >= i
    <3>1. (a \o b)[j] = b[j - (i - 1)]
        BY <1>1, <2>1, <2>3
    <3>2. j - (i - 1) \in 1 .. Len(seq) - i /\ (j - (i - 1)) + i = j + 1
        BY <1>1, <2>3
    <3>3. b[j - (i - 1)] = seq[(j - (i - 1)) + i]
        BY <1>3, <3>2
    <3> QED
        BY <2>3, <3>1, <3>2, <3>3
  <2>4. j < i \/ j >= i
      BY <1>1
  <2> QED
      BY <2>2, <2>3, <2>4, Zenon
<1>7. Len(a \o b) = Len(seq) - 1
    BY <1>1, <1>2, <1>3, <1>5
<1> QED
    BY <1>4, <1>5, <1>6, <1>7

-----------------------------------------------------------------------------
(* The invariant *)
Cell(k) == table[Place(fetch_head, k)]

(* The indexes delimit Load slots, the first of which are skipped. *)
RingOK ==
    /\ next_feed \in Slots /\ next_fetch \in Slots /\ fetch_head \in Slots
    /\ full \in BOOLEAN
    /\ full => next_feed = fetch_head
    /\ skipped \in 0 .. TableSize - 1 /\ skipped <= Load
    /\ next_fetch = Place(fetch_head, skipped)
    /\ kept \in Seq(Data) /\ Len(kept) = Load

(* Each block kept is in the slot of its turn, with its data and size. *)
Stored(k) == Cell(k).data_size = kept[k + 1] /\ content[Cell(k).mem] = kept[k + 1]

TablesOK ==
    /\ table \in [Slots -> [mem : Blocks, data_size : Data]]
    /\ content \in [Blocks -> Data]
    /\ \A s, u \in Slots : table[s].mem = table[u].mem => s = u

CellsHold == TablesOK /\ \A k \in 0 .. Load - 1 : Stored(k)

(* The feeder that has not to wait finds the slot of next_feed free, and   *)
(* its gate is open if and only if it may go on.                           *)
FeederHolds ==
    /\ feeder \in {"out", "gate", "read", "has", "again", "feed"}
                   \cup {"take", "check", "store", "cancel"}
    /\ seen \in Slots /\ fed \in 0 .. Total
    /\ feeder # "out" => fed < Total
    /\ feeder \notin {"out", "gate"} => full = FALSE
    /\ feeder \in {"take", "check", "store", "cancel"} => seen = next_feed
    /\ feeder \in {"has", "check", "again", "store", "cancel"} =>
           ptr.feeder = table[next_feed].mem
    /\ feeder \in {"check", "again", "store"} => content[table[next_feed].mem] = fed + 1
    /\ feeder = "feed" => /\ table[next_feed].data_size = fed + 1
                          /\ content[table[next_feed].mem] = fed + 1
    /\ waiting_feeder = IF feeder = "gate" /\ full = FALSE THEN FALSE ELSE TRUE
    /\ feeder_go_lock = IF feeder = "gate" /\ full = TRUE THEN TRUE ELSE FALSE

(* So it is of the fetcher and the block behind those skipped. *)
FetcherHolds ==
    /\ fetcher \in {"out", "gate", "take", "has"}
    /\ got \in Data
    /\ fetcher \in {"take", "has"} => skipped < Load
    /\ fetcher = "has" => /\ ptr.fetcher = table[next_fetch].mem
                          /\ got = table[next_fetch].data_size
    /\ waiting_fetcher = IF fetcher = "gate" /\ skipped < Load THEN FALSE ELSE TRUE
    /\ fetcher_go_lock = IF fetcher = "gate" /\ skipped = Load THEN TRUE ELSE FALSE

Calm == modif = FALSE /\ raised = "none" /\ ptr \in [feeder : Blocks, fetcher : Blocks]

TamponInv == RingOK /\ CellsHold /\ FeederHolds /\ FetcherHolds /\ Calm

(* How many blocks there are between two indexes *)
LEMMA LoadOf ==
    ASSUME NEW h \in Slots, NEW f \in BOOLEAN, NEW l \in 0 .. TableSize, f <=> l = TableSize
    PROVE  /\ (IF f THEN TableSize ELSE (Place(h, l) - h) % TableSize) = l
           /\ f => Place(h, l) = h
           /\ Place(h, l) \in Slots
<1>1. Place(h, l) = Wrap(h + l) /\ Place(h, l) \in Slots
    BY PlaceIs
<1>2. CASE l = TableSize
    BY <1>1, <1>2, TamponAssumption DEF Wrap, Slots
<1>3. CASE l < TableSize
  <2>1. Place(h, l) - h \in -TableSize .. 2 * TableSize - 1
      BY <1>1, TamponAssumption DEF Slots
  <2>2. (Place(h, l) - h) % TableSize = Wrap(Place(h, l) - h)
      BY <2>1, RoundOnce
  <2>3. Wrap(Place(h, l) - h) = l
      BY <1>1, <1>3, TamponAssumption DEF Wrap, Slots
  <2> QED
      BY <1>1, <1>3, <2>2, <2>3, TamponAssumption
<1> QED
    BY <1>2, <1>3, TamponAssumption

(* What the indexes say, in numbers *)
LEMMA Ring ==
    ASSUME RingOK
    PROVE  /\ Load \in 0 .. TableSize
           /\ next_feed = Place(fetch_head, Load)
           /\ full = TRUE => Load = TableSize
           /\ full = FALSE => Load \in 0 .. TableSize - 1
           /\ has_readable_block_next <=> skipped < Load
           /\ is_empty <=> Load = 0
           /\ next_fetch = fetch_head <=> skipped = 0
<1> USE TamponAssumption
<1>0. next_feed \in Slots /\ fetch_head \in Slots /\ full \in BOOLEAN /\ skipped \in 0 .. TableSize - 1
      /\ skipped <= Load /\ next_fetch = Place(fetch_head, skipped) /\ (full => next_feed = fetch_head)
    BY DEF RingOK
<1>1. Place(fetch_head, 0) = fetch_head /\ Place(fetch_head, TableSize) = fetch_head
  <2>1. Place(fetch_head, 0) = Wrap(fetch_head + 0)
      BY <1>0, PlaceIs
  <2>2. Place(fetch_head, TableSize) = Wrap(fetch_head + TableSize)
      BY <1>0, PlaceIs
  <2> QED
      BY <1>0, <2>1, <2>2 DEF Wrap, Slots
<1>2. next_fetch = fetch_head <=> skipped = 0
    BY <1>0, <1>1, PlacesDiffer
<1>3. CASE full = TRUE
    BY <1>0, <1>1, <1>2, <1>3 DEF Load, has_readable_block_next, is_empty
<1>4. CASE full = FALSE
  <2>1. PICK k \in 0 .. TableSize - 1 :
            next_feed = Place(fetch_head, k) /\ k = (next_feed - fetch_head) % TableSize
      BY <1>0, PlaceOf
  <2>2. Load = k
      BY <1>4, <2>1 DEF Load
  <2>3. next_feed = next_fetch <=> k = skipped
      BY <1>0, <2>1, PlacesDiffer
  <2>4. next_feed = fetch_head <=> k = 0
      BY <1>0, <1>1, <2>1, PlacesDiffer
  <2> QED
      BY <1>0, <1>2, <1>4, <2>1, <2>2, <2>3, <2>4 DEF has_readable_block_next, is_empty
<1> QED
    BY <1>0, <1>3, <1>4

(* The slots of the ring are apart from each other and, when the tampon is *)
(* not full, from the one of next_feed.                                    *)
LEMMA Apart ==
    ASSUME RingOK, TablesOK
    PROVE  /\ \A k \in 0 .. Load - 1 : Place(fetch_head, k) \in Slots
           /\ \A j, k \in 0 .. Load - 1 :
                  j # k => Place(fetch_head, j) # Place(fetch_head, k) /\ Cell(j).mem # Cell(k).mem
           /\ full = FALSE => \A k \in 0 .. Load - 1 :
                  Place(fetch_head, k) # next_feed /\ Cell(k).mem # table[next_feed].mem
<1> USE TamponAssumption
<1>1. Load \in 0 .. TableSize /\ next_feed = Place(fetch_head, Load) /\ next_feed \in Slots
      /\ fetch_head \in Slots /\ (full = FALSE => Load \in 0 .. TableSize - 1)
    BY Ring DEF RingOK
<1>2. ASSUME NEW k \in 0 .. TableSize - 1
      PROVE  Place(fetch_head, k) \in Slots
    BY <1>1, PlaceIs
<1>3. ASSUME NEW j \in 0 .. TableSize - 1, NEW k \in 0 .. TableSize - 1, j # k
      PROVE  Place(fetch_head, j) # Place(fetch_head, k) /\ Cell(j).mem # Cell(k).mem
  <2>1. Place(fetch_head, j) # Place(fetch_head, k)
      BY <1>1, <1>3, PlacesDiffer
  <2> QED
      BY <1>2, <2>1 DEF Cell, TablesOK
<1>4. 0 .. Load - 1 \subseteq 0 .. TableSize - 1
    BY <1>1
<1>5. ASSUME full = FALSE, NEW k \in 0 .. Load - 1
      PROVE  Place(fetch_head, k) # next_feed /\ Cell(k).mem # table[next_feed].mem
  <2>1. k \in 0 .. TableSize - 1 /\ Load \in 0 .. TableSize - 1 /\ k # Load
      BY <1>1, <1>5
  <2>2. Place(fetch_head, k) # Place(fetch_head, Load) /\ Cell(k).mem # Cell(Load).mem
      BY <1>3, <2>1
  <2> QED
      BY <1>1, <2>2 DEF Cell
<1> QED
    BY <1>2, <1>3, <1>4, <1>5

-----------------------------------------------------------------------------
(* What the ring holds stays when nothing of it changes. *)
LEMMA RingStays ==
    ASSUME UNCHANGED <<ring, content, kept, skipped>>
    PROVE  /\ RingOK => RingOK' /\ Load' = Load
           /\ CellsHold => CellsHold'
<1>1. Load' = Load
    BY DEF Load, ring
<1>2. ASSUME NEW k
      PROVE  Stored(k)' <=> Stored(k)
    BY DEF Stored, Cell, Place, ring
<1> QED
    BY <1>1, <1>2 DEF RingOK, CellsHold, TablesOK, Place, ring

(* Nor does what is known of the fetcher, *)
LEMMA FetcherStays ==
    ASSUME UNCHANGED <<ring, skipped, fetcher, got, waiting_fetcher, fetcher_go_lock>>,
           ptr'.fetcher = ptr.fetcher
    PROVE  FetcherHolds => FetcherHolds'
    BY DEF FetcherHolds, Load, ring

(* nor of the feeder. *)
LEMMA FeederStays ==
    ASSUME UNCHANGED <<ring, content, feederVars, waiting_feeder, feeder_go_lock>>,
           ptr'.feeder = ptr.feeder
    PROVE  FeederHolds => FeederHolds'
    BY DEF FeederHolds, feederVars, ring

(* The feeder takes the block of next_feed, compares it, or gives it up. *)
LEMMA GetKeepsInv ==
    ASSUME TamponInv,
           \/ GetTest \/ FeederGate \/ GetRead \/ get_block_to_feed
           \/ FeedCheck \/ FeedReadAgain \/ CancelRead \/ feed_cancel_get_block
    PROVE  TamponInv'
<1> USE DEF TamponInv
<1>1. UNCHANGED <<ring, content, kept, skipped, fetcher, got, waiting_fetcher, fetcher_go_lock>>
    BY DEF GetTest, FeederGate, GetRead, get_block_to_feed, FeedCheck, FeedReadAgain, CancelRead,
           feed_cancel_get_block, fetcherVars, locks, flags
<1>2. full \in BOOLEAN /\ next_feed \in Slots /\ table[next_feed].mem \in Blocks /\ 0 \in Blocks
      /\ 0 \in Slots
  <2>1. 0 \in Slots /\ Blocks = Slots
      BY TamponAssumption DEF Blocks, Slots
  <2>2. full \in BOOLEAN /\ next_feed \in Slots
      BY DEF RingOK
  <2> QED
      BY <2>1, <2>2 DEF CellsHold, TablesOK
<1>3. Calm' /\ ptr'.fetcher = ptr.fetcher
  <2>1. CASE GetTest \/ FeederGate \/ FeedReadAgain \/ CancelRead
      BY <2>1 DEF Calm, GetTest, FeederGate, FeedReadAgain, CancelRead, locks
  <2>2. CASE GetRead
      BY <2>2 DEF Calm, GetRead, FeederHolds, locks
  <2>3. CASE get_block_to_feed
    <3>1. table[seen].mem \in Blocks
        BY <1>2, <2>3 DEF get_block_to_feed, FeederHolds
    <3> QED
        BY <2>3, <3>1 DEF Calm, get_block_to_feed, locks
  <2>4. CASE FeedCheck \/ feed_cancel_get_block
    <3>1. table[seen].mem = ptr.feeder
        BY <2>4 DEF FeedCheck, feed_cancel_get_block, FeederHolds
    <3> QED
        BY <1>2, <2>4, <3>1 DEF Calm, FeedCheck, feed_cancel_get_block, locks
  <2> QED
      BY <2>1, <2>2, <2>3, <2>4
<1>4. FeederHolds'
  <2> USE DEF FeederHolds, Calm, ring, locks, flags
  <2>1. CASE GetTest
      BY <1>1, <1>2, <2>1 DEF GetTest
  <2>2. CASE FeederGate
      BY <1>1, <1>2, <2>2 DEF FeederGate
  <2>3. CASE GetRead
      BY <1>1, <1>2, <2>3 DEF GetRead
  <2>4. CASE get_block_to_feed
      BY <1>1, <1>2, <2>4 DEF get_block_to_feed
  <2>5. CASE FeedCheck
      BY <1>1, <1>2, <2>5 DEF FeedCheck
  <2>6. CASE FeedReadAgain \/ CancelRead
      BY <1>1, <1>2, <2>6 DEF FeedReadAgain, CancelRead
  <2>7. CASE feed_cancel_get_block
      BY <1>1, <1>2, <2>7 DEF feed_cancel_get_block
  <2> QED
      BY <2>1, <2>2, <2>3, <2>4, <2>5, <2>6, <2>7
<1> QED
    BY <1>1, <1>3, <1>4, RingStays, FetcherStays

(* The feeder writes in the block it has, that is in no slot of the ring. *)
LEMMA WriteKeepsInv ==
    ASSUME TamponInv, FeedRead
    PROVE  TamponInv'
<1> USE DEF TamponInv
<1>1. /\ ptr.feeder = table[next_feed].mem /\ full = FALSE /\ fed < Total /\ fed \in Nat
      /\ ptr.feeder \in Blocks /\ next_feed \in Slots
    BY DEF FeedRead, FeederHolds, Calm, RingOK
<1>2. UNCHANGED <<ring, kept, skipped, fetcher, got, waiting_fetcher, fetcher_go_lock, ptr>>
    BY DEF FeedRead, fetcherVars, locks, flags
<1>3. content' = [content EXCEPT ![ptr.feeder] = fed + 1] /\ fed + 1 \in Data
    BY <1>1, TamponAssumption DEF FeedRead, Data, Remainder
<1>4. RingOK' /\ Load' = Load
    BY <1>2 DEF RingOK, Load, Place, ring
<1>5. ASSUME NEW k \in 0 .. Load - 1
      PROVE  Stored(k)'
  <2>1. Cell(k)' = Cell(k) /\ Cell(k).mem # ptr.feeder /\ Cell(k).mem \in Blocks
      BY <1>1, <1>2, Apart DEF CellsHold, TablesOK, Cell, Place, ring
  <2>2. Stored(k)
      BY DEF CellsHold
  <2> QED
      BY <1>2, <1>3, <2>1, <2>2 DEF Stored, TablesOK, CellsHold
<1>6. CellsHold'
    BY <1>2, <1>3, <1>4, <1>5 DEF CellsHold, TablesOK, ring
<1>7. FetcherHolds' /\ Calm'
    BY <1>2, FetcherStays DEF FeedRead, Calm, locks
<1>8. FeederHolds'
    BY <1>1, <1>2, <1>3 DEF FeedRead, FeederHolds, CellsHold, TablesOK, ring, locks, flags
<1> QED
    BY <1>4, <1>6, <1>7, <1>8

(* feed() sets the size of the slot of next_feed. *)
LEMMA SizeKeepsInv ==
    ASSUME TamponInv, FeedSize
    PROVE  TamponInv'
<1> USE DEF TamponInv
<1>1. /\ seen = next_feed /\ full = FALSE /\ fed < Total
      /\ fed \in Nat /\ next_feed \in Slots /\ content[table[next_feed].mem] = fed + 1
    BY DEF FeedSize, FeederHolds, RingOK
<1>2. /\ table' = [table EXCEPT ![next_feed].data_size = fed + 1] /\ feeder' = "feed"
      /\ UNCHANGED raised /\ seen' = 0 /\ ptr' = [ptr EXCEPT !.feeder = 0]
      /\ UNCHANGED <<locks, next_feed, next_fetch, fetch_head, full, flags, fed, fetcherVars, content>>
    BY <1>1 DEF FeedSize
<1>3. fed + 1 \in Data /\ 0 \in Blocks /\ 0 \in Slots
    BY <1>1, TamponAssumption DEF Data, Remainder, Blocks, Slots
<1>4. TablesOK' /\ \A s \in Slots : table'[s].mem = table[s].mem
                                  /\ (s # next_feed => table'[s] = table[s])
    BY <1>1, <1>2, <1>3 DEF CellsHold, TablesOK
<1>5. RingOK' /\ Load' = Load
    BY <1>2 DEF RingOK, Load, Place, fetcherVars
<1>6. ASSUME NEW k \in 0 .. Load - 1
      PROVE  Stored(k)'
  <2>1. Place(fetch_head, k) # next_feed /\ Place(fetch_head, k) \in Slots
      BY <1>1, Apart DEF CellsHold
  <2>2. Cell(k)' = Cell(k)
      BY <1>2, <1>4, <2>1 DEF Cell, Place
  <2>3. Stored(k)
      BY DEF CellsHold
  <2> QED
      BY <1>2, <2>2, <2>3 DEF Stored, fetcherVars
<1>7. CellsHold'
    BY <1>4, <1>5, <1>6 DEF CellsHold
<1>8. FetcherHolds'
  <2>1. fetcher = "has" => next_fetch # next_feed /\ next_fetch \in Slots
      BY <1>1, Ring DEF FetcherHolds, RingOK, has_readable_block_next
  <2>2. fetcher = "has" => table'[next_fetch] = table[next_fetch]
      BY <1>4, <2>1
  <2>3. ptr'.fetcher = ptr.fetcher
      BY <1>2 DEF Calm
  <2> QED
      BY <1>2, <1>5, <2>2, <2>3 DEF FetcherHolds, fetcherVars, locks, flags
<1>9. Calm' /\ FeederHolds'
  <2>1. Calm'
      BY <1>2, <1>3 DEF Calm, locks
  <2>2. table'[next_feed].data_size = fed + 1 /\ table'[next_feed].mem = table[next_feed].mem
      BY <1>1, <1>2, <1>4 DEF CellsHold, TablesOK
  <2>3. waiting_feeder = TRUE /\ feeder_go_lock = FALSE /\ fed \in 0 .. Total
      BY DEF FeederHolds, FeedSize
  <2> QED
      BY <1>1, <1>2, <1>3, <2>1, <2>2, <2>3 DEF FeederHolds, locks, flags
<1> QED
    BY <1>5, <1>7, <1>8, <1>9

(* feed() adds the block to the ring, where it is the last one. *)
LEMMA FeedKeepsInv ==
    ASSUME TamponInv, feed
    PROVE  TamponInv'
<1> USE TamponAssumption DEF TamponInv
<1>1. /\ full = FALSE /\ fed < Total /\ fed \in Nat /\ next_feed \in Slots /\ fetch_head \in Slots
      /\ table[next_feed].data_size = fed + 1 /\ content[table[next_feed].mem] = fed + 1
      /\ skipped \in 0 .. TableSize - 1 /\ skipped <= Load
      /\ waiting_feeder = TRUE /\ feeder_go_lock = FALSE /\ modif = FALSE
    BY DEF feed, FeederHolds, RingOK, Calm
<1>2. /\ next_feed' = shift_by_one(next_feed) /\ full' = (full \/ next_feed' = fetch_head)
      /\ OpenIf(fetcher_go_lock, waiting_fetcher)
      /\ fed' = fed + 1 /\ kept' = Append(kept, fed + 1) /\ feeder' = "out"
      /\ UNCHANGED <<modif, waiting_feeder, table, next_fetch, fetch_head, feeder_go_lock, seen,
                     fetcher, got, skipped, content, ptr, raised>>
    BY DEF feed
<1>3. PICK l \in 0 .. TableSize - 1 : l = Load
    BY <1>1, Ring
<1>4. next_feed = Place(fetch_head, l) /\ next_feed' = Place(fetch_head, l + 1)
    BY <1>1, <1>2, <1>3, Ring, PlaceNext
<1>5. full' <=> l + 1 = TableSize
  <2>1. Place(fetch_head, 0) = fetch_head
      BY <1>1, PlaceIs DEF Wrap, Slots
  <2>2. CASE l + 1 = TableSize
    <3>1. Place(fetch_head, TableSize) = Wrap(fetch_head + TableSize)
        BY <1>1, PlaceIs
    <3>2. Wrap(fetch_head + TableSize) = fetch_head
        BY <1>1 DEF Wrap, Slots
    <3> QED
        BY <1>2, <1>4, <2>2, <3>1, <3>2
  <2>3. CASE l + 1 < TableSize
    <3>1. l + 1 \in 0 .. TableSize - 1 /\ 0 \in 0 .. TableSize - 1 /\ l + 1 # 0
        BY <2>3
    <3>2. Place(fetch_head, l + 1) # Place(fetch_head, 0)
        BY <1>1, <3>1, PlacesDiffer
    <3>3. next_feed' # fetch_head
        BY <1>4, <2>1, <3>2
    <3>4. l + 1 # TableSize
        BY <2>3
    <3> QED
        BY <1>1, <1>2, <3>3, <3>4, Zenon
  <2> QED
      BY <2>2, <2>3
<1>6. full' \in BOOLEAN /\ l + 1 \in 0 .. TableSize
    BY <1>1, <1>2
<1>7. Load' = l + 1 /\ (full' => next_feed' = fetch_head) /\ next_feed' \in Slots
  <2>1. /\ (IF full' THEN TableSize ELSE (Place(fetch_head, l + 1) - fetch_head) % TableSize) = l + 1
        /\ full' => Place(fetch_head, l + 1) = fetch_head
        /\ Place(fetch_head, l + 1) \in Slots
      BY <1>1, <1>5, <1>6, LoadOf
  <2> QED
      BY <1>2, <1>4, <2>1 DEF Load
<1>8. fed + 1 \in Data /\ kept \in Seq(Data) /\ Len(kept) = l
    BY <1>1, <1>3 DEF Data, Remainder, RingOK
<1>9. /\ kept' \in Seq(Data) /\ Len(kept') = l + 1
      /\ \A i \in 1 .. l : kept'[i] = kept[i]
      /\ kept'[l + 1] = fed + 1
    BY <1>2, <1>8, AppendProperties
<1>10. RingOK'
    BY <1>1, <1>2, <1>3, <1>6, <1>7, <1>9 DEF RingOK, Place
<1>11. ASSUME NEW k \in 0 .. l
       PROVE  Stored(k)'
  <2>1. Cell(k)' = Cell(k)
      BY <1>2 DEF Cell, Place
  <2>2. CASE k = l
      BY <1>1, <1>2, <1>4, <1>9, <2>1, <2>2 DEF Stored, Cell
  <2>3. CASE k < l
    <3>1. k \in 0 .. Load - 1 /\ k + 1 \in 1 .. l
        BY <1>3, <2>3
    <3>2. Stored(k)
        BY <3>1 DEF CellsHold
    <3> QED
        BY <1>2, <1>9, <2>1, <3>1, <3>2 DEF Stored
  <2> QED
      BY <2>2, <2>3
<1>12. CellsHold'
  <2>1. TablesOK' /\ 0 .. Load' - 1 = 0 .. l
      BY <1>2, <1>7 DEF CellsHold, TablesOK
  <2> QED
      BY <1>11, <2>1 DEF CellsHold
<1>13. FeederHolds' /\ Calm'
    BY <1>1, <1>2 DEF FeederHolds, Calm
<1>14. FetcherHolds'
  <2>1. skipped < Load' /\ skipped' = skipped /\ skipped # Load'
      BY <1>1, <1>2, <1>3, <1>7
  <2>2. CASE fetcher = "gate"
    <3>1. waiting_fetcher' = FALSE /\ fetcher_go_lock' = FALSE
      <4>1. CASE skipped < Load
          BY <1>2, <2>2, <4>1, <1>3 DEF OpenIf, FetcherHolds
      <4>2. CASE skipped = Load
          BY <1>1, <1>2, <2>2, <4>2 DEF OpenIf, FetcherHolds
      <4>3. skipped < Load \/ skipped = Load
          BY <1>1, <1>3
      <4> QED
          BY <4>1, <4>2, <4>3, Zenon
    <3> QED
        BY <1>2, <2>1, <2>2, <3>1 DEF FetcherHolds
  <2>3. CASE fetcher # "gate"
      BY <1>2, <2>1, <2>3 DEF OpenIf, FetcherHolds
  <2> QED
      BY <2>2, <2>3
<1> QED
    BY <1>10, <1>12, <1>13, <1>14

-----------------------------------------------------------------------------
(* The fetcher finds a block behind those it has skipped, or waits for it. *)
LEMMA FetchKeepsInv ==
    ASSUME TamponInv, FetchTest \/ FetcherGate \/ fetch
    PROVE  TamponInv'
<1> USE TamponAssumption DEF TamponInv
<1>1. UNCHANGED <<ring, content, kept, skipped, feederVars, waiting_feeder, feeder_go_lock>>
    BY DEF FetchTest, FetcherGate, fetch, locks, flags
<1>2. Load \in 0 .. TableSize /\ skipped <= Load /\ skipped \in Nat /\ next_fetch \in Slots
      /\ (has_readable_block_next <=> skipped < Load) /\ (is_empty <=> Load = 0)
  <2>1. Load \in 0 .. TableSize /\ (has_readable_block_next <=> skipped < Load)
        /\ (is_empty <=> Load = 0)
      BY Ring
  <2> QED
      BY <2>1 DEF RingOK
<1>3. Load' = Load /\ skipped' = skipped
    BY <1>1 DEF Load, ring
<1>4. table[next_fetch].mem \in Blocks /\ table[next_fetch].data_size \in Data
    BY <1>2 DEF CellsHold, TablesOK
<1>5. Calm' /\ FetcherHolds' /\ ptr'.feeder = ptr.feeder
  <2>1. CASE FetchTest
    <3>1. /\ fetcher = "out" /\ UNCHANGED <<modif, waiting_fetcher, got, ptr, raised>>
          /\ IF skipped < Load THEN fetcher' = "take" /\ UNCHANGED fetcher_go_lock
             ELSE fetcher_go_lock' = TRUE /\ fetcher' = "gate"
        BY <1>2, <2>1 DEF FetchTest, locks
    <3>2. CASE skipped < Load
        BY <1>2, <1>3, <3>1, <3>2 DEF Calm, FetcherHolds
    <3>3. CASE skipped = Load
        BY <1>2, <1>3, <3>1, <3>3 DEF Calm, FetcherHolds
    <3> QED
        BY <1>2, <3>2, <3>3
  <2>2. CASE FetcherGate
      BY <1>2, <1>3, <2>2 DEF Calm, FetcherHolds, FetcherGate, locks, ring, flags
  <2>3. CASE fetch
    <3>1. /\ ptr' = [ptr EXCEPT !.fetcher = table[next_fetch].mem]
          /\ got' = table[next_fetch].data_size /\ fetcher' = "has" /\ fetcher = "take"
          /\ UNCHANGED raised /\ UNCHANGED <<locks, flags, ring>> /\ skipped < Load
        BY <1>2, <2>3 DEF fetch, FetcherHolds
    <3> QED
        BY <1>2, <1>3, <1>4, <3>1 DEF Calm, FetcherHolds, locks, ring, flags
  <2> QED
      BY <2>1, <2>2, <2>3
<1> QED
    BY <1>1, <1>5, RingStays, FeederStays

(* Nothing of what the feeder goes by changes. *)
LEMMA FeederUntouched ==
    ASSUME UNCHANGED <<feederVars, waiting_feeder, feeder_go_lock, next_feed, full>>,
           ptr'.feeder = ptr.feeder,
           full = FALSE => /\ table'[next_feed] = table[next_feed]
                           /\ content'[table[next_feed].mem] = content[table[next_feed].mem]
    PROVE  FeederHolds => FeederHolds'
    BY DEF FeederHolds, feederVars

(* The call that gives a block back ends. *)
LEMMA GivenBack ==
    ASSUME FetcherHolds, Calm, fetcher = "has", FetchedOver,
           UNCHANGED <<waiting_fetcher, fetcher_go_lock>>
    PROVE  /\ FetcherHolds'
           /\ ptr' \in [feeder : Blocks, fetcher : Blocks] /\ ptr'.feeder = ptr.feeder
<1>1. 0 \in Data /\ 0 \in Blocks
    BY TamponAssumption DEF Data, Remainder, Blocks, Slots
<1> QED
    BY <1>1 DEF FetcherHolds, Calm, FetchedOver

(* What the fetcher has in hand is the block behind those skipped. *)
LEMMA InHand ==
    ASSUME TamponInv, fetcher = "has"
    PROVE  /\ skipped \in 0 .. Load - 1 /\ next_fetch = Place(fetch_head, skipped)
           /\ next_fetch \in Slots /\ ptr.fetcher = Cell(skipped).mem /\ got = Cell(skipped).data_size
           /\ ptr.fetcher \in Blocks
<1>1. Load \in 0 .. TableSize
    BY Ring DEF TamponInv
<1> QED
    BY <1>1, TamponAssumption DEF TamponInv, RingOK, FetcherHolds, Cell, Calm

(* A block put back, whole or not, is kept as it is in its slot. *)
LEMMA PutBackKeeps ==
    ASSUME TamponInv, fetcher = "has", PushBack, UNCHANGED <<fetch_head, next_feed, full>>
    PROVE  /\ Load' = Load /\ TablesOK' /\ CellsHold'
           /\ kept' \in Seq(Data) /\ Len(kept') = Load
           /\ full = FALSE => /\ table'[next_feed] = table[next_feed]
                              /\ content'[table[next_feed].mem] = content[table[next_feed].mem]
<1> USE TamponAssumption DEF TamponInv
<1>1. PICK p \in 0 .. Load - 1 : p = skipped
    BY InHand
<1>2. /\ next_fetch = Place(fetch_head, p) /\ next_fetch \in Slots /\ ptr.fetcher = Cell(p).mem
      /\ ptr.fetcher \in Blocks /\ ptr.fetcher = table[next_fetch].mem
    BY <1>1, InHand DEF Cell
<1>3. PICK n \in Data :
          /\ content' = [content EXCEPT ![ptr.fetcher] = n]
          /\ table' = [table EXCEPT ![next_fetch].data_size = n]
          /\ kept' = [kept EXCEPT ![p + 1] = n]
  <2>1. got \in Data /\ Remainder \in Data
      BY DEF FetcherHolds, Data, Remainder
  <2> QED
      BY <1>1, <2>1 DEF PushBack
<1>4. Load \in 0 .. TableSize /\ kept \in Seq(Data) /\ Len(kept) = Load
    BY Ring DEF RingOK
<1>5. Load' = Load
    BY DEF Load
<1>6. /\ kept' \in Seq(Data) /\ Len(kept') = Load /\ kept'[p + 1] = n
      /\ \A i \in 1 .. Load : i # p + 1 => kept'[i] = kept[i]
  <2>1. p + 1 \in 1 .. Len(kept)
      BY <1>1, <1>4
  <2> QED
      BY <1>3, <1>4, <2>1, ExceptSeq
<1>7. /\ TablesOK'
      /\ table'[next_fetch] = [mem |-> ptr.fetcher, data_size |-> n] /\ content'[ptr.fetcher] = n
      /\ \A s \in Slots : s # next_fetch => table'[s] = table[s]
      /\ \A b \in Blocks : b # ptr.fetcher => content'[b] = content[b]
    BY <1>2, <1>3 DEF CellsHold, TablesOK
<1>8. ASSUME NEW k \in 0 .. Load - 1
      PROVE  Stored(k)'
  <2>1. Cell(k)' = table'[Place(fetch_head, k)] /\ Place(fetch_head, k) \in Slots
      BY Apart DEF CellsHold, Cell, Place
  <2>2. CASE k = p
      BY <1>2, <1>6, <1>7, <2>1, <2>2 DEF Stored
  <2>3. CASE k # p
    <3>1. Place(fetch_head, k) # next_fetch /\ Cell(k).mem # ptr.fetcher /\ Cell(k).mem \in Blocks
        BY <1>1, <1>2, <2>1, <2>3, Apart DEF CellsHold, TablesOK, Cell
    <3>2. Cell(k)' = Cell(k)
        BY <1>7, <2>1, <3>1 DEF Cell
    <3>3. kept'[k + 1] = kept[k + 1]
        BY <1>4, <1>6, <2>3
    <3>4. Stored(k)
        BY DEF CellsHold
    <3> QED
        BY <1>7, <3>1, <3>2, <3>3, <3>4 DEF Stored
  <2> QED
      BY <2>2, <2>3
<1>9. CellsHold'
    BY <1>5, <1>7, <1>8 DEF CellsHold
<1>10. ASSUME full = FALSE
       PROVE  /\ table'[next_feed] = table[next_feed]
              /\ content'[table[next_feed].mem] = content[table[next_feed].mem]
  <2>1. Place(fetch_head, p) # next_feed /\ Cell(p).mem # table[next_feed].mem
      BY <1>1, <1>10, Apart DEF CellsHold
  <2>2. next_feed \in Slots /\ table[next_feed].mem \in Blocks
      BY DEF RingOK, CellsHold, TablesOK
  <2> QED
      BY <1>2, <1>7, <2>1, <2>2
<1> QED
    BY <1>5, <1>6, <1>7, <1>9, <1>10

(* fetch_push_back() *)
LEMMA PushBackKeepsInv ==
    ASSUME TamponInv, fetch_push_back
    PROVE  TamponInv'
<1> USE DEF TamponInv
<1>1. /\ fetcher = "has" /\ PushBack /\ FetchedOver
      /\ UNCHANGED <<modif, waiting_feeder, waiting_fetcher, next_feed, next_fetch, fetch_head, full,
                     feeder_go_lock, fetcher_go_lock, feederVars, skipped, raised>>
    BY DEF fetch_push_back, locks, flags
<1>2. /\ Load' = Load /\ TablesOK' /\ CellsHold'
      /\ kept' \in Seq(Data) /\ Len(kept') = Load
      /\ full = FALSE => /\ table'[next_feed] = table[next_feed]
                         /\ content'[table[next_feed].mem] = content[table[next_feed].mem]
    BY <1>1, PutBackKeeps
<1>3. FetcherHolds' /\ ptr' \in [feeder : Blocks, fetcher : Blocks] /\ ptr'.feeder = ptr.feeder
    BY <1>1, GivenBack
<1>4. FeederHolds'
    BY <1>1, <1>2, <1>3, FeederUntouched
<1>5. RingOK' /\ Calm'
    BY <1>1, <1>2, <1>3 DEF RingOK, Calm, Place
<1> QED
    BY <1>2, <1>3, <1>4, <1>5

(* fetch_push_back_and_skip() when SkipIsSafe: there is room for one block *)
(* more among those skipped.                                               *)
LEMMA SkipKeepsInv ==
    ASSUME TamponInv, ~exposed', fetch_push_back_and_skip
    PROVE  TamponInv'
<1> USE TamponAssumption DEF TamponInv
<1>1. /\ fetcher = "has" /\ PushBack /\ FetchedOver /\ SkipIsSafe
      /\ UNCHANGED <<waiting_feeder, waiting_fetcher, next_feed, fetch_head, full,
                     feeder_go_lock, fetcher_go_lock, feederVars>>
    BY DEF fetch_push_back_and_skip, flags
<1>2. /\ next_fetch' = shift_by_one(next_fetch) /\ skipped' = skipped + 1
      /\ UNCHANGED <<raised, modif>>
    BY <1>1 DEF fetch_push_back_and_skip, SkipIsSafe
<1>3. /\ Load' = Load /\ TablesOK' /\ CellsHold'
      /\ kept' \in Seq(Data) /\ Len(kept') = Load
      /\ full = FALSE => /\ table'[next_feed] = table[next_feed]
                         /\ content'[table[next_feed].mem] = content[table[next_feed].mem]
    BY <1>1, PutBackKeeps
<1>4. FetcherHolds' /\ ptr' \in [feeder : Blocks, fetcher : Blocks] /\ ptr'.feeder = ptr.feeder
    BY <1>1, GivenBack
<1>5. FeederHolds'
    BY <1>1, <1>3, <1>4, FeederUntouched
<1>6. PICK p \in 0 .. Load - 1 : p = skipped
    BY <1>1, InHand
<1>7. Load \in 0 .. TableSize /\ fetch_head \in Slots /\ full \in BOOLEAN
      /\ (full = FALSE => Load \in 0 .. TableSize - 1) /\ next_feed = Place(fetch_head, Load)
    BY Ring DEF RingOK
<1>8. shift_by_one(next_fetch) = Place(fetch_head, p + 1) /\ next_fetch' \in Slots
  <2>1. p \in 0 .. TableSize - 1 /\ next_fetch = Place(fetch_head, p) /\ next_fetch \in Slots
      BY <1>1, <1>6, <1>7, InHand
  <2> QED
      BY <1>2, <1>7, <2>1, PlaceNext, ShiftIs
<1>9. p + 1 \in 0 .. TableSize - 1
  <2>1. CASE full = FALSE
      BY <1>7, <2>1
  <2>2. CASE full = TRUE
    <3>1. shift_by_one(next_fetch) # next_feed
        BY <1>1, <2>2 DEF SkipIsSafe
    <3>2. p + 1 # Load
        BY <1>7, <1>8, <3>1
    <3> QED
        BY <1>6, <1>7, <3>2
  <2> QED
      BY <1>7, <2>1, <2>2
<1>10. RingOK'
  <2>1. p + 1 <= Load
      BY <1>6, <1>7
  <2>2. next_fetch' = Place(fetch_head', skipped') /\ skipped' \in 0 .. TableSize - 1
        /\ skipped' <= Load'
      BY <1>1, <1>2, <1>3, <1>6, <1>8, <1>9, <2>1 DEF Place
  <2> QED
      BY <1>1, <1>3, <1>8, <2>2 DEF RingOK
<1>11. Calm'
    BY <1>2, <1>4 DEF Calm
<1> QED
    BY <1>3, <1>4, <1>5, <1>10, <1>11

-----------------------------------------------------------------------------
(* The feeder that waits is let go, and what the others go by stays. *)
LEMMA RecycledForFeeder ==
    ASSUME FeederHolds, full \in BOOLEAN, OpenIf(feeder_go_lock, waiting_feeder), full' = FALSE,
           UNCHANGED feederVars, ptr'.feeder = ptr.feeder,
           \/ feeder \in {"out", "gate"}
           \/ /\ next_feed' = next_feed \/ ~HoldsIndex
              /\ table'[next_feed'] = table[next_feed]
              /\ content'[table[next_feed].mem] = content[table[next_feed].mem]
    PROVE  FeederHolds'
<1>1. waiting_feeder' = (IF feeder = "gate" THEN FALSE ELSE TRUE) /\ feeder_go_lock' = FALSE
  <2>1. CASE feeder = "gate" /\ full = TRUE
      BY <2>1 DEF FeederHolds, OpenIf
  <2>2. CASE feeder = "gate" /\ full = FALSE
      BY <2>2 DEF FeederHolds, OpenIf
  <2>3. CASE feeder # "gate"
      BY <2>3 DEF FeederHolds, OpenIf
  <2> QED
      BY <2>1, <2>2, <2>3
<1>2. feeder' = feeder /\ seen' = seen /\ fed' = fed
    BY DEF feederVars
<1>3. CASE feeder \in {"out", "gate"}
    BY <1>1, <1>2, <1>3 DEF FeederHolds
<1>4. CASE /\ next_feed' = next_feed \/ ~HoldsIndex
           /\ table'[next_feed'] = table[next_feed]
           /\ content'[table[next_feed].mem] = content[table[next_feed].mem]
    BY <1>1, <1>2, <1>4 DEF FeederHolds, HoldsIndex
<1> QED
    BY <1>3, <1>4

(* The block of index p + 1 is recycled: those behind it come one nearer,  *)
(* and none of them loses its content.                                     *)
LEMMA RecycledForFetcher ==
    ASSUME TamponInv, fetcher = "has", NEW p \in 0 .. Load - 1, p = skipped,
           content' = [content EXCEPT ![ptr.fetcher] = 0], kept' = Recycled
    PROVE  /\ kept' \in Seq(Data) /\ Len(kept') = Load - 1
           /\ content' \in [Blocks -> Data]
           /\ \A k \in 0 .. Load - 2 :
                  LET j == IF k < p THEN k ELSE k + 1
                  IN /\ j \in 0 .. Load - 1
                     /\ kept'[k + 1] = Cell(j).data_size /\ kept'[k + 1] = content'[Cell(j).mem]
<1> USE TamponAssumption DEF TamponInv
<1>1. Load \in 0 .. TableSize /\ kept \in Seq(Data) /\ Len(kept) = Load
    BY Ring DEF RingOK
<1>2. ptr.fetcher = Cell(p).mem /\ ptr.fetcher \in Blocks
    BY InHand
<1>3. p + 1 \in 1 .. Len(kept) /\ kept' = RemoveAt(kept, p + 1)
  <2>1. p + 1 \in 1 .. Len(kept) /\ DOMAIN kept = 1 .. Len(kept)
      BY <1>1
  <2> QED
      BY <2>1 DEF Recycled
<1>4. /\ kept' \in Seq(Data) /\ Len(kept') = Load - 1
      /\ \A i \in 1 .. Load - 1 : kept'[i] = IF i < p + 1 THEN kept[i] ELSE kept[i + 1]
    BY <1>1, <1>3, Removed
<1>5. 0 \in Data /\ content \in [Blocks -> Data]
    BY DEF Data, Remainder, CellsHold, TablesOK
<1>6. ASSUME NEW k \in 0 .. Load - 2, NEW j \in Int, j = IF k < p THEN k ELSE k + 1
      PROVE  /\ j \in 0 .. Load - 1
             /\ kept'[k + 1] = Cell(j).data_size /\ kept'[k + 1] = content'[Cell(j).mem]
  <2>1. j \in 0 .. Load - 1 /\ j # p /\ k + 1 \in 1 .. Load - 1
      BY <1>1, <1>6
  <2>2. kept'[k + 1] = kept[j + 1]
      BY <1>1, <1>4, <1>6, <2>1
  <2>3. Stored(j) /\ Cell(j).mem # ptr.fetcher
      BY <1>2, <2>1, Apart DEF CellsHold
  <2>4. Cell(j).mem \in Blocks
      BY <2>1, Apart DEF CellsHold, TablesOK, Cell
  <2> QED
      BY <1>5, <2>1, <2>2, <2>3, <2>4 DEF Stored
<1>7. content' \in [Blocks -> Data]
    BY <1>2, <1>5
<1>8. ASSUME NEW k \in 0 .. Load - 2
      PROVE  LET j == IF k < p THEN k ELSE k + 1
             IN /\ j \in 0 .. Load - 1
                /\ kept'[k + 1] = Cell(j).data_size /\ kept'[k + 1] = content'[Cell(j).mem]
  <2>1. PICK j \in Int : j = IF k < p THEN k ELSE k + 1
      BY <1>1
  <2> QED
      BY <1>6, <2>1
<1> QED
    BY <1>4, <1>7, <1>8

(* The first block of the ring is recycled: its slot is given back. *)
LEMMA RecycleFirstKeepsInv ==
    ASSUME TamponInv, fetch_recycle, next_fetch = fetch_head
    PROVE  TamponInv'
<1> USE TamponAssumption DEF TamponInv
<1>1. /\ fetcher = "has" /\ fetch_head' = shift_by_one(fetch_head) /\ next_fetch' = fetch_head'
      /\ full' = FALSE /\ OpenIf(feeder_go_lock, waiting_feeder)
      /\ kept' = Recycled /\ content' = [content EXCEPT ![ptr.fetcher] = 0]
      /\ FetchedOver
      /\ UNCHANGED <<table, next_feed, modif, waiting_fetcher, fetcher_go_lock, feederVars, skipped,
                     raised>>
    BY DEF fetch_recycle
<1>2. /\ Load \in 0 .. TableSize /\ fetch_head \in Slots /\ next_feed = Place(fetch_head, Load)
      /\ skipped = 0 /\ full \in BOOLEAN
    BY Ring DEF RingOK
<1>3. Load >= 1
    BY <1>1, <1>2, InHand
<1>4. PICK l \in 0 .. TableSize - 1 : Load = l + 1
    BY <1>2, <1>3
<1>5. fetch_head' \in Slots /\ next_feed = Place(fetch_head', l) /\ fetch_head' = Place(fetch_head', 0)
  <2>1. fetch_head' \in Slots
      BY <1>1, <1>2, ShiftIs
  <2>2. Place(fetch_head', 0) = fetch_head'
      BY <2>1, PlaceIs DEF Wrap, Slots
  <2>3. Place(fetch_head', l) = Place(fetch_head, l + 1)
      BY <1>1, <1>2, <1>4, PlaceNext
  <2> QED
      BY <1>2, <1>4, <2>1, <2>2, <2>3
<1>6. Load' = l
  <2>1. l # TableSize /\ l \in 0 .. TableSize
      BY <1>4
  <2>2. (IF FALSE THEN TableSize ELSE (Place(fetch_head', l) - fetch_head') % TableSize) = l
      BY <1>5, <2>1, LoadOf
  <2> QED
      BY <1>1, <1>5, <2>2 DEF Load
<1>7. /\ kept' \in Seq(Data) /\ Len(kept') = l /\ content' \in [Blocks -> Data]
      /\ \A k \in 0 .. l - 1 : /\ k + 1 \in 0 .. Load - 1
                               /\ kept'[k + 1] = Cell(k + 1).data_size
                               /\ kept'[k + 1] = content'[Cell(k + 1).mem]
  <2>1. PICK p \in 0 .. Load - 1 : p = 0 /\ p = skipped
      BY <1>2, <1>3
  <2>2. Load - 1 = l /\ Load - 2 = l - 1
      BY <1>4
  <2>3. /\ kept' \in Seq(Data) /\ Len(kept') = Load - 1
        /\ content' \in [Blocks -> Data]
        /\ \A k \in 0 .. Load - 2 :
               LET j == IF k < p THEN k ELSE k + 1
               IN /\ j \in 0 .. Load - 1
                  /\ kept'[k + 1] = Cell(j).data_size /\ kept'[k + 1] = content'[Cell(j).mem]
      BY <1>1, <2>1, RecycledForFetcher
  <2>4. ASSUME NEW k \in 0 .. l - 1
        PROVE  (IF k < p THEN k ELSE k + 1) = k + 1
      BY <1>4, <2>1
  <2> QED
      BY <2>2, <2>3, <2>4
<1>8. ASSUME NEW k \in 0 .. l - 1
      PROVE  Stored(k)'
  <2>1. Place(fetch_head', k) = Place(fetch_head, k + 1)
      BY <1>1, <1>2, <1>4, PlaceNext
  <2>2. Cell(k)' = Cell(k + 1)
      BY <1>1, <2>1 DEF Cell, Place
  <2> QED
      BY <1>7, <2>2 DEF Stored
<1>9. CellsHold'
    BY <1>1, <1>6, <1>7, <1>8 DEF CellsHold, TablesOK
<1>10. RingOK'
  <2>1. next_feed' \in Slots /\ skipped' \in 0 .. TableSize - 1 /\ skipped' = 0
      BY <1>1, <1>2 DEF RingOK
  <2>2. next_fetch' = Place(fetch_head', skipped') /\ next_fetch' \in Slots
      BY <1>1, <1>5, <2>1
  <2>3. skipped' <= Load' /\ Len(kept') = Load' /\ kept' \in Seq(Data)
      BY <1>6, <1>7, <2>1
  <2> QED
      BY <1>1, <1>5, <2>1, <2>2, <2>3 DEF RingOK, Place
<1>11. FetcherHolds' /\ Calm' /\ ptr'.feeder = ptr.feeder
    BY <1>1, GivenBack DEF Calm
<1>12. FeederHolds'
  <2>1. CASE full = TRUE
    <3>1. feeder \in {"out", "gate"}
        BY <2>1 DEF FeederHolds
    <3> QED
        BY <1>1, <1>2, <1>11, <3>1, RecycledForFeeder
  <2>2. CASE full = FALSE
    <3>1. 0 \in 0 .. Load - 1
        BY <1>2, <1>3
    <3>2. ptr.fetcher = Cell(0).mem /\ Cell(0).mem # table[next_feed].mem
        BY <1>1, <1>2, <2>2, <3>1, InHand, Apart DEF CellsHold
    <3>3. table[next_feed].mem \in Blocks /\ content \in [Blocks -> Data]
        BY DEF RingOK, CellsHold, TablesOK
    <3>4. content'[table[next_feed].mem] = content[table[next_feed].mem]
        BY <1>1, <3>2, <3>3
    <3> QED
        BY <1>1, <1>2, <1>11, <3>4, RecycledForFeeder
  <2> QED
      BY <1>2, <2>1, <2>2
<1> QED
    BY <1>9, <1>10, <1>11, <1>12

-----------------------------------------------------------------------------
(* fetch_recycle() behind p skipped blocks, when l blocks are in the ring  *)

(* How far a slot is behind another one *)
LEMMA Distance ==
    ASSUME NEW h \in Slots, NEW j \in 0 .. TableSize - 1, NEW k \in 0 .. TableSize - 1
    PROVE  (Place(h, j) - Place(h, k) - 1) % TableSize =
               IF j > k THEN j - k - 1 ELSE j - k - 1 + TableSize
<1>1. j \in 0 .. TableSize /\ k \in 0 .. TableSize
    BY TamponAssumption
<1>2. /\ Place(h, j) = Wrap(h + j) /\ Place(h, j) \in Slots
      /\ Place(h, k) = Wrap(h + k) /\ Place(h, k) \in Slots
    BY <1>1, PlaceIs
<1>3. Place(h, j) - Place(h, k) - 1 \in -TableSize .. 2 * TableSize - 1
    BY <1>2, TamponAssumption DEF Slots
<1>4. (Place(h, j) - Place(h, k) - 1) % TableSize = Wrap(Place(h, j) - Place(h, k) - 1)
    BY <1>3, RoundOnce
<1> QED
    BY <1>2, <1>4, TamponAssumption DEF Wrap, Slots

(* The slots between the block recycled and the last one are moved. *)
LEMMA MovedIs ==
    ASSUME NEW h \in Slots, NEW p \in 0 .. TableSize - 1, NEW l \in 0 .. TableSize - 1, p < l,
           next_fetch = Place(h, p), next_feed = Place(h, l), NEW k \in 0 .. TableSize - 1
    PROVE  Place(h, k) \in Moved <=> p < k /\ k < l
<1> USE TamponAssumption
<1>1. Place(h, k) \in Slots /\ (Place(h, k) = next_fetch <=> k = p)
    BY PlaceIs, PlacesDiffer
<1>2. (next_feed - next_fetch - 1) % TableSize = l - p - 1
    BY Distance
<1>3. (Place(h, k) - next_fetch - 1) % TableSize =
          IF k > p THEN k - p - 1 ELSE k - p - 1 + TableSize
    BY Distance
<1> QED
    BY <1>1, <1>2, <1>3 DEF Moved

(* Where the block that comes to place k was before *)
From(p, l, k) == IF p <= k /\ k < l THEN k + 1 ELSE IF k = l THEN p ELSE k

(* No two blocks come to the same place. *)
LEMMA FromIs ==
    ASSUME NEW p \in 0 .. TableSize - 1, NEW l \in 0 .. TableSize - 1, p < l
    PROVE  /\ \A k \in 0 .. TableSize - 1 : From(p, l, k) \in 0 .. TableSize - 1
           /\ \A j, k \in 0 .. TableSize - 1 : From(p, l, j) = From(p, l, k) => j = k
    BY TamponAssumption DEF From

(* The table after the move: memory blocks go round from p to l, and those *)
(* still in use take their sizes with them.                                *)
LEMMA SqueezedIs ==
    ASSUME NEW h \in Slots, NEW p \in 0 .. TableSize - 1, NEW l \in 0 .. TableSize - 1, p < l,
           next_fetch = Place(h, p), next_feed = Place(h, l), TablesOK,
           NEW k \in 0 .. TableSize - 1
    PROVE  /\ Squeezed[Place(h, k)] \in [mem : Blocks, data_size : Data]
           /\ Squeezed[Place(h, k)].mem =
                  table[Place(h, IF p <= k /\ k < l - 1 THEN k + 1
                                 ELSE IF k = l - 1 THEN p ELSE k)].mem
           /\ k # l - 1 =>
                  Squeezed[Place(h, k)] = table[Place(h, IF p <= k /\ k < l - 1 THEN k + 1 ELSE k)]
<1> USE TamponAssumption
<1>1. \A j \in 0 .. TableSize - 1 : /\ Place(h, j) \in Slots
                                    /\ table[Place(h, j)] \in [mem : Blocks, data_size : Data]
    BY PlaceIs DEF TablesOK
<1>2. shift_by_one(Place(h, k)) \in Moved <=> p <= k /\ k < l - 1
  <2>1. shift_by_one(Place(h, k)) = Place(h, k + 1)
      BY PlaceNext
  <2>2. CASE k + 1 \in 0 .. TableSize - 1
      BY <2>1, <2>2, MovedIs
  <2>3. CASE k + 1 = TableSize
    <3>1. Place(h, TableSize) = Wrap(h + TableSize) /\ Place(h, 0) = Wrap(h + 0)
        BY PlaceIs
    <3>2. Place(h, k + 1) = Place(h, 0) /\ 0 \in 0 .. TableSize - 1
        BY <2>3, <3>1 DEF Wrap, Slots
    <3>3. Place(h, 0) \in Moved <=> p < 0 /\ 0 < l
        BY <3>2, MovedIs
    <3> QED
        BY <2>1, <2>3, <3>2, <3>3
  <2> QED
      BY <2>2, <2>3
<1>3. p <= k /\ k < l - 1 => shift_by_one(Place(h, k)) = Place(h, k + 1)
    BY PlaceNext
<1>4. shift_back_by_one(next_feed) = Place(h, l - 1) /\ l - 1 \in 0 .. TableSize - 1
  <2>1. l - 1 \in 0 .. TableSize - 1 /\ (l - 1) + 1 = l
      BY DEF Slots
  <2>2. shift_back_by_one(Place(h, (l - 1) + 1)) = Place(h, l - 1)
      BY <2>1, PlaceNext
  <2> QED
      BY <2>1, <2>2
<1>5. Place(h, k) = Place(h, l - 1) <=> k = l - 1
    BY <1>4, PlacesDiffer
<1>6. Moved = {} => p = l - 1
    BY <1>4, MovedIs
<1>7. Place(h, k) \in Slots
    BY <1>1
<1>8. Squeezed[Place(h, k)] =
          IF shift_by_one(Place(h, k)) \in Moved THEN table[shift_by_one(Place(h, k))]
          ELSE IF Moved # {} /\ Place(h, k) = shift_back_by_one(next_feed)
                 THEN [mem |-> table[next_fetch].mem, data_size |-> 0]
                 ELSE table[Place(h, k)]
    BY <1>7 DEF Squeezed
<1>9. CASE p <= k /\ k < l - 1
  <2>1. Squeezed[Place(h, k)] = table[Place(h, k + 1)] /\ k + 1 \in 0 .. TableSize - 1 /\ k # l - 1
      BY <1>2, <1>3, <1>8, <1>9
  <2> QED
      BY <1>1, <1>9, <2>1
<1>10. CASE k = l - 1
  <2>1. CASE Moved # {}
    <3>1. Squeezed[Place(h, k)] = [mem |-> table[next_fetch].mem, data_size |-> 0]
        BY <1>2, <1>4, <1>5, <1>8, <1>10, <2>1
    <3>2. 0 \in Data /\ table[next_fetch].mem \in Blocks
        BY <1>1 DEF Data, Remainder
    <3> QED
        BY <1>10, <3>1, <3>2
  <2>2. CASE Moved = {}
    <3>1. Squeezed[Place(h, k)] = table[Place(h, k)] /\ k = p
        BY <1>2, <1>6, <1>8, <1>10, <2>2
    <3> QED
        BY <1>1, <1>10, <3>1
  <2> QED
      BY <2>1, <2>2
<1>11. CASE ~(p <= k /\ k < l - 1) /\ k # l - 1
  <2>1. Squeezed[Place(h, k)] = table[Place(h, k)]
      BY <1>2, <1>4, <1>5, <1>8, <1>11
  <2> QED
      BY <1>1, <1>11, <2>1
<1> QED
    BY <1>9, <1>10, <1>11

(* And after the swap, for the feeder that has the block of next_feed. *)
LEMMA SwappedIs ==
    ASSUME NEW h \in Slots, NEW p \in 0 .. TableSize - 1, NEW l \in 0 .. TableSize - 1, p < l,
           next_fetch = Place(h, p), next_feed = Place(h, l), TablesOK
    PROVE  /\ shift_back_by_one(next_feed) = Place(h, l - 1)
           /\ Swapped(Squeezed) \in [Slots -> [mem : Blocks, data_size : Data]]
           /\ \A k \in 0 .. TableSize - 1 :
                  Swapped(Squeezed)[Place(h, k)].mem = table[Place(h, From(p, l, k))].mem
           /\ \A k \in 0 .. l - 2 :
                  Swapped(Squeezed)[Place(h, k)] = table[Place(h, IF k < p THEN k ELSE k + 1)]
           /\ Swapped(Squeezed)[Place(h, l - 1)] = table[Place(h, l)]
<1> USE TamponAssumption
<1>1. shift_back_by_one(next_feed) = Place(h, l - 1) /\ l - 1 \in 0 .. TableSize - 1
  <2>1. l - 1 \in 0 .. TableSize - 1 /\ (l - 1) + 1 = l
      BY DEF Slots
  <2>2. shift_back_by_one(Place(h, (l - 1) + 1)) = Place(h, l - 1)
      BY <2>1, PlaceNext
  <2> QED
      BY <2>1, <2>2
<1>2. \A k \in 0 .. TableSize - 1 : Place(h, k) \in Slots
    BY PlaceIs
<1>3. \A j, k \in 0 .. TableSize - 1 : Place(h, j) = Place(h, k) => j = k
    BY PlacesDiffer
<1>4. ASSUME NEW k \in 0 .. TableSize - 1
      PROVE  Swapped(Squeezed)[Place(h, k)] =
                 Squeezed[Place(h, IF k = l - 1 THEN l ELSE IF k = l THEN l - 1 ELSE k)]
  <2>1. Swapped(Squeezed) = [Squeezed EXCEPT ![Place(h, l - 1)] = Squeezed[Place(h, l)],
                                             ![Place(h, l)] = Squeezed[Place(h, l - 1)]]
      BY <1>1 DEF Swapped
  <2>2. DOMAIN Squeezed = Slots
      BY DEF Squeezed
  <2>3. PICK f : f = Squeezed
      OBVIOUS
  <2>4. \A s \in Slots : Swapped(Squeezed)[s] =
            IF s = Place(h, l) THEN f[Place(h, l - 1)]
            ELSE IF s = Place(h, l - 1) THEN f[Place(h, l)] ELSE f[s]
      BY <1>1, <1>2, <1>3, <2>1, <2>2, <2>3
  <2>5. /\ Place(h, k) \in Slots
        /\ Place(h, k) = Place(h, l) <=> k = l
        /\ Place(h, k) = Place(h, l - 1) <=> k = l - 1
      BY <1>1, <1>2, <1>3
  <2> QED
      BY <1>1, <2>3, <2>4, <2>5
<1>5. ASSUME NEW k \in 0 .. TableSize - 1
      PROVE  /\ Swapped(Squeezed)[Place(h, k)] \in [mem : Blocks, data_size : Data]
             /\ Swapped(Squeezed)[Place(h, k)].mem = table[Place(h, From(p, l, k))].mem
  <2>1. CASE k = l - 1
    <3>1. /\ Squeezed[Place(h, l)] \in [mem : Blocks, data_size : Data]
          /\ Squeezed[Place(h, l)] = table[Place(h, l)]
        BY <1>1, SqueezedIs
    <3>2. From(p, l, k) = l
        BY <1>1, <2>1 DEF From
    <3> QED
        BY <1>4, <2>1, <3>1, <3>2
  <2>2. CASE k = l
    <3>1. /\ Squeezed[Place(h, l - 1)] \in [mem : Blocks, data_size : Data]
          /\ Squeezed[Place(h, l - 1)].mem = table[Place(h, p)].mem
        BY <1>1, SqueezedIs
    <3>2. From(p, l, k) = p /\ k # l - 1
        BY <1>1, <2>2 DEF From
    <3> QED
        BY <1>4, <2>2, <3>1, <3>2
  <2>3. CASE k # l /\ k # l - 1
    <3>1. /\ Squeezed[Place(h, k)] \in [mem : Blocks, data_size : Data]
          /\ Squeezed[Place(h, k)] = table[Place(h, IF p <= k /\ k < l - 1 THEN k + 1 ELSE k)]
        BY <2>3, SqueezedIs
    <3>2. From(p, l, k) = IF p <= k /\ k < l - 1 THEN k + 1 ELSE k
        BY <2>3 DEF From
    <3> QED
        BY <1>4, <2>3, <3>1, <3>2
  <2> QED
      BY <2>1, <2>2, <2>3
<1>6. Swapped(Squeezed) \in [Slots -> [mem : Blocks, data_size : Data]]
  <2>1. \A s \in Slots : Squeezed[s] \in [mem : Blocks, data_size : Data]
      BY PlaceOf, SqueezedIs
  <2>2. Squeezed = [s \in Slots |-> Squeezed[s]]
      BY DEF Squeezed
  <2>3. PICK f : f = Squeezed
      OBVIOUS
  <2>4. f \in [Slots -> [mem : Blocks, data_size : Data]]
      BY <2>1, <2>2, <2>3
  <2>5. Place(h, l - 1) \in Slots /\ Place(h, l) \in Slots
      BY <1>1, <1>2
  <2>6. [f EXCEPT ![Place(h, l - 1)] = f[Place(h, l)], ![Place(h, l)] = f[Place(h, l - 1)]]
            \in [Slots -> [mem : Blocks, data_size : Data]]
      BY <2>4, <2>5
  <2> QED
      BY <1>1, <2>3, <2>6 DEF Swapped
<1>7. ASSUME NEW k \in 0 .. l - 2
      PROVE  Swapped(Squeezed)[Place(h, k)] = table[Place(h, IF k < p THEN k ELSE k + 1)]
  <2>1. k \in 0 .. TableSize - 1 /\ k # l /\ k # l - 1 /\ k < l - 1
      BY <1>1
  <2>2. Swapped(Squeezed)[Place(h, k)] = Squeezed[Place(h, k)]
      BY <1>4, <2>1
  <2>3. Squeezed[Place(h, k)] = table[Place(h, IF p <= k /\ k < l - 1 THEN k + 1 ELSE k)]
      BY <2>1, SqueezedIs
  <2>4. (IF p <= k /\ k < l - 1 THEN k + 1 ELSE k) = IF k < p THEN k ELSE k + 1
      BY <2>1
  <2> QED
      BY <2>2, <2>3, <2>4
<1>8. Swapped(Squeezed)[Place(h, l - 1)] = table[Place(h, l)]
  <2>1. Swapped(Squeezed)[Place(h, l - 1)] = Squeezed[Place(h, l)]
      BY <1>1, <1>4
  <2>2. Squeezed[Place(h, l)] = table[Place(h, l)]
      BY <1>1, SqueezedIs
  <2> QED
      BY <2>1, <2>2
<1> QED
    BY <1>1, <1>5, <1>6, <1>7, <1>8

(* A block is recycled behind skipped ones, when RecycleIsSafe. *)
LEMMA RecycleBehindKeepsInv ==
    ASSUME TamponInv, ~exposed', fetch_recycle, next_fetch # fetch_head
    PROVE  TamponInv'
<1> USE TamponAssumption DEF TamponInv
<1>1. /\ fetcher = "has" /\ full = FALSE /\ ~HoldsIndex
      /\ table' = Swapped(Squeezed) /\ next_feed' = shift_back_by_one(next_feed)
      /\ full' = FALSE /\ OpenIf(feeder_go_lock, waiting_feeder)
      /\ kept' = Recycled /\ content' = [content EXCEPT ![ptr.fetcher] = 0]
      /\ FetchedOver
      /\ UNCHANGED <<fetch_head, next_fetch, modif, waiting_fetcher, fetcher_go_lock, feederVars,
                     skipped, raised>>
    BY DEF fetch_recycle, RecycleIsSafe, RingOK
<1>2. PICK l \in 0 .. TableSize - 1 : l = Load
    BY <1>1, Ring
<1>3. PICK p \in 0 .. Load - 1 : p = skipped
    BY <1>1, InHand
<1>4. p \in 0 .. TableSize - 1 /\ p < l /\ l - 1 \in 0 .. TableSize - 1 /\ l - 1 \in 0 .. TableSize
    BY <1>2, <1>3
<1>5. fetch_head \in Slots /\ next_fetch = Place(fetch_head, p) /\ next_feed = Place(fetch_head, l)
    BY <1>2, <1>3, Ring DEF RingOK
<1>6. /\ next_feed' = Place(fetch_head, l - 1)
      /\ table' \in [Slots -> [mem : Blocks, data_size : Data]]
      /\ \A k \in 0 .. TableSize - 1 :
             table'[Place(fetch_head, k)].mem = Cell(From(p, l, k)).mem
      /\ \A k \in 0 .. l - 2 :
             table'[Place(fetch_head, k)] = Cell(IF k < p THEN k ELSE k + 1)
    BY <1>1, <1>4, <1>5, SwappedIs DEF CellsHold, Cell
<1>7. Load' = l - 1 /\ next_feed' \in Slots
  <2>1. (IF FALSE THEN TableSize ELSE (Place(fetch_head, l - 1) - fetch_head) % TableSize) = l - 1
        /\ Place(fetch_head, l - 1) \in Slots
    <3>1. l - 1 # TableSize
        BY <1>4
    <3> QED
        BY <1>4, <1>5, <3>1, LoadOf
  <2> QED
      BY <1>1, <1>6, <2>1 DEF Load
<1>8. /\ kept' \in Seq(Data) /\ Len(kept') = l - 1 /\ content' \in [Blocks -> Data]
      /\ \A k \in 0 .. l - 2 :
             LET j == IF k < p THEN k ELSE k + 1
             IN kept'[k + 1] = Cell(j).data_size /\ kept'[k + 1] = content'[Cell(j).mem]
    BY <1>1, <1>2, <1>3, RecycledForFetcher
<1>9. ASSUME NEW s \in Slots, NEW u \in Slots, table'[s].mem = table'[u].mem
      PROVE  s = u
  <2>1. PICK j \in 0 .. TableSize - 1 : s = Place(fetch_head, j)
      BY <1>5, PlaceOf
  <2>2. PICK k \in 0 .. TableSize - 1 : u = Place(fetch_head, k)
      BY <1>5, PlaceOf
  <2>3. From(p, l, j) \in 0 .. TableSize - 1 /\ From(p, l, k) \in 0 .. TableSize - 1
        /\ (From(p, l, j) = From(p, l, k) => j = k)
      BY <1>4, FromIs
  <2>4. Cell(From(p, l, j)).mem = Cell(From(p, l, k)).mem
      BY <1>6, <1>9, <2>1, <2>2
  <2>5. Place(fetch_head, From(p, l, j)) \in Slots /\ Place(fetch_head, From(p, l, k)) \in Slots
      BY <1>5, <2>3, PlaceIs
  <2>6. Place(fetch_head, From(p, l, j)) = Place(fetch_head, From(p, l, k))
      BY <2>4, <2>5 DEF CellsHold, TablesOK, Cell
  <2> QED
      BY <1>5, <2>1, <2>2, <2>3, <2>6, PlacesDiffer
<1>10. ASSUME NEW k \in 0 .. l - 2
       PROVE  Stored(k)'
  <2>1. Cell(k)' = table'[Place(fetch_head, k)]
      BY <1>1 DEF Cell, Place
  <2>2. PICK j : j = IF k < p THEN k ELSE k + 1
      OBVIOUS
  <2>3. table'[Place(fetch_head, k)] = Cell(j)
      BY <1>6, <2>2
  <2>4. kept'[k + 1] = Cell(j).data_size /\ kept'[k + 1] = content'[Cell(j).mem]
      BY <1>8, <2>2
  <2> QED
      BY <2>1, <2>3, <2>4 DEF Stored
<1>11. CellsHold'
  <2>1. 0 .. Load' - 1 = 0 .. l - 2
      BY <1>4, <1>7
  <2> QED
      BY <1>6, <1>8, <1>9, <1>10, <2>1 DEF CellsHold, TablesOK
<1>12. RingOK'
  <2>1. skipped' \in 0 .. TableSize - 1 /\ skipped' <= Load' /\ next_fetch' \in Slots
      BY <1>1, <1>3, <1>4, <1>7 DEF RingOK
  <2>2. next_fetch' = Place(fetch_head', skipped')
      BY <1>1, <1>3, <1>5
  <2> QED
      BY <1>1, <1>5, <1>7, <1>8, <2>1, <2>2 DEF RingOK, Place
<1>13. FetcherHolds' /\ Calm' /\ ptr'.feeder = ptr.feeder
    BY <1>1, GivenBack DEF Calm
<1>14. /\ table'[next_feed'] = table[next_feed]
       /\ content'[table[next_feed].mem] = content[table[next_feed].mem]
  <2>1. Place(fetch_head, p) # next_feed /\ Cell(p).mem # table[next_feed].mem
      BY <1>1, <1>3, Apart DEF CellsHold
  <2>2. table[next_feed].mem \in Blocks /\ content \in [Blocks -> Data] /\ ptr.fetcher = Cell(p).mem
      BY <1>1, <1>3, InHand DEF RingOK, CellsHold, TablesOK
  <2>3. table'[Place(fetch_head, l - 1)] = table[Place(fetch_head, l)]
      BY <1>1, <1>4, <1>5, SwappedIs DEF CellsHold
  <2> QED
      BY <1>1, <1>5, <1>6, <2>1, <2>2, <2>3
<1>15. FeederHolds'
    BY <1>1, <1>13, <1>14, RecycledForFeeder
<1> QED
    BY <1>11, <1>12, <1>13, <1>15

-----------------------------------------------------------------------------
(* The fetcher comes back to the first block it has skipped. *)
LEMMA SkipBackKeepsInv ==
    ASSUME TamponInv, fetch_skip_back
    PROVE  TamponInv'
<1> USE TamponAssumption DEF TamponInv
<1>1. /\ fetcher = "out" /\ next_fetch' = fetch_head /\ skipped' = 0
      /\ UNCHANGED <<locks, table, next_feed, fetch_head, full, flags, feederVars, fetcher, got, kept,
                     content, ptr, raised>>
    BY DEF fetch_skip_back
<1>2. Load' = Load /\ Load \in Nat /\ fetch_head \in Slots
    BY <1>1, Ring DEF Load, RingOK
<1>3. Place(fetch_head, 0) = fetch_head
    BY <1>2, PlaceIs DEF Wrap, Slots
<1>4. RingOK'
  <2>1. next_fetch' = Place(fetch_head', skipped')
      BY <1>1, <1>3
  <2> QED
      BY <1>1, <1>2, <2>1 DEF RingOK, Place
<1>5. CellsHold'
  <2>1. ASSUME NEW k PROVE Stored(k)' <=> Stored(k)
      BY <1>1 DEF Stored, Cell, Place
  <2> QED
      BY <1>1, <1>2, <2>1 DEF CellsHold, TablesOK
<1>6. FeederHolds' /\ FetcherHolds' /\ Calm'
    BY <1>1, <1>2 DEF FeederHolds, FetcherHolds, Calm, feederVars, locks, flags
<1> QED
    BY <1>4, <1>5, <1>6

(* An empty ring from index 0 on, as reset() leaves it *)
LEMMA EmptyRing ==
    next_feed = 0 /\ next_fetch = 0 /\ fetch_head = 0 /\ full = FALSE /\ kept = <<>> /\ skipped = 0
        => RingOK /\ Load = 0
<1> SUFFICES ASSUME next_feed = 0, next_fetch = 0, fetch_head = 0, full = FALSE, kept = <<>>, skipped = 0
             PROVE  RingOK /\ Load = 0
    OBVIOUS
<1> USE TamponAssumption
<1>1. 0 \in Slots /\ 0 % TableSize = 0 /\ Place(0, 0) = 0
  <2>1. 0 \in Slots /\ 0 \in -TableSize .. 2 * TableSize - 1
      BY DEF Slots
  <2>2. 0 % TableSize = Wrap(0)
      BY <2>1, RoundOnce
  <2> QED
      BY <2>1, <2>2 DEF Wrap, Place
<1>2. <<>> \in Seq(Data) /\ Len(<<>>) = 0
    BY EmptySeq
<1>3. Load = 0
  <2>1. next_feed - fetch_head = 0
      OBVIOUS
  <2> QED
      BY <1>1, <2>1 DEF Load
<1>4. skipped \in 0 .. TableSize - 1 /\ skipped <= Load
    BY <1>3
<1>5. next_fetch = Place(fetch_head, skipped) /\ full \in BOOLEAN
      /\ next_feed \in Slots /\ next_fetch \in Slots /\ fetch_head \in Slots
    BY <1>1, Zenon
<1>6. kept \in Seq(Data) /\ Len(kept) = Load
    BY <1>2, <1>3, Zenon
<1> QED
    BY <1>3, <1>4, <1>5, <1>6, Zenon DEF RingOK

(* reset() leaves an empty ring, and the memory blocks where they are. *)
LEMMA ResetKeepsInv ==
    ASSUME TamponInv, reset
    PROVE  TamponInv'
<1> USE TamponAssumption DEF TamponInv
<1>1. RingOK' /\ Load' = 0
  <2>1. (next_feed = 0 /\ next_fetch = 0 /\ fetch_head = 0 /\ full = FALSE /\ kept = <<>>
           /\ skipped = 0 => RingOK /\ Load = 0)'
      BY EmptyRing, PTL
  <2> QED
      BY <2>1 DEF reset
<1>2. 0 \in Data /\ 0 \in 0 .. Total
    BY DEF Data, Remainder
<1>3. CellsHold'
    BY <1>1, <1>2 DEF CellsHold, TablesOK, reset
<1>4. FeederHolds'
    BY DEF FeederHolds, reset, feederVars
<1>5. FetcherHolds' /\ Calm'
    BY <1>1 DEF RingOK, FetcherHolds, Calm, reset
<1> QED
    BY <1>1, <1>3, <1>4, <1>5

(* The constructor leaves an empty ring. *)
LEMMA InitInv ==
    Init => TamponInv
<1> SUFFICES ASSUME Init PROVE TamponInv
    OBVIOUS
<1> USE TamponAssumption DEF Init
<1>1. RingOK /\ Load = 0
    BY EmptyRing
<1>2. 0 \in Data /\ 0 \in 0 .. Total /\ 0 \in Slots /\ Blocks = Slots
    BY DEF Data, Remainder, Slots, Blocks
<1>3. CellsHold
    BY <1>1, <1>2 DEF CellsHold, TablesOK
<1>4. FeederHolds /\ FetcherHolds /\ Calm
    BY <1>1, <1>2 DEF FeederHolds, FetcherHolds, Calm
<1> QED
    BY <1>1, <1>3, <1>4 DEF TamponInv

(* No step breaks the invariant, but those that expose the tampon. *)
LEMMA NextKeepsInv ==
    ~exposed' /\ TamponInv /\ [Next]_vars => TamponInv'
<1> SUFFICES ASSUME ~exposed', TamponInv, [Next]_vars PROVE TamponInv'
    OBVIOUS
<1>1. CASE \/ GetTest \/ FeederGate \/ GetRead \/ get_block_to_feed
           \/ FeedCheck \/ FeedReadAgain \/ CancelRead \/ feed_cancel_get_block
    BY <1>1, GetKeepsInv
<1>2. CASE FeedRead
    BY <1>2, WriteKeepsInv
<1>3. CASE FeedSize
    BY <1>3, SizeKeepsInv
<1>4. CASE feed
    BY <1>4, FeedKeepsInv
<1>5. CASE FetchTest \/ FetcherGate \/ fetch
    BY <1>5, FetchKeepsInv
<1>6. CASE fetch_recycle
    BY <1>6, RecycleFirstKeepsInv, RecycleBehindKeepsInv
<1>7. CASE fetch_push_back
    BY <1>7, PushBackKeepsInv
<1>8. CASE fetch_push_back_and_skip
    BY <1>8, SkipKeepsInv
<1>9. CASE fetch_skip_back
    BY <1>9, SkipBackKeepsInv
<1>10. CASE reset
    BY <1>10, ResetKeepsInv
<1>11. CASE UNCHANGED vars
  <2>1. UNCHANGED <<locks, ring, flags, feederVars, fetcherVars, content, ptr, raised>>
      BY <1>11 DEF vars
  <2> QED
      BY <2>1, RingStays, FetcherStays, FeederStays
         DEF TamponInv, Calm, fetcherVars, feederVars, locks, flags
<1> QED
    BY <1>1, <1>2, <1>3, <1>4, <1>5, <1>6, <1>7, <1>8, <1>9, <1>10, <1>11 DEF Next, InFeed, InFetch

-----------------------------------------------------------------------------
(* What holds whatever the fetcher calls, and whenever *)

(* How far an index is behind the oldest block *)
Behind(x) == (x - fetch_head) % TableSize

(* next_fetch is between fetch_head and next_feed. *)
InOrder ==
    /\ full = TRUE => next_feed = fetch_head
    /\ full = FALSE => Behind(next_fetch) <= Behind(next_feed)

(* The feeder that has not to wait finds room, and its gate is open if and *)
(* only if it may go on.                                                   *)
FeederWaits ==
    /\ feeder # "out" => fed < Total
    /\ feeder \notin {"out", "gate"} => full = FALSE
    /\ waiting_feeder = IF feeder = "gate" /\ full = FALSE THEN FALSE ELSE TRUE
    /\ feeder_go_lock = IF feeder = "gate" /\ full = TRUE THEN TRUE ELSE FALSE

(* So it is of the fetcher and a block it has not skipped. *)
FetcherWaits ==
    /\ fetcher \in {"take", "has"} => has_readable_block_next
    /\ waiting_fetcher = IF fetcher = "gate" /\ has_readable_block_next THEN FALSE ELSE TRUE
    /\ fetcher_go_lock = IF fetcher = "gate" /\ ~has_readable_block_next THEN TRUE ELSE FALSE

WaitsEnd == raised \notin {"get_block_to_feed", "fetch"}

Sound == TypeOK /\ InOrder /\ FeederWaits /\ FetcherWaits /\ WaitsEnd

LEMMA BehindIs ==
    ASSUME NEW h \in Slots, NEW x \in Slots
    PROVE  /\ (x - h) % TableSize = IF x < h THEN x - h + TableSize ELSE x - h
           /\ (x - h) % TableSize \in Nat
<1>1. x - h \in -TableSize .. 2 * TableSize - 1
    BY TamponAssumption DEF Slots
<1>2. (x - h) % TableSize = Wrap(x - h)
    BY <1>1, RoundOnce
<1> QED
    BY <1>2, TamponAssumption DEF Wrap, Slots

(* A tampon with a block to read is not empty. *)
LEMMA ReadableIsNotEmpty ==
    ASSUME TypeOK, InOrder, has_readable_block_next
    PROVE  /\ ~is_empty
           /\ full = FALSE => Behind(next_fetch) < Behind(next_feed)
<1>1. next_feed \in Slots /\ next_fetch \in Slots /\ fetch_head \in Slots /\ full \in BOOLEAN
    BY DEF TypeOK
<1>2. /\ Behind(next_fetch) = IF next_fetch < fetch_head THEN next_fetch - fetch_head + TableSize
                              ELSE next_fetch - fetch_head
      /\ Behind(next_feed) = IF next_feed < fetch_head THEN next_feed - fetch_head + TableSize
                             ELSE next_feed - fetch_head
    BY <1>1, BehindIs DEF Behind
<1> QED
    BY <1>1, <1>2, TamponAssumption DEF InOrder, has_readable_block_next, is_empty, Slots

(* What a step that leaves the indexes alone leaves as it is *)
LEMMA OrderStays ==
    ASSUME UNCHANGED <<next_feed, next_fetch, fetch_head, full>>
    PROVE  (InOrder => InOrder') /\ (has_readable_block_next' <=> has_readable_block_next)
    BY DEF InOrder, Behind, has_readable_block_next

(* The feeder's steps up to the end of feed() *)
LEMMA FeederKeepsSound ==
    ASSUME Sound,
           \/ GetTest \/ FeederGate \/ GetRead \/ get_block_to_feed \/ FeedRead
           \/ FeedCheck \/ FeedReadAgain \/ FeedSize \/ CancelRead \/ feed_cancel_get_block
    PROVE  Sound'
<1> USE DEF Sound
<1>1. UNCHANGED <<next_feed, next_fetch, fetch_head, full, fetcherVars, waiting_fetcher,
                  fetcher_go_lock>>
    BY DEF GetTest, FeederGate, GetRead, get_block_to_feed, FeedRead, FeedCheck, FeedReadAgain,
           FeedSize, CancelRead, feed_cancel_get_block, ring, locks, flags
<1>2. InOrder' /\ FetcherWaits'
  <2>1. InOrder'
      BY <1>1, OrderStays
  <2>2. FetcherWaits'
      BY <1>1 DEF FetcherWaits, has_readable_block_next, fetcherVars
  <2> QED
      BY <2>1, <2>2
<1>3. 0 \in Slots /\ 0 \in Blocks /\ (fed < Total => fed + 1 \in Data)
      /\ \A s \in Slots : table[s].mem \in Blocks
  <2>1. 0 \in Slots /\ 0 \in Blocks
      BY TamponAssumption DEF Slots, Blocks
  <2>2. fed < Total => fed + 1 \in Data
      BY TamponAssumption DEF TypeOK, Data, Remainder
  <2>3. \A s \in Slots : table[s].mem \in Blocks
      BY DEF TypeOK
  <2> QED
      BY <2>1, <2>2, <2>3
<1>4. TypeOK' /\ FeederWaits' /\ WaitsEnd'
  <2> USE <1>1, <1>3 DEF ring, locks, flags, fetcherVars
  <2>1. CASE GetTest
    <3>1. TypeOK'
        BY <2>1 DEF TypeOK, Checks, FeederWaits, GetTest
    <3>2. FeederWaits' /\ WaitsEnd'
        BY <2>1 DEF TypeOK, FeederWaits, WaitsEnd, GetTest
    <3> QED
        BY <3>1, <3>2
  <2>2. CASE FeederGate
    <3>1. TypeOK'
        BY <2>2 DEF TypeOK, Checks, FeederWaits, FeederGate
    <3>2. FeederWaits' /\ WaitsEnd'
        BY <2>2 DEF TypeOK, FeederWaits, WaitsEnd, FeederGate
    <3> QED
        BY <3>1, <3>2
  <2>3. CASE GetRead
    <3>1. TypeOK'
        BY <2>3 DEF TypeOK, Checks, FeederWaits, GetRead
    <3>2. FeederWaits' /\ WaitsEnd'
        BY <2>3 DEF TypeOK, FeederWaits, WaitsEnd, GetRead
    <3> QED
        BY <3>1, <3>2
  <2>4. CASE get_block_to_feed
    <3>1. TypeOK'
        BY <2>4 DEF TypeOK, Checks, FeederWaits, get_block_to_feed
    <3>2. FeederWaits' /\ WaitsEnd'
        BY <2>4 DEF TypeOK, FeederWaits, WaitsEnd, get_block_to_feed
    <3> QED
        BY <3>1, <3>2
  <2>5. CASE FeedRead
    <3>1. TypeOK'
        BY <2>5 DEF TypeOK, Checks, FeederWaits, FeedRead
    <3>2. FeederWaits' /\ WaitsEnd'
        BY <2>5 DEF TypeOK, FeederWaits, WaitsEnd, FeedRead
    <3> QED
        BY <3>1, <3>2
  <2>6. CASE FeedCheck
    <3>1. TypeOK'
        BY <2>6 DEF TypeOK, Checks, FeederWaits, FeedCheck
    <3>2. FeederWaits' /\ WaitsEnd'
        BY <2>6 DEF TypeOK, FeederWaits, WaitsEnd, FeedCheck
    <3> QED
        BY <3>1, <3>2
  <2>7. CASE FeedReadAgain
    <3>1. TypeOK'
        BY <2>7 DEF TypeOK, Checks, FeederWaits, FeedReadAgain
    <3>2. FeederWaits' /\ WaitsEnd'
        BY <2>7 DEF TypeOK, FeederWaits, WaitsEnd, FeedReadAgain
    <3> QED
        BY <3>1, <3>2
  <2>8. CASE FeedSize
    <3>1. TypeOK'
        BY <2>8 DEF TypeOK, Checks, FeederWaits, FeedSize
    <3>2. FeederWaits' /\ WaitsEnd'
        BY <2>8 DEF TypeOK, FeederWaits, WaitsEnd, FeedSize
    <3> QED
        BY <3>1, <3>2
  <2>9. CASE CancelRead
    <3>1. TypeOK'
        BY <2>9 DEF TypeOK, Checks, FeederWaits, CancelRead
    <3>2. FeederWaits' /\ WaitsEnd'
        BY <2>9 DEF TypeOK, FeederWaits, WaitsEnd, CancelRead
    <3> QED
        BY <3>1, <3>2
  <2>10. CASE feed_cancel_get_block
    <3>1. TypeOK'
        BY <2>10 DEF TypeOK, Checks, FeederWaits, feed_cancel_get_block
    <3>2. FeederWaits' /\ WaitsEnd'
        BY <2>10 DEF TypeOK, FeederWaits, WaitsEnd, feed_cancel_get_block
    <3> QED
        BY <3>1, <3>2
  <2> QED
      BY <2>1, <2>2, <2>3, <2>4, <2>5, <2>6, <2>7, <2>8, <2>9, <2>10
<1> QED
    BY <1>2, <1>4

(* The end of feed(), that leaves something to read *)
LEMMA FeedKeepsSound ==
    ASSUME Sound, feed
    PROVE  Sound'
<1> USE DEF Sound
<1>1. /\ next_feed' = shift_by_one(next_feed) /\ full' = (full \/ next_feed' = fetch_head)
      /\ OpenIf(fetcher_go_lock, waiting_fetcher) /\ fed' = fed + 1 /\ feeder' = "out"
      /\ kept' = Append(kept, fed + 1)
      /\ UNCHANGED <<modif, waiting_feeder, table, next_fetch, fetch_head, feeder_go_lock, seen,
                     fetcher, got, skipped, exposed, content, ptr, raised>>
      /\ feeder = "feed" /\ full = FALSE /\ fed < Total
      /\ waiting_feeder = TRUE /\ feeder_go_lock = FALSE
    BY DEF feed, FeederWaits
<1>2. next_feed \in Slots /\ next_fetch \in Slots /\ fetch_head \in Slots /\ fed \in 0 .. Total
      /\ next_feed' \in Slots /\ next_feed' = Wrap(next_feed + 1)
    BY <1>1, ShiftIs DEF TypeOK
<1>3. /\ Behind(next_fetch) = IF next_fetch < fetch_head THEN next_fetch - fetch_head + TableSize
                              ELSE next_fetch - fetch_head
      /\ Behind(next_feed) = IF next_feed < fetch_head THEN next_feed - fetch_head + TableSize
                             ELSE next_feed - fetch_head
      /\ Behind(next_fetch)' = Behind(next_fetch)
      /\ Behind(next_feed)' = IF next_feed' < fetch_head THEN next_feed' - fetch_head + TableSize
                              ELSE next_feed' - fetch_head
    BY <1>1, <1>2, BehindIs DEF Behind
<1>4. InOrder' /\ has_readable_block_next'
  <2>1. CASE next_feed' = fetch_head
      BY <1>1, <2>1 DEF InOrder, has_readable_block_next
  <2>2. CASE next_feed' # fetch_head
    <3>1. full' = FALSE /\ Behind(next_fetch) <= Behind(next_feed)
        BY <1>1, <2>2 DEF InOrder
    <3>2. Behind(next_feed)' = Behind(next_feed) + 1
        BY <1>2, <1>3, <2>2, TamponAssumption DEF Wrap, Slots
    <3>3. Behind(next_fetch)' < Behind(next_feed)'
        BY <1>2, <1>3, <3>1, <3>2, TamponAssumption DEF Slots
    <3>4. Behind(next_fetch)' <= Behind(next_feed)' /\ next_feed' # next_fetch
        BY <1>1, <1>2, <1>3, <3>3, TamponAssumption DEF Slots
    <3> QED
        BY <1>1, <3>1, <3>4 DEF InOrder, has_readable_block_next
  <2> QED
      BY <2>1, <2>2
<1>5. FetcherWaits'
  <2>1. fetcher = "gate" => waiting_fetcher' = FALSE /\ fetcher_go_lock' = FALSE
    <3>1. CASE has_readable_block_next
        BY <1>1, <3>1 DEF OpenIf, FetcherWaits
    <3>2. CASE ~has_readable_block_next
        BY <1>1, <3>2 DEF OpenIf, FetcherWaits
    <3> QED
        BY <3>1, <3>2
  <2>2. fetcher # "gate" => waiting_fetcher' = TRUE /\ fetcher_go_lock' = FALSE
      BY <1>1 DEF OpenIf, FetcherWaits
  <2> QED
      BY <1>1, <1>4, <2>1, <2>2 DEF FetcherWaits
<1>6. TypeOK'
  <2>1. fed + 1 \in Data /\ fed + 1 \in 0 .. Total /\ kept' \in Seq(Data)
    <3>1. fed + 1 \in Data /\ fed + 1 \in 0 .. Total
        BY <1>1, <1>2, TamponAssumption DEF Data, Remainder
    <3> QED
        BY <1>1, <3>1, AppendProperties DEF TypeOK
  <2>2. waiting_fetcher' \in BOOLEAN /\ fetcher_go_lock' \in BOOLEAN
      BY <1>5 DEF FetcherWaits
  <2> QED
      BY <1>1, <1>2, <2>1, <2>2 DEF TypeOK
<1>7. FeederWaits' /\ WaitsEnd'
    BY <1>1 DEF FeederWaits, WaitsEnd
<1> QED
    BY <1>4, <1>5, <1>6, <1>7

(* fetch(): who comes out of its wait finds the tampon not empty. *)
LEMMA FetchKeepsSound ==
    ASSUME Sound, FetchTest \/ FetcherGate \/ fetch
    PROVE  Sound'
<1> USE DEF Sound
<1>1. UNCHANGED <<ring, feederVars, waiting_feeder, feeder_go_lock, kept, skipped, exposed, content>>
    BY DEF FetchTest, FetcherGate, fetch, locks, flags
<1>2. InOrder' /\ (has_readable_block_next' <=> has_readable_block_next) /\ FeederWaits'
    BY <1>1, OrderStays DEF FeederWaits, feederVars, ring
<1>3. TypeOK' /\ FetcherWaits' /\ WaitsEnd'
  <2> USE <1>1, <1>2 DEF TypeOK, FetcherWaits, WaitsEnd, Checks, ring, locks, flags, feederVars
  <2>1. CASE FetchTest
      BY <2>1 DEF FetchTest
  <2>2. CASE FetcherGate
      BY <2>2 DEF FetcherGate
  <2>3. CASE fetch
    <3>1. ~is_empty
        BY <2>3, ReadableIsNotEmpty DEF fetch
    <3>2. table[next_fetch].mem \in Blocks /\ table[next_fetch].data_size \in Data
        OBVIOUS
    <3> QED
        BY <2>3, <3>1, <3>2 DEF fetch
  <2> QED
      BY <2>1, <2>2, <2>3
<1> QED
    BY <1>2, <1>3

(* What the fetcher's calls that give a block back leave *)
LEMMA GivenBackSound ==
    ASSUME Sound, fetcher = "has", FetchedOver, UNCHANGED <<waiting_fetcher, fetcher_go_lock>>
    PROVE  FetcherWaits' /\ got' \in Data /\ ptr' \in [feeder : Blocks, fetcher : Blocks]
<1>1. 0 \in Data /\ 0 \in Blocks
    BY TamponAssumption DEF Data, Remainder, Blocks, Slots
<1> QED
    BY <1>1 DEF Sound, TypeOK, FetcherWaits, FetchedOver

LEMMA PutBackTypes ==
    ASSUME TypeOK, PushBack
    PROVE  /\ content' \in [Blocks -> Data] /\ kept' \in Seq(Data)
           /\ table' \in [Slots -> [mem : Blocks, data_size : Data]]
<1>1. PICK n \in Data :
          /\ content' = [content EXCEPT ![ptr.fetcher] = n]
          /\ table' = [table EXCEPT ![next_fetch].data_size = n]
          /\ kept' = [i \in DOMAIN kept |-> IF i = skipped + 1 THEN n ELSE kept[i]]
  <2>1. got \in Data /\ Remainder \in Data
      BY TamponAssumption DEF TypeOK, Data, Remainder
  <2> QED
      BY <2>1 DEF PushBack
<1>2. kept' \in Seq(Data)
  <2>1. Len(kept) \in Nat /\ DOMAIN kept = 1 .. Len(kept) /\ \A i \in 1 .. Len(kept) : kept[i] \in Data
      BY LenProperties, ElementOfSeq DEF TypeOK
  <2>2. \A i \in 1 .. Len(kept) : (IF i = skipped + 1 THEN n ELSE kept[i]) \in Data
      BY <2>1
  <2> DEFINE e(i) == IF i = skipped + 1 THEN n ELSE kept[i]
  <2>3. [i \in 1 .. Len(kept) |-> e(i)] \in Seq(Data)
      BY <2>1, <2>2, IsASeq
  <2> QED
      BY <1>1, <2>1, <2>3
<1> QED
    BY <1>1, <1>2 DEF TypeOK

(* fetch_push_back(), fetch_push_back_and_skip() *)
LEMMA PushBackKeepsSound ==
    ASSUME Sound, fetch_push_back \/ fetch_push_back_and_skip
    PROVE  Sound'
<1> USE DEF Sound
<1>1. /\ fetcher = "has" /\ PushBack /\ FetchedOver
      /\ UNCHANGED <<waiting_feeder, waiting_fetcher, next_feed, fetch_head, full, flags, feederVars>>
    BY DEF fetch_push_back, fetch_push_back_and_skip, locks
<1>2. /\ content' \in [Blocks -> Data] /\ kept' \in Seq(Data)
      /\ table' \in [Slots -> [mem : Blocks, data_size : Data]]
    BY <1>1, PutBackTypes
<1>3. FetcherWaits' /\ got' \in Data /\ ptr' \in [feeder : Blocks, fetcher : Blocks]
    BY <1>1, GivenBackSound DEF flags
<1>4. FeederWaits'
    BY <1>1 DEF FeederWaits, feederVars, flags
<1>5. modif' \in BOOLEAN /\ raised' \in Checks /\ WaitsEnd' /\ skipped' \in Nat
      /\ exposed' \in BOOLEAN /\ fetcher' = "out"
  <2>1. CASE fetch_push_back
      BY <2>1 DEF fetch_push_back, TypeOK, WaitsEnd, locks, FetchedOver
  <2>2. CASE fetch_push_back_and_skip
    <3>1. CASE full /\ next_fetch = next_feed
        BY <2>2, <3>1 DEF fetch_push_back_and_skip, TypeOK, Checks, WaitsEnd, FetchedOver
    <3>2. CASE ~(full /\ next_fetch = next_feed)
        BY <2>2, <3>2 DEF fetch_push_back_and_skip, TypeOK, WaitsEnd, FetchedOver
    <3> QED
        BY <3>1, <3>2
  <2> QED
      BY <2>1, <2>2
<1>6. next_fetch' \in Slots /\ InOrder'
  <2>1. CASE next_fetch' = next_fetch
      BY <1>1, <2>1, OrderStays DEF TypeOK
  <2>2. CASE next_fetch' = shift_by_one(next_fetch)
    <3>1. next_feed \in Slots /\ next_fetch \in Slots /\ fetch_head \in Slots /\ full \in BOOLEAN
          /\ next_fetch' \in Slots /\ next_fetch' = Wrap(next_fetch + 1)
        BY <2>2, ShiftIs DEF TypeOK
    <3>2. full = FALSE => Behind(next_fetch) < Behind(next_feed)
        BY <1>1, ReadableIsNotEmpty DEF FetcherWaits
    <3>3. /\ Behind(next_fetch) = IF next_fetch < fetch_head THEN next_fetch - fetch_head + TableSize
                                  ELSE next_fetch - fetch_head
          /\ Behind(next_feed) = IF next_feed < fetch_head THEN next_feed - fetch_head + TableSize
                                 ELSE next_feed - fetch_head
          /\ Behind(next_feed)' = Behind(next_feed)
          /\ Behind(next_fetch)' = IF next_fetch' < fetch_head
                                     THEN next_fetch' - fetch_head + TableSize
                                     ELSE next_fetch' - fetch_head
        BY <1>1, <3>1, BehindIs DEF Behind
    <3> QED
        BY <1>1, <3>1, <3>2, <3>3, TamponAssumption DEF InOrder, Wrap, Slots
  <2> QED
      BY <2>1, <2>2 DEF fetch_push_back, fetch_push_back_and_skip
<1>7. TypeOK'
    BY <1>1, <1>2, <1>3, <1>4, <1>5, <1>6 DEF TypeOK, feederVars, flags
<1> QED
    BY <1>3, <1>4, <1>5, <1>6, <1>7

(* fetch_recycle(), that leaves room *)
LEMMA RecycleTypes ==
    ASSUME TypeOK
    PROVE  /\ Swapped(Squeezed) \in [Slots -> [mem : Blocks, data_size : Data]]
           /\ Recycled \in Seq(Data)
<1>1. next_feed \in Slots /\ next_fetch \in Slots /\ shift_back_by_one(next_feed) \in Slots /\ 0 \in Data
      /\ table \in [Slots -> [mem : Blocks, data_size : Data]] /\ Moved \subseteq Slots
    BY TamponAssumption, ShiftIs DEF TypeOK, Data, Remainder, Moved
<1>2. PICK f : f = Squeezed
    OBVIOUS
<1>3. f \in [Slots -> [mem : Blocks, data_size : Data]]
  <2>1. ASSUME NEW s \in Slots
        PROVE  (IF shift_by_one(s) \in Moved THEN table[shift_by_one(s)]
                ELSE IF Moved # {} /\ s = shift_back_by_one(next_feed)
                       THEN [mem |-> table[next_fetch].mem, data_size |-> 0]
                       ELSE table[s]) \in [mem : Blocks, data_size : Data]
      BY <1>1
  <2> QED
      BY <1>2, <2>1 DEF Squeezed
<1>4. Swapped(f) \in [Slots -> [mem : Blocks, data_size : Data]]
  <2>1. Swapped(f) = [f EXCEPT ![shift_back_by_one(next_feed)] = f[next_feed],
                               ![next_feed] = f[shift_back_by_one(next_feed)]]
      BY DEF Swapped
  <2> QED
      BY <1>1, <1>3, <2>1
<1>5. Recycled \in Seq(Data)
  <2>1. CASE skipped + 1 \in DOMAIN kept
    <3>1. kept \in Seq(Data) /\ skipped + 1 \in 1 .. Len(kept)
        BY <2>1 DEF TypeOK
    <3> QED
        BY <2>1, <3>1, Removed DEF Recycled
  <2>2. CASE skipped + 1 \notin DOMAIN kept
      BY <2>2 DEF Recycled, TypeOK
  <2> QED
      BY <2>1, <2>2
<1> QED
    BY <1>2, <1>4, <1>5

LEMMA RecycleKeepsSound ==
    ASSUME Sound, fetch_recycle
    PROVE  Sound'
<1> USE DEF Sound
<1>1. /\ fetcher = "has" /\ full' = FALSE /\ OpenIf(feeder_go_lock, waiting_feeder)
      /\ kept' = Recycled /\ content' = [content EXCEPT ![ptr.fetcher] = 0] /\ FetchedOver
      /\ exposed' = (exposed \/ ~RecycleIsSafe)
      /\ UNCHANGED <<modif, waiting_fetcher, fetcher_go_lock, feederVars, skipped, raised>>
    BY DEF fetch_recycle
<1>2. next_feed \in Slots /\ next_fetch \in Slots /\ fetch_head \in Slots /\ full \in BOOLEAN
    BY DEF TypeOK
<1>3. full = FALSE => Behind(next_fetch) < Behind(next_feed)
    BY <1>1, ReadableIsNotEmpty DEF FetcherWaits
<1>4. /\ Behind(next_fetch) = IF next_fetch < fetch_head THEN next_fetch - fetch_head + TableSize
                              ELSE next_fetch - fetch_head
      /\ Behind(next_feed) = IF next_feed < fetch_head THEN next_feed - fetch_head + TableSize
                             ELSE next_feed - fetch_head
    BY <1>2, BehindIs DEF Behind
<1>5. /\ next_feed' \in Slots /\ next_fetch' \in Slots /\ fetch_head' \in Slots /\ InOrder'
      /\ table' \in [Slots -> [mem : Blocks, data_size : Data]]
  <2>1. CASE next_fetch = fetch_head
    <3>1. /\ fetch_head' = shift_by_one(fetch_head) /\ next_fetch' = fetch_head'
          /\ UNCHANGED <<table, next_feed>>
        BY <2>1 DEF fetch_recycle
    <3>2. fetch_head' \in Slots
        BY <1>2, <3>1, ShiftIs
    <3>3. /\ Behind(next_fetch)' = 0
          /\ Behind(next_feed)' = IF next_feed' < fetch_head' THEN next_feed' - fetch_head' + TableSize
                                  ELSE next_feed' - fetch_head'
      <4>1. (next_fetch' - fetch_head') % TableSize =
                IF next_fetch' < fetch_head' THEN next_fetch' - fetch_head' + TableSize
                ELSE next_fetch' - fetch_head'
          BY <3>1, <3>2, BehindIs
      <4>2. (next_feed' - fetch_head') % TableSize =
                IF next_feed' < fetch_head' THEN next_feed' - fetch_head' + TableSize
                ELSE next_feed' - fetch_head'
          BY <1>2, <3>1, <3>2, BehindIs
      <4> QED
          BY <3>1, <3>2, <4>1, <4>2 DEF Behind, Slots
    <3> QED
        BY <1>1, <1>2, <3>1, <3>2, <3>3, TamponAssumption DEF InOrder, Slots, TypeOK
  <2>2. CASE next_fetch # fetch_head
    <3>1. /\ table' = Swapped(Squeezed) /\ next_feed' = shift_back_by_one(next_feed)
          /\ UNCHANGED <<fetch_head, next_fetch>>
        BY <2>2 DEF fetch_recycle
    <3>2. next_feed' \in Slots /\ next_feed' = Wrap(next_feed - 1)
        BY <1>2, <3>1, ShiftIs
    <3>3. /\ Behind(next_fetch)' = Behind(next_fetch)
          /\ Behind(next_feed)' = IF next_feed' < fetch_head THEN next_feed' - fetch_head + TableSize
                                  ELSE next_feed' - fetch_head
        BY <1>2, <3>1, <3>2, BehindIs DEF Behind
    <3>4. InOrder'
        BY <1>1, <1>2, <1>3, <1>4, <3>1, <3>2, <3>3, TamponAssumption DEF InOrder, Wrap, Slots
    <3> QED
        BY <1>2, <3>1, <3>2, <3>4, RecycleTypes
  <2> QED
      BY <2>1, <2>2
<1>6. FetcherWaits' /\ got' \in Data /\ ptr' \in [feeder : Blocks, fetcher : Blocks]
    BY <1>1, GivenBackSound
<1>7. FeederWaits'
  <2>1. waiting_feeder' = (IF feeder = "gate" THEN FALSE ELSE TRUE) /\ feeder_go_lock' = FALSE
    <3>1. CASE feeder = "gate" /\ full = TRUE
        BY <1>1, <3>1 DEF FeederWaits, OpenIf
    <3>2. CASE feeder = "gate" /\ full = FALSE
        BY <1>1, <3>2 DEF FeederWaits, OpenIf
    <3>3. CASE feeder # "gate"
        BY <1>1, <3>3 DEF FeederWaits, OpenIf
    <3> QED
        BY <1>2, <3>1, <3>2, <3>3
  <2> QED
      BY <1>1, <2>1 DEF FeederWaits, feederVars
<1>8. TypeOK'
  <2>1. content' \in [Blocks -> Data] /\ kept' \in Seq(Data) /\ exposed' \in BOOLEAN
        /\ fetcher' = "out"
    <3>1. 0 \in Data
        BY TamponAssumption DEF Data, Remainder
    <3>2. exposed' \in BOOLEAN
        BY <1>1 DEF TypeOK
    <3> QED
        BY <1>1, <3>1, <3>2, RecycleTypes DEF TypeOK, FetchedOver
  <2>2. waiting_feeder' \in BOOLEAN /\ feeder_go_lock' \in BOOLEAN
      BY <1>7 DEF FeederWaits
  <2> QED
      BY <1>1, <1>5, <1>6, <2>1, <2>2 DEF TypeOK, feederVars
<1>9. WaitsEnd'
    BY <1>1 DEF WaitsEnd
<1> QED
    BY <1>5, <1>6, <1>7, <1>8, <1>9

(* fetch_skip_back() and reset() *)
LEMMA BackKeepsSound ==
    ASSUME Sound, fetch_skip_back \/ reset
    PROVE  Sound'
<1> USE DEF Sound
<1>1. /\ fetcher = "out" /\ fetcher' = "out"
      /\ UNCHANGED <<modif, table, feederVars, got, exposed, ptr, raised>>
      /\ next_fetch' = fetch_head' /\ skipped' = 0
    BY DEF fetch_skip_back, reset, locks
<1>2. 0 \in Slots /\ 0 \in Data /\ <<>> \in Seq(Data)
    BY TamponAssumption, EmptySeq DEF Slots, Data, Remainder
<1>3. TypeOK'
  <2>1. CASE fetch_skip_back
      BY <1>1, <2>1 DEF fetch_skip_back, TypeOK, locks, flags, feederVars
  <2>2. CASE reset
    <3>1. kept' \in Seq(Data)
        BY <1>2, <2>2, Zenon DEF reset
    <3>2. content' \in [Blocks -> Data]
        BY <1>2, <2>2 DEF reset
    <3>3. /\ next_feed' = 0 /\ next_fetch' = 0 /\ fetch_head' = 0 /\ full' = FALSE
          /\ feeder_go_lock' = FALSE /\ fetcher_go_lock' = FALSE
          /\ waiting_feeder' = TRUE /\ waiting_fetcher' = TRUE
        BY <2>2 DEF reset
    <3> QED
        BY <1>1, <1>2, <3>1, <3>2, <3>3 DEF TypeOK, feederVars
  <2> QED
      BY <2>1, <2>2
<1>4. InOrder'
  <2>1. next_fetch' \in Slots /\ fetch_head' \in Slots /\ next_feed' \in Slots
      BY <1>3 DEF TypeOK
  <2>2. (next_fetch' - fetch_head') % TableSize = 0
    <3>1. next_fetch' = fetch_head' /\ next_fetch' \in Int
        BY <1>1, <2>1, TamponAssumption DEF Slots
    <3>2. (next_fetch' - fetch_head') % TableSize =
              IF next_fetch' < fetch_head' THEN next_fetch' - fetch_head' + TableSize
              ELSE next_fetch' - fetch_head'
        BY <2>1, BehindIs
    <3> QED
        BY <3>1, <3>2
  <2>3. (next_feed' - fetch_head') % TableSize \in Nat
      BY <2>1, BehindIs
  <2>4. full' = TRUE => next_feed' = fetch_head'
    <3>1. CASE fetch_skip_back
        BY <3>1 DEF fetch_skip_back, InOrder
    <3>2. CASE reset
        BY <3>2 DEF reset
    <3> QED
        BY <3>1, <3>2
  <2> QED
      BY <2>2, <2>3, <2>4 DEF InOrder, Behind
<1>5. FeederWaits' /\ FetcherWaits' /\ WaitsEnd'
  <2>1. CASE fetch_skip_back
      BY <1>1, <2>1 DEF fetch_skip_back, FeederWaits, FetcherWaits, WaitsEnd, locks, flags, feederVars
  <2>2. CASE reset
      BY <1>1, <2>2 DEF reset, FeederWaits, FetcherWaits, WaitsEnd, feederVars
  <2> QED
      BY <2>1, <2>2
<1> QED
    BY <1>3, <1>4, <1>5

LEMMA NextKeepsSound ==
    Sound /\ [Next]_vars => Sound'
<1> SUFFICES ASSUME Sound, [Next]_vars PROVE Sound'
    OBVIOUS
<1>1. CASE UNCHANGED vars
  <2>1. UNCHANGED <<locks, ring, flags, feederVars, fetcherVars, content, ptr, raised>>
      BY <1>1 DEF vars
  <2>2. InOrder' /\ (has_readable_block_next' <=> has_readable_block_next)
      BY <2>1, OrderStays DEF Sound, ring
  <2> QED
      BY <2>1, <2>2 DEF Sound, TypeOK, FeederWaits, FetcherWaits, WaitsEnd, ring, locks, flags,
                        feederVars, fetcherVars
<1> QED
    BY <1>1, FeederKeepsSound, FeedKeepsSound, FetchKeepsSound, PushBackKeepsSound,
       RecycleKeepsSound, BackKeepsSound
       DEF Next, InFeed, InFetch

LEMMA InitSound ==
    Init => Sound
<1> SUFFICES ASSUME Init PROVE Sound
    OBVIOUS
<1>1. 0 \in Slots /\ 0 \in Data /\ <<>> \in Seq(Data) /\ Blocks = Slots /\ 0 \in 0 .. Total
    BY TamponAssumption, EmptySeq DEF Slots, Data, Remainder, Blocks
<1>2. TypeOK
  <2>1. kept \in Seq(Data)
      BY <1>1, Zenon DEF Init
  <2>2. table \in [Slots -> [mem : Blocks, data_size : Data]] /\ content \in [Blocks -> Data]
      BY <1>1 DEF Init
  <2>3. /\ modif = FALSE /\ waiting_feeder = TRUE /\ waiting_fetcher = TRUE
        /\ next_feed = 0 /\ next_fetch = 0 /\ fetch_head = 0 /\ full = FALSE
        /\ feeder_go_lock = FALSE /\ fetcher_go_lock = FALSE
        /\ feeder = "out" /\ fetcher = "out" /\ seen = 0 /\ got = 0 /\ fed = 0
        /\ ptr = [feeder |-> 0, fetcher |-> 0]
        /\ raised = "none" /\ skipped = 0 /\ exposed = FALSE
      BY DEF Init
  <2> QED
      BY <1>1, <2>1, <2>2, <2>3 DEF TypeOK, Checks
<1>3. InOrder
  <2>1. Behind(next_fetch) = 0 /\ Behind(next_feed) = 0 /\ full = FALSE
      BY <1>1, BehindIs, TamponAssumption DEF Init, Behind, Slots
  <2> QED
      BY <2>1 DEF InOrder
<1>4. FeederWaits /\ FetcherWaits /\ WaitsEnd
    BY DEF Init, FeederWaits, FetcherWaits, WaitsEnd, has_readable_block_next
<1> QED
    BY <1>2, <1>3, <1>4 DEF Sound

-----------------------------------------------------------------------------
(* What the invariant says of the properties *)
LEMMA InvImplies ==
    TamponInv => PutBackIsPreserved /\ FetchedIsNext /\ NoSharedBlock /\ raised = "none"
<1> SUFFICES ASSUME TamponInv
             PROVE  PutBackIsPreserved /\ FetchedIsNext /\ NoSharedBlock /\ raised = "none"
    OBVIOUS
<1> USE TamponAssumption DEF TamponInv
<1>1. Load \in 0 .. TableSize /\ Len(kept) = Load /\ fetch_head \in Slots
    BY Ring DEF RingOK
<1>3. ASSUME NEW i \in 1 .. Load
      PROVE  i - 1 \in 0 .. Load - 1 /\ InRing(i) = Cell(i - 1)
  <2>1. i - 1 \in 0 .. Load - 1 /\ fetch_head + i - 1 = fetch_head + (i - 1)
      BY <1>1 DEF Slots
  <2> QED
      BY <2>1 DEF InRing, Cell, Place
<1>4. PutBackIsPreserved
  <2>1. ASSUME NEW i \in 1 .. Load
        PROVE  InRing(i).data_size = kept[i] /\ content[InRing(i).mem] = kept[i]
    <3>1. i - 1 \in 0 .. Load - 1 /\ InRing(i) = Cell(i - 1) /\ (i - 1) + 1 = i
        BY <1>1, <1>3
    <3>2. Stored(i - 1)
        BY <3>1 DEF CellsHold
    <3> QED
        BY <3>1, <3>2 DEF Stored
  <2> QED
      BY <1>1, <2>1 DEF PutBackIsPreserved
<1>5. FetchedIsNext
  <2> SUFFICES ASSUME fetcher = "has"
               PROVE  /\ skipped < Len(kept)
                      /\ got = kept[skipped + 1] /\ content[ptr.fetcher] = got
      BY DEF FetchedIsNext
  <2>1. skipped \in 0 .. Load - 1 /\ ptr.fetcher = Cell(skipped).mem /\ got = Cell(skipped).data_size
      BY InHand
  <2>2. Stored(skipped)
      BY <2>1 DEF CellsHold
  <2> QED
      BY <1>1, <2>1, <2>2 DEF Stored
<1>6. NoSharedBlock
  <2>1. ASSUME feeder \in {"has", "check", "again", "store", "cancel"}, NEW i \in 1 .. Load
        PROVE  InRing(i).mem # ptr.feeder
    <3>1. full = FALSE /\ ptr.feeder = table[next_feed].mem
        BY <2>1 DEF FeederHolds
    <3> QED
        BY <1>3, <3>1, Apart DEF CellsHold
  <2> QED
      BY <2>1 DEF NoSharedBlock, CellsHold, TablesOK
<1>7. raised = "none"
    BY DEF Calm
<1> QED
    BY <1>4, <1>5, <1>6, <1>7

(***************************************************************************)
(* The inductive invariant of tampon: the order of the indexes and what    *)
(* the gates tell, whatever the fetcher calls; and, until it skips or      *)
(* recycles a block that the code cannot (exposed), the place of every     *)
(* block.                                                                  *)
(***************************************************************************)
THEOREM Invariance ==
    Spec => [](Sound /\ (~exposed => TamponInv))
<1>1. Init => Sound /\ (~exposed => TamponInv)
    BY InitSound, InitInv
<1>2. (Sound /\ (~exposed => TamponInv)) /\ [Next]_vars => (Sound /\ (~exposed => TamponInv))'
  <2> SUFFICES ASSUME Sound, ~exposed => TamponInv, [Next]_vars
               PROVE  Sound' /\ (~exposed' => TamponInv')
      OBVIOUS
  <2>1. ~exposed' => ~exposed
    <3>1. exposed => exposed' \/ ~[Next]_vars
        BY DEF Next, InFeed, InFetch, GetTest, FeederGate, GetRead, get_block_to_feed, FeedRead,
               FeedCheck, FeedReadAgain, FeedSize, feed, CancelRead, feed_cancel_get_block, FetchTest,
               FetcherGate, fetch, fetch_recycle, fetch_push_back, fetch_push_back_and_skip,
               fetch_skip_back, reset, vars, fetcherVars
    <3> QED
        BY <3>1
  <2> QED
      BY <2>1, NextKeepsSound, NextKeepsInv
<1> QED
    BY <1>1, <1>2, PTL DEF Spec

(***************************************************************************)
(* "The block that has been put back this way to the tampon object is      *)
(* preserved" (tampon.hpp:92-93): so it is, with all others, in order, for *)
(* any number of slots and of blocks, until the fetcher has recycled or    *)
(* skipped what the code cannot (tampon.hpp:414-446).                      *)
(***************************************************************************)
THEOREM BlocksArePreserved == Spec => []Preserved
<1>1. (~exposed => TamponInv) => Preserved
    BY InvImplies DEF Preserved
<1> QED
    BY <1>1, Invariance, PTL

(***************************************************************************)
(* Until then fetch() returns the block behind those skipped               *)
(* (tampon.hpp:90-92).                                                     *)
(***************************************************************************)
THEOREM NextIsFetched == Spec => []FetchedIsNext
<1>1. (~exposed => TamponInv) => FetchedIsNext
    BY InvImplies DEF FetchedIsNext
<1> QED
    BY <1>1, Invariance, PTL

(***************************************************************************)
(* Until then the feeder writes in a block of its own, though              *)
(* fetch_recycle() moves next_feed and swaps slots (tampon.hpp:426-438).   *)
(***************************************************************************)
THEOREM BlocksAreApart == Spec => []NoSharedBlock
<1>1. (~exposed => TamponInv) => NoSharedBlock
    BY InvImplies DEF NoSharedBlock
<1> QED
    BY <1>1, Invariance, PTL

(***************************************************************************)
(* Whatever the fetcher calls and whenever, who comes out of its wait      *)
(* finds what it waited for (tampon.hpp:336, 394); another check fails     *)
(* only after one of the calls that the code does not withstand            *)
(* (tampon.hpp:350, 371, 468).                                             *)
(***************************************************************************)
THEOREM ChecksFailOnlyIfExposed == Spec => []RaisedOnlyIfExposed
<1>1. Sound /\ (~exposed => TamponInv) => RaisedOnlyIfExposed
    BY InvImplies DEF RaisedOnlyIfExposed, Sound, WaitsEnd
<1> QED
    BY <1>1, Invariance, PTL

(***************************************************************************)
(* The types, the indexes inside the table among them.                     *)
(***************************************************************************)
THEOREM TamponTypeCorrect == Spec => []TypeOK
<1>1. Sound => TypeOK
    BY DEF Sound
<1> QED
    BY <1>1, Invariance, PTL

=============================================================================
