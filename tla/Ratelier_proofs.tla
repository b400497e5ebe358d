---------------------------- MODULE Ratelier_proofs ----------------------------
(***************************************************************************)
(* The ordered pipe that ratelier_scatter and ratelier_gather make, for    *)
(* any number of workers, any sizes of the tables and any number of        *)
(* indexes that is enough for them.                                        *)
(***************************************************************************)
EXTENDS Ratelier, FiniteSetTheorems, SequenceTheorems, TLAPS

-----------------------------------------------------------------------------
(* Division: what the wrap of the indexes rests on. *)
LEMMA Division ==
    ASSUME NEW m \in Nat \ {0}, NEW n \in Nat
    PROVE  \E q \in Nat, r \in 0 .. m - 1 : n = m * q + r /\ n % m = r
<1>1. n % m \in 0 .. m - 1 /\ n \div m \in Nat /\ n = m * (n \div m) + (n % m)
    OBVIOUS
<1> QED
    BY <1>1, Zenon

(* A greater quotient is at least one divisor further. *)
LEMMA NextMultiple ==
    ASSUME NEW m \in Nat \ {0}, NEW p \in Int, NEW q \in Int, p < q
    PROVE  m * p + m <= m * q
<1>1. m * q = m * p + m * (q - p) /\ m * (q - p) >= m
    OBVIOUS
<1>2. m * q \in Int /\ m * p \in Int /\ m * (q - p) \in Int
    OBVIOUS
<1> QED
    BY <1>1, <1>2

(* Quotients of numbers less than m apart are equal when the remainders are. *)
LEMMA DivisionIsUnique ==
    ASSUME NEW m \in Nat \ {0}, NEW p \in Int, NEW q \in Int,
           NEW r \in 0 .. m - 1, NEW s \in 0 .. m - 1,
           m * p + r - (m * q + s) < m, m * q + s - (m * p + r) < m,
           r = s \/ m * p + r = m * q + s
    PROVE  p = q /\ r = s
<1>1. m * q \in Int /\ m * p \in Int
    OBVIOUS
<1>2. (p < q => m * p + m <= m * q) /\ (q < p => m * q + m <= m * p)
    BY NextMultiple
<1>3. p = q
    BY <1>1, <1>2
<1> QED
    BY <1>1, <1>3

(* So are numbers less than m apart whose remainders are the same. *)
LEMMA RemaindersDiffer ==
    ASSUME NEW m \in Nat \ {0}, NEW a \in Nat, NEW b \in Nat,
           a - b < m, b - a < m, a % m = b % m
    PROVE  a = b
<1>1. PICK p \in Nat, r \in 0 .. m - 1 : a = m * p + r /\ a % m = r
    BY Division
<1>2. PICK q \in Nat, s \in 0 .. m - 1 : b = m * q + s /\ b % m = s
    BY Division
<1>3. p = q
    BY <1>1, <1>2, DivisionIsUnique
<1> QED
    BY <1>1, <1>2, <1>3

(* An index that has wrapped can be incremented all the same. *)
LEMMA RemainderOfSum ==
    ASSUME NEW m \in Nat \ {0}, NEW a \in Nat, NEW k \in Nat
    PROVE  ((a % m) + k) % m = (a + k) % m
<1>1. PICK p \in Nat, r \in 0 .. m - 1 : a = m * p + r /\ a % m = r
    BY Division
<1>2. PICK q \in Nat, s \in 0 .. m - 1 : r + k = m * q + s /\ (r + k) % m = s
    BY Division
<1>3. a + k \in Nat
    OBVIOUS
<1>4. PICK u \in Nat, v \in 0 .. m - 1 : a + k = m * u + v /\ (a + k) % m = v
    BY <1>3, Division, Zenon
<1>5. m * (p + q) = m * p + m * q
    OBVIOUS
<1>6. PICK w \in Int : w = p + q /\ m * w = m * p + m * q
    BY <1>5
<1>7. m * p \in Int /\ m * q \in Int /\ m * u \in Int /\ m * w \in Int
    OBVIOUS
<1>8. m * u + v = m * w + s
    BY <1>1, <1>2, <1>4, <1>6, <1>7
<1>9. m * u + v - (m * w + s) = 0 /\ m * w + s - (m * u + v) = 0
    BY <1>7, <1>8
<1>10. v = s
    BY <1>7, <1>8, <1>9, DivisionIsUnique
<1> QED
    BY <1>1, <1>2, <1>4, <1>10

-----------------------------------------------------------------------------
(* The index of the n-th object, from 0 on *)
Index(n) == n % IndexSize

(* The constants in the form that arithmetic needs them. *)
LEMMA Sizes ==
    /\ IndexSize \in Nat \ {0} /\ ScatterSize \in Nat \ {0} /\ GatherSize \in Nat \ {0}
    /\ NoObject \notin (0 .. IndexSize - 1) \X Objects /\ Total \in Nat
    /\ Cardinality(Workers) \in Nat /\ IsFiniteSet(Workers)
    /\ ScatterSize + Cardinality(Workers) + GatherSize <= IndexSize
BY RatelierAssumption, FS_CardinalityType
   DEF Scatter!ScatterAssumption, Gather!GatherAssumption, Scatter!Indexes

(* An index is below IndexSize. *)
LEMMA IndexType ==
    ASSUME NEW n \in Nat
    PROVE  Index(n) \in 0 .. IndexSize - 1
BY Sizes DEF Index

(* Within IndexSize consecutive objects, an index belongs to one of them. *)
LEMMA IndexesDiffer ==
    ASSUME NEW a \in Nat, NEW b \in Nat, a - b < IndexSize, b - a < IndexSize,
           Index(a) = Index(b)
    PROVE  a = b
BY Sizes, RemaindersDiffer DEF Index

(* The index of the n-th object after another one. *)
LEMMA IndexOfSum ==
    ASSUME NEW a \in Nat, NEW k \in Nat
    PROVE  (Index(a) + k) % IndexSize = Index(a + k)
BY Sizes, RemainderOfSum DEF Index

(* Without a wrap, the index moves with the object. *)
LEMMA IndexWithoutWrap ==
    ASSUME NEW a \in Nat, NEW k \in Nat, Index(a) + k < IndexSize
    PROVE  Index(a + k) = Index(a) + k
<1>1. Index(a) + k \in 0 .. IndexSize - 1
    BY IndexType, Sizes
<1>2. (Index(a) + k) % IndexSize = Index(a) + k
    BY <1>1, Sizes
<1> QED
    BY <1>2, IndexOfSum

(* The smallest of a set of numbers is one of them. *)
LEMMA MinIsMember ==
    ASSUME NEW S, S \subseteq Nat, S # {}
    PROVE  Gather!Min(S) \in S
<1> DEFINE Less == {pair \in Nat \X Nat : pair[1] < pair[2]}
<1>1. OpToRel(<, Nat) = Less
    BY DEF OpToRel
<1>2. IsWellFoundedOn(Less, Nat)
    BY <1>1, NatLessThanWellFounded
<1>3. PICK x \in S : \A y \in S : ~ (<<y, x>> \in Less)
    BY <1>2, WFMin, Zenon
<1>4. ASSUME NEW y \in S
      PROVE  x <= y
  <2>1. x \in Nat /\ y \in Nat
      OBVIOUS
  <2>2. y < x => <<y, x>> \in Less
      BY <2>1
  <2> QED
      BY <1>3, <2>1, <2>2
<1> HIDE DEF Less
<1>5. \E m \in S : \A y \in S : m =< y
    BY <1>4
<1> QED
    BY <1>5, Zenon DEF Gather!Min


-----------------------------------------------------------------------------
(* A map of indexes to slots and the list of the empty slots share the     *)
(* slots of a table of that size, and the two leave none out.              *)
SlotsMatch(size, corres, empty) ==
    /\ corres \in [DOMAIN corres -> 0 .. size - 1]
    /\ empty \in Seq(0 .. size - 1)
    /\ \A i, j \in DOMAIN corres : corres[i] = corres[j] => i = j
    /\ \A m, n \in 1 .. Len(empty) : empty[m] = empty[n] => m = n
    /\ \A i \in DOMAIN corres, n \in 1 .. Len(empty) : corres[i] # empty[n]
    /\ IsFiniteSet(DOMAIN corres)
    /\ Cardinality(DOMAIN corres) + Len(empty) = size

(* The map with one index more, and without some of its indexes *)
Mapping(corres, i, slot) ==
    [j \in DOMAIN corres \cup {i} |-> IF j = i THEN slot ELSE corres[j]]
Without(corres, indexes) == [j \in DOMAIN corres \ indexes |-> corres[j]]

(* The last empty slot is a slot. *)
LEMMA SlotsMatchType ==
    ASSUME NEW size \in Nat, NEW corres, NEW empty, SlotsMatch(size, corres, empty)
    PROVE  /\ Len(empty) \in Nat /\ Cardinality(DOMAIN corres) \in Nat
           /\ empty # <<>> => Len(empty) >= 1 /\ empty[Len(empty)] \in 0 .. size - 1
BY FS_CardinalityType, LenProperties, EmptySeq, ElementOfSeq DEF SlotsMatch

(* The constructor's table *)
LEMMA AllSlotsEmpty ==
    ASSUME NEW size \in Nat
    PROVE  SlotsMatch(size, <<>>, [n \in 1 .. size |-> n - 1])
<1> DEFINE empty == [n \in 1 .. size |-> n - 1]
<1>1. empty \in Seq(0 .. size - 1) /\ Len(empty) = size
    OBVIOUS
<1>2. DOMAIN <<>> = {} /\ <<>> \in [{} -> 0 .. size - 1]
    OBVIOUS
<1>3. \A n \in 1 .. size : empty[n] = n - 1
    OBVIOUS
<1> QED
    BY <1>1, <1>2, <1>3, FS_EmptySet DEF SlotsMatch

(* A function over 1 .. n is a sequence of n elements. *)
LEMMA FunctionIsSeq ==
    ASSUME NEW k \in Nat, NEW S, NEW f \in [1 .. k -> S]
    PROVE  f \in Seq(S) /\ Len(f) = k /\ DOMAIN f = 1 .. k
OBVIOUS

(* All but the last element of a sequence. *)
LEMMA FrontProperties ==
    ASSUME NEW S, NEW s \in Seq(S), Len(s) \in Nat \ {0}
    PROVE  /\ SubSeq(s, 1, Len(s) - 1) \in Seq(S)
           /\ Len(SubSeq(s, 1, Len(s) - 1)) = Len(s) - 1
           /\ \A n \in 1 .. Len(s) - 1 : SubSeq(s, 1, Len(s) - 1)[n] = s[n]
<1>1. PICK k \in Nat : k = Len(s) - 1
    OBVIOUS
<1>2. \A n \in 1 .. k : s[n] \in S
    BY <1>1, ElementOfSeq
<1>3. /\ SubSeq(s, 1, k) \in Seq(S)
      /\ Len(SubSeq(s, 1, k)) = IF 1 <= k THEN k - 1 + 1 ELSE 0
      /\ \A n \in 1 .. k - 1 + 1 : SubSeq(s, 1, k)[n] = s[1 + n - 1]
    BY <1>2, SubSeqProperties
<1>4. k - 1 + 1 = k /\ \A n \in 1 .. k : 1 + n - 1 = n
    OBVIOUS
<1>5. Len(SubSeq(s, 1, k)) = k /\ \A n \in 1 .. k : SubSeq(s, 1, k)[n] = s[n]
    BY <1>3, <1>4
<1> QED
    BY <1>1, <1>3, <1>5

(* The last empty slot is used for a new index. *)
LEMMA SlotIsUsed ==
    ASSUME NEW size \in Nat, NEW corres, NEW empty, SlotsMatch(size, corres, empty),
           empty # <<>>, NEW i, i \notin DOMAIN corres
    PROVE  /\ SlotsMatch(size, Mapping(corres, i, empty[Len(empty)]),
                         SubSeq(empty, 1, Len(empty) - 1))
           /\ \A j \in DOMAIN corres : corres[j] # empty[Len(empty)]
           /\ Len(SubSeq(empty, 1, Len(empty) - 1)) = Len(empty) - 1
<1> DEFINE slot == empty[Len(empty)]
           rest == SubSeq(empty, 1, Len(empty) - 1)
           map == Mapping(corres, i, slot)
<1>1. Len(empty) \in Nat \ {0} /\ slot \in 0 .. size - 1
    BY SlotsMatchType
<1>2. /\ rest \in Seq(0 .. size - 1)
      /\ Len(rest) = Len(empty) - 1
      /\ \A n \in 1 .. Len(rest) : rest[n] = empty[n]
    BY <1>1, FrontProperties DEF SlotsMatch
<1>3. /\ DOMAIN map = DOMAIN corres \cup {i}
      /\ map[i] = slot
      /\ \A j \in DOMAIN corres : map[j] = corres[j]
      /\ map \in [DOMAIN map -> {map[j] : j \in DOMAIN map}]
    BY DEF Mapping
<1> HIDE DEF map, rest
<1>4. \A j \in DOMAIN corres : corres[j] # slot
    BY <1>1 DEF SlotsMatch
<1>5. \A n \in 1 .. Len(rest) : rest[n] # slot /\ n \in 1 .. Len(empty)
  <2>1. \A n \in 1 .. Len(rest) : n \in 1 .. Len(empty) /\ n # Len(empty)
      BY <1>1, <1>2
  <2>2. Len(empty) \in 1 .. Len(empty)
      BY <1>1
  <2> QED
      BY <1>2, <2>1, <2>2 DEF SlotsMatch
<1>6. /\ IsFiniteSet(DOMAIN map)
      /\ Cardinality(DOMAIN map) = Cardinality(DOMAIN corres) + 1
    BY <1>3, FS_AddElement DEF SlotsMatch
<1>7. map \in [DOMAIN map -> 0 .. size - 1]
    BY <1>1, <1>3 DEF SlotsMatch
<1>8. \A j, k \in DOMAIN map : map[j] = map[k] => j = k
    BY <1>3, <1>4 DEF SlotsMatch
<1>9. \A m, n \in 1 .. Len(rest) : rest[m] = rest[n] => m = n
    BY <1>2, <1>5 DEF SlotsMatch
<1>10. \A j \in DOMAIN map, n \in 1 .. Len(rest) : map[j] # rest[n]
    BY <1>2, <1>3, <1>5 DEF SlotsMatch
<1>11. Cardinality(DOMAIN map) + Len(rest) = size
  <2>1. Cardinality(DOMAIN corres) \in Nat /\ Cardinality(DOMAIN corres) + Len(empty) = size
      BY SlotsMatchType DEF SlotsMatch
  <2> QED
      BY <1>1, <1>2, <1>6, <2>1
<1>12. SlotsMatch(size, map, rest)
    BY <1>2, <1>6, <1>7, <1>8, <1>9, <1>10, <1>11 DEF SlotsMatch
<1> QED
    BY <1>2, <1>4, <1>12 DEF map, rest

(* The slots of some indexes are empty again, in the order of slots. *)
LEMMA SlotsAreFreed ==
    ASSUME NEW size \in Nat, NEW corres, NEW empty, SlotsMatch(size, corres, empty),
           NEW indexes \in SUBSET DOMAIN corres, NEW slots \in Seq(0 .. size - 1),
           Len(slots) = Cardinality(indexes),
           \A n \in 1 .. Len(slots) : \E i \in indexes : slots[n] = corres[i],
           \A m, n \in 1 .. Len(slots) : slots[m] = slots[n] => m = n
    PROVE  /\ SlotsMatch(size, Without(corres, indexes), empty \o slots)
           /\ Cardinality(DOMAIN Without(corres, indexes)) = Cardinality(DOMAIN corres) - Len(slots)
           /\ Len(empty \o slots) = Len(empty) + Len(slots)
<1> DEFINE map == Without(corres, indexes)
           all == empty \o slots
<1>1. Len(empty) \in Nat /\ Len(slots) \in Nat /\ Cardinality(DOMAIN corres) \in Nat
    BY SlotsMatchType, LenProperties
<1>2. /\ all \in Seq(0 .. size - 1)
      /\ Len(all) = Len(empty) + Len(slots)
      /\ \A n \in 1 .. Len(empty) : all[n] = empty[n]
      /\ \A n \in 1 .. Len(slots) : all[Len(empty) + n] = slots[n]
  <2>1. /\ all \in Seq(0 .. size - 1)
        /\ Len(all) = Len(empty) + Len(slots)
        /\ \A n \in 1 .. Len(empty) + Len(slots) :
               all[n] = IF n <= Len(empty) THEN empty[n] ELSE slots[n - Len(empty)]
    <3>1. empty \in Seq(0 .. size - 1)
        BY DEF SlotsMatch
    <3> QED
        BY <3>1, ConcatProperties, Zenon
  <2> QED
      BY <1>1, <2>1
<1>3. \A n \in 1 .. Len(all) :
          \/ n \in 1 .. Len(empty) /\ all[n] = empty[n]
          \/ \E m \in 1 .. Len(slots) : n = Len(empty) + m /\ all[n] = slots[m]
  <2> HIDE DEF all
  <2>1. ASSUME NEW n \in 1 .. Len(all), n > Len(empty)
        PROVE  \E m \in 1 .. Len(slots) : n = Len(empty) + m /\ all[n] = slots[m]
    <3>1. PICK m \in 1 .. Len(slots) : n = Len(empty) + m
      <4>1. n - Len(empty) \in 1 .. Len(slots) /\ n = Len(empty) + (n - Len(empty))
          BY <1>1, <1>2, <2>1
      <4> QED
          BY <4>1
    <3> QED
        BY <1>2, <3>1
  <2>2. ASSUME NEW n \in 1 .. Len(all), n <= Len(empty)
        PROVE  n \in 1 .. Len(empty) /\ all[n] = empty[n]
      BY <1>1, <1>2, <2>2
  <2>3. \A n \in 1 .. Len(all) : n <= Len(empty) \/ n > Len(empty)
      BY <1>1, <1>2
  <2> QED
      BY <2>1, <2>2, <2>3, Zenon
<1>4. DOMAIN map = DOMAIN corres \ indexes /\ \A j \in DOMAIN map : map[j] = corres[j]
    BY DEF Without
<1> HIDE DEF all
<1>5. /\ IsFiniteSet(DOMAIN map)
      /\ Cardinality(DOMAIN map) = Cardinality(DOMAIN corres) - Len(slots)
  <2>1. DOMAIN corres \cap indexes = indexes
      OBVIOUS
  <2>2. /\ IsFiniteSet(DOMAIN corres \ indexes)
        /\ Cardinality(DOMAIN corres \ indexes)
               = Cardinality(DOMAIN corres) - Cardinality(DOMAIN corres \cap indexes)
      BY FS_Difference, Zenon DEF SlotsMatch
  <2> QED
      BY <1>4, <2>1, <2>2
<1>6. map \in [DOMAIN map -> 0 .. size - 1]
    BY <1>4 DEF SlotsMatch, Without
<1>7. \A j, k \in DOMAIN map : map[j] = map[k] => j = k
    BY <1>4 DEF SlotsMatch
<1>8. \A m \in 1 .. Len(slots), n \in 1 .. Len(empty) : slots[m] # empty[n]
    BY DEF SlotsMatch
<1>9. \A m, n \in 1 .. Len(slots) : slots[m] = slots[n] => m = n
    OBVIOUS
<1>10. \A m, n \in 1 .. Len(all) : all[m] = all[n] => m = n
  <2>1. \A m, n \in 1 .. Len(empty) : empty[m] = empty[n] => m = n
      BY DEF SlotsMatch
  <2> SUFFICES ASSUME NEW m \in 1 .. Len(all), NEW n \in 1 .. Len(all), all[m] = all[n]
               PROVE  m = n
      OBVIOUS
  <2>2. CASE m \in 1 .. Len(empty) /\ all[m] = empty[m]
    <3>1. CASE n \in 1 .. Len(empty) /\ all[n] = empty[n]
        BY <2>1, <2>2, <3>1
    <3>2. ASSUME NEW k \in 1 .. Len(slots), all[n] = slots[k]
          PROVE  FALSE
        BY <1>8, <2>2, <3>2
    <3> QED
        BY <1>3, <3>1, <3>2
  <2>3. ASSUME NEW k \in 1 .. Len(slots), m = Len(empty) + k, all[m] = slots[k]
        PROVE  m = n
    <3>1. CASE n \in 1 .. Len(empty) /\ all[n] = empty[n]
        BY <1>8, <2>3, <3>1
    <3>2. ASSUME NEW j \in 1 .. Len(slots), n = Len(empty) + j, all[n] = slots[j]
          PROVE  m = n
        BY <1>9, <2>3, <3>2
    <3> QED
        BY <1>3, <3>1, <3>2
  <2> QED
      BY <1>3, <2>2, <2>3, Zenon
<1>11. \A j \in DOMAIN map, n \in 1 .. Len(all) : map[j] # all[n]
  <2>1. \A j \in DOMAIN map, n \in 1 .. Len(empty) : map[j] # empty[n]
      BY <1>4 DEF SlotsMatch
  <2>2. \A j \in DOMAIN map, n \in 1 .. Len(slots) : map[j] # slots[n]
      BY <1>4 DEF SlotsMatch
  <2> QED
      BY <1>3, <2>1, <2>2
<1>12. Cardinality(DOMAIN map) + Len(all) = size
    BY <1>1, <1>2, <1>5 DEF SlotsMatch
<1>13. SlotsMatch(size, map, all)
    BY <1>2, <1>5, <1>6, <1>7, <1>10, <1>11, <1>12 DEF SlotsMatch
<1> QED
    BY <1>2, <1>4, <1>5, <1>13 DEF all

(* The slot of one index is empty again. *)
LEMMA SlotIsFreed ==
    ASSUME NEW size \in Nat, NEW corres, NEW empty, SlotsMatch(size, corres, empty),
           NEW i \in DOMAIN corres
    PROVE  /\ SlotsMatch(size, Without(corres, {i}), Append(empty, corres[i]))
           /\ Cardinality(DOMAIN Without(corres, {i})) = Cardinality(DOMAIN corres) - 1
<1> DEFINE slots == <<corres[i]>>
           indexes == {i}
<1>1. corres[i] \in 0 .. size - 1 /\ slots \in Seq(0 .. size - 1)
      /\ Len(slots) = 1 /\ slots[1] = corres[i]
    BY DEF SlotsMatch
<1>2. Cardinality(indexes) = 1 /\ indexes \in SUBSET DOMAIN corres /\ i \in indexes
    BY FS_Singleton
<1>3. Append(empty, corres[i]) = empty \o slots
    BY <1>1, AppendIsConcat DEF SlotsMatch
<1> HIDE DEF slots, indexes
<1>4. /\ \A n \in 1 .. Len(slots) : \E j \in indexes : slots[n] = corres[j]
      /\ \A m, n \in 1 .. Len(slots) : slots[m] = slots[n] => m = n
      /\ Len(slots) = Cardinality(indexes)
    BY <1>1, <1>2
<1>5. slots \in Seq(0 .. size - 1) /\ indexes \in SUBSET DOMAIN corres
    BY <1>1, <1>2
<1>6. SlotsMatch(size, Without(corres, indexes), empty \o slots)
    BY <1>4, <1>5, SlotsAreFreed, Zenon
<1>7. Cardinality(DOMAIN corres \ {i}) = Cardinality(DOMAIN corres) - 1
    BY FS_RemoveElement DEF SlotsMatch
<1>8. DOMAIN Without(corres, {i}) = DOMAIN corres \ {i}
    BY DEF Without
<1> QED
    BY <1>3, <1>6, <1>7, <1>8 DEF indexes

-----------------------------------------------------------------------------
(* What a slot holds: an index and an object. *)
Stored == (0 .. IndexSize - 1) \X Objects

(* The empty slots are those of the list; the others hold an object under  *)
(* the index that leads to them.                                           *)
TableMatches(size, table, corres, empty) ==
    /\ DOMAIN corres \subseteq 0 .. IndexSize - 1
    /\ table \in [0 .. size - 1 -> Stored \cup {NoObject}]
    /\ \A n \in 1 .. Len(empty) : table[empty[n]] = NoObject
    /\ \A i \in DOMAIN corres : table[corres[i]] \in {i} \X Objects

(* An empty slot and a filled one differ. *)
LEMMA FilledIsNotEmpty ==
    ASSUME NEW i \in 0 .. IndexSize - 1, NEW content \in {i} \X Objects
    PROVE  content # NoObject /\ content \in Stored /\ content[1] = i
           /\ content = <<i, content[2]>> /\ content[2] \in Objects
BY Sizes DEF Stored

(* The slot that is used was empty, and holds its object under its index.  *)
LEMMA TableIsFilled ==
    ASSUME NEW size \in Nat, NEW corres, NEW empty, SlotsMatch(size, corres, empty),
           NEW table, TableMatches(size, table, corres, empty), empty # <<>>,
           NEW i \in 0 .. IndexSize - 1, i \notin DOMAIN corres, NEW one \in Objects
    PROVE  /\ table[empty[Len(empty)]] = NoObject
           /\ TableMatches(size, [table EXCEPT ![empty[Len(empty)]] = <<i, one>>],
                           Mapping(corres, i, empty[Len(empty)]),
                           SubSeq(empty, 1, Len(empty) - 1))
<1> DEFINE slot == empty[Len(empty)]
           rest == SubSeq(empty, 1, Len(empty) - 1)
           map == Mapping(corres, i, slot)
           filled == [table EXCEPT ![slot] = <<i, one>>]
<1>1. Len(empty) \in Nat \ {0} /\ slot \in 0 .. size - 1
    BY SlotsMatchType
<1>2. /\ Len(rest) = Len(empty) - 1
      /\ \A n \in 1 .. Len(rest) : rest[n] = empty[n]
    BY <1>1, FrontProperties DEF SlotsMatch
<1>3. /\ DOMAIN map = DOMAIN corres \cup {i}
      /\ map[i] = slot
      /\ \A j \in DOMAIN corres : map[j] = corres[j]
    BY DEF Mapping
<1>4. <<i, one>> \in Stored /\ <<i, one>> \in {i} \X Objects
    BY DEF Stored
<1>5. /\ filled \in [0 .. size - 1 -> Stored \cup {NoObject}]
      /\ filled[slot] = <<i, one>>
      /\ \A s \in 0 .. size - 1 : s # slot => filled[s] = table[s]
    BY <1>1, <1>4 DEF TableMatches
<1>6. table[slot] = NoObject
    BY <1>1 DEF TableMatches
<1> HIDE DEF slot, rest, map, filled
<1>7. \A n \in 1 .. Len(rest) :
          n \in 1 .. Len(empty) /\ rest[n] \in 0 .. size - 1 /\ rest[n] # slot
  <2>1. \A n \in 1 .. Len(rest) : n \in 1 .. Len(empty) /\ n # Len(empty)
      BY <1>1, <1>2
  <2>2. Len(empty) \in 1 .. Len(empty)
      BY <1>1
  <2>3. \A n \in 1 .. Len(empty) : empty[n] \in 0 .. size - 1
      BY ElementOfSeq DEF SlotsMatch
  <2> QED
      BY <1>2, <2>1, <2>2, <2>3 DEF SlotsMatch, slot
<1>8. \A n \in 1 .. Len(rest) : filled[rest[n]] = NoObject
    BY <1>2, <1>5, <1>7 DEF TableMatches
<1>9. \A j \in DOMAIN corres : corres[j] \in 0 .. size - 1 /\ corres[j] # slot
    BY <1>1 DEF SlotsMatch, slot
<1>10. \A j \in DOMAIN map : filled[map[j]] \in {j} \X Objects
    BY <1>3, <1>4, <1>5, <1>9 DEF TableMatches
<1>11. DOMAIN map \subseteq 0 .. IndexSize - 1
    BY <1>3 DEF TableMatches
<1>12. TableMatches(size, filled, map, rest)
    BY <1>5, <1>8, <1>10, <1>11 DEF TableMatches
<1> QED
    BY <1>6, <1>12 DEF slot, rest, map, filled

(* The slots that are freed are empty, the others hold what they held.     *)
LEMMA TableIsEmptied ==
    ASSUME NEW size \in Nat, NEW corres, NEW empty, SlotsMatch(size, corres, empty),
           NEW table, TableMatches(size, table, corres, empty),
           NEW indexes \in SUBSET DOMAIN corres, NEW slots \in Seq(0 .. size - 1),
           \A n \in 1 .. Len(slots) : \E i \in indexes : slots[n] = corres[i],
           NEW emptied \in [0 .. size - 1 -> Stored \cup {NoObject}],
           \A n \in 1 .. Len(slots) : emptied[slots[n]] = NoObject,
           \A s \in 0 .. size - 1 :
               (\A n \in 1 .. Len(slots) : s # slots[n]) => emptied[s] = table[s]
    PROVE  TableMatches(size, emptied, Without(corres, indexes), empty \o slots)
<1> DEFINE map == Without(corres, indexes)
           all == empty \o slots
<1>1. Len(empty) \in Nat /\ Len(slots) \in Nat /\ empty \in Seq(0 .. size - 1)
    BY SlotsMatchType, LenProperties DEF SlotsMatch
<1>2. /\ Len(all) = Len(empty) + Len(slots)
      /\ \A n \in 1 .. Len(empty) + Len(slots) :
             all[n] = IF n <= Len(empty) THEN empty[n] ELSE slots[n - Len(empty)]
    BY <1>1, ConcatProperties, Zenon
<1>3. DOMAIN map = DOMAIN corres \ indexes /\ \A j \in DOMAIN map : map[j] = corres[j]
    BY DEF Without
<1> HIDE DEF map, all
<1>4. \A j \in DOMAIN map : emptied[map[j]] \in {j} \X Objects
  <2> SUFFICES ASSUME NEW j \in DOMAIN map
               PROVE  emptied[corres[j]] \in {j} \X Objects
      BY <1>3
  <2>1. corres[j] \in 0 .. size - 1 /\ table[corres[j]] \in {j} \X Objects
      BY <1>3 DEF SlotsMatch, TableMatches
  <2>2. \A n \in 1 .. Len(slots) : corres[j] # slots[n]
      BY <1>3 DEF SlotsMatch
  <2>3. emptied[corres[j]] = table[corres[j]]
      BY <2>1, <2>2
  <2> QED
      BY <2>1, <2>3
<1>5. ASSUME NEW n \in 1 .. Len(all)
      PROVE  emptied[all[n]] = NoObject
  <2>1. CASE n <= Len(empty)
    <3>1. n \in 1 .. Len(empty) /\ all[n] = empty[n]
        BY <1>1, <1>2, <2>1
    <3>2. empty[n] \in 0 .. size - 1 /\ table[empty[n]] = NoObject
        BY <1>1, <3>1, ElementOfSeq DEF TableMatches
    <3>3. \A m \in 1 .. Len(slots) : empty[n] # slots[m]
        BY <3>1 DEF SlotsMatch
    <3> QED
        BY <3>1, <3>2, <3>3
  <2>2. CASE n > Len(empty)
    <3>1. n - Len(empty) \in 1 .. Len(slots) /\ all[n] = slots[n - Len(empty)]
        BY <1>1, <1>2, <2>2
    <3> QED
        BY <3>1
  <2> QED
      BY <1>1, <1>2, <2>1, <2>2
<1>6. DOMAIN map \subseteq 0 .. IndexSize - 1
    BY <1>3 DEF TableMatches
<1>7. TableMatches(size, emptied, map, all)
    BY <1>4, <1>5, <1>6 DEF TableMatches
<1> QED
    BY <1>7 DEF map, all

(* One slot is freed. *)
LEMMA SlotIsEmptied ==
    ASSUME NEW size \in Nat, NEW corres, NEW empty, SlotsMatch(size, corres, empty),
           NEW table, TableMatches(size, table, corres, empty),
           NEW i \in DOMAIN corres
    PROVE  TableMatches(size, [table EXCEPT ![corres[i]] = NoObject],
                        Without(corres, {i}), Append(empty, corres[i]))
<1> DEFINE slots == <<corres[i]>>
           indexes == {i}
           emptied == [table EXCEPT ![corres[i]] = NoObject]
<1>1. corres[i] \in 0 .. size - 1 /\ slots \in Seq(0 .. size - 1)
      /\ Len(slots) = 1 /\ slots[1] = corres[i]
    BY DEF SlotsMatch
<1>2. /\ emptied \in [0 .. size - 1 -> Stored \cup {NoObject}]
      /\ emptied[corres[i]] = NoObject
      /\ \A s \in 0 .. size - 1 : s # corres[i] => emptied[s] = table[s]
    BY <1>1 DEF TableMatches
<1>3. Append(empty, corres[i]) = empty \o slots
    BY <1>1, AppendIsConcat DEF SlotsMatch
<1>4. indexes \in SUBSET DOMAIN corres /\ i \in indexes
    OBVIOUS
<1> HIDE DEF slots, indexes, emptied
<1>5. /\ \A n \in 1 .. Len(slots) : \E j \in indexes : slots[n] = corres[j]
      /\ \A n \in 1 .. Len(slots) : emptied[slots[n]] = NoObject
      /\ \A s \in 0 .. size - 1 :
             (\A n \in 1 .. Len(slots) : s # slots[n]) => emptied[s] = table[s]
    BY <1>1, <1>2, <1>4
<1>6. slots \in Seq(0 .. size - 1) /\ emptied \in [0 .. size - 1 -> Stored \cup {NoObject}]
    BY <1>1, <1>2
<1>7. TableMatches(size, emptied, Without(corres, indexes), empty \o slots)
    BY <1>4, <1>5, <1>6, TableIsEmptied, Zenon
<1> QED
    BY <1>3, <1>7 DEF indexes, emptied

(* The list and the map say of each slot what it holds. *)
LEMMA TableIsRight ==
    ASSUME NEW size \in Nat, NEW corres, NEW empty, SlotsMatch(size, corres, empty),
           NEW table, TableMatches(size, table, corres, empty)
    PROVE  /\ table \in [0 .. size - 1 -> (0 .. IndexSize - 1) \X Objects \cup {NoObject}]
           /\ DOMAIN corres \subseteq 0 .. IndexSize - 1
           /\ \A i \in DOMAIN corres : corres[i] \in 0 .. size - 1
           /\ empty \in Seq(0 .. size - 1)
           /\ Len(empty) + Cardinality(DOMAIN corres) = size
           /\ \A n \in DOMAIN empty : table[empty[n]] = NoObject
           /\ \A i \in DOMAIN corres : table[corres[i]] # NoObject /\ table[corres[i]][1] = i
<1>1. \A i \in DOMAIN corres :
          /\ i \in 0 .. IndexSize - 1 /\ table[corres[i]] \in {i} \X Objects
          /\ corres[i] \in 0 .. size - 1
    BY DEF TableMatches, SlotsMatch
<1>2. \A i \in DOMAIN corres : table[corres[i]] # NoObject /\ table[corres[i]][1] = i
    BY <1>1, FilledIsNotEmpty, Zenon
<1>3. empty \in Seq(0 .. size - 1)
    BY DEF SlotsMatch
<1>4. DOMAIN empty = 1 .. Len(empty)
    BY <1>3, LenProperties
<1>5. \A n \in DOMAIN empty : table[empty[n]] = NoObject
    BY <1>4 DEF TableMatches
<1>6. table \in [0 .. size - 1 -> (0 .. IndexSize - 1) \X Objects \cup {NoObject}]
    BY DEF TableMatches, Stored
<1>7. Len(empty) + Cardinality(DOMAIN corres) = size
    BY SlotsMatchType DEF SlotsMatch
<1>8. DOMAIN corres \subseteq 0 .. IndexSize - 1
    BY <1>1
<1> QED
    BY <1>1, <1>2, <1>3, <1>5, <1>6, <1>7, <1>8, Zenon

(* The constructor's table holds nothing. *)
LEMMA EmptyTable ==
    ASSUME NEW size \in Nat
    PROVE  TableMatches(size, [s \in 0 .. size - 1 |-> NoObject], <<>>,
                        [n \in 1 .. size |-> n - 1])
<1> DEFINE empty == [n \in 1 .. size |-> n - 1]
<1>1. Len(empty) = size /\ \A n \in 1 .. size : empty[n] \in 0 .. size - 1
    OBVIOUS
<1>2. DOMAIN <<>> = {}
    OBVIOUS
<1> QED
    BY <1>1, <1>2 DEF TableMatches

-----------------------------------------------------------------------------
(* The inductive invariant.  Objects Len(gathered) .. Taken - 1 are between *)
(* the two classes or in the second one, Taken .. sent - 1 in the first.   *)
Busy == {w \in Workers : hand[w] # <<>>}
Taken == sent - Cardinality(DOMAIN s_corres)
Held(w) == hand[w][2]
Kept(i) == g_table[g_corres[i]][2]

(* The ratelier_scatter holds the last objects, each under its own index.  *)
ScatterHolds ==
    /\ SlotsMatch(ScatterSize, s_corres, s_empty_slot)
    /\ TableMatches(ScatterSize, s_table, s_corres, s_empty_slot)
    /\ sent \in 0 .. Total /\ Taken \in Nat
    /\ DOMAIN s_corres = {Index(n) : n \in Taken .. sent - 1}
    /\ \A n \in Taken .. sent - 1 : s_table[s_corres[Index(n)]][2] = n
    /\ s_next_index = Index(sent) /\ lowest_index = Index(Taken)

(* What has come out is in order; the ratelier_gather holds later objects, *)
(* each under its own index.                                               *)
GatherHolds ==
    /\ SlotsMatch(GatherSize, g_corres, g_empty_slot)
    /\ TableMatches(GatherSize, g_table, g_corres, g_empty_slot)
    /\ gathered \in Seq(Nat)
    /\ \A n \in 1 .. Len(gathered) : gathered[n] = n - 1
    /\ g_next_index = Index(Len(gathered))
    /\ \A i \in DOMAIN g_corres :
           Kept(i) \in Len(gathered) .. Taken - 1 /\ Index(Kept(i)) = i

(* An object is in the hands of one worker, or in a table, with its index. *)
HandsHold ==
    /\ hand \in [Workers -> {<<>>} \cup (0 .. IndexSize - 1) \X Objects]
    /\ \A w \in Busy :
           /\ Held(w) \in Len(gathered) .. Taken - 1
           /\ hand[w] = <<Index(Held(w)), Held(w)>>
           /\ \A i \in DOMAIN g_corres : Kept(i) # Held(w)
           /\ \A v \in Busy : Held(v) = Held(w) => v = w

(* None is missing, so that no index is in use twice. *)
Balance == Taken = Len(gathered) + Cardinality(Busy) + Cardinality(DOMAIN g_corres)

Streams == ScatterHolds /\ GatherHolds /\ HandsHold /\ Balance /\ raised = FALSE

EmptyHanded == {"out", "get", "get_wait"}

PcMatches ==
    /\ pc \in [Threads -> Labels]
    /\ \A w \in Workers : hand[w] = <<>> <=> pc[w] \in EmptyHanded
    /\ pc[Scattering] \in {"scatter", "scatter_wait"} => sent < Total

(* The numbers of objects on their way: never more than there are indexes. *)
LEMMA Amounts ==
    ASSUME Streams
    PROVE  /\ Len(gathered) \in Nat /\ Taken \in Nat /\ sent \in Nat
           /\ Len(gathered) <= Taken
           /\ Cardinality(DOMAIN s_corres) \in Nat /\ Cardinality(DOMAIN g_corres) \in Nat
           /\ sent = Taken + Cardinality(DOMAIN s_corres)
           /\ Cardinality(DOMAIN s_corres) <= ScatterSize
           /\ Cardinality(DOMAIN g_corres) <= GatherSize
           /\ IsFiniteSet(Busy) /\ Cardinality(Busy) \in Nat
           /\ Taken - Len(gathered) + ScatterSize <= IndexSize
<1>1. Busy \in SUBSET Workers
    BY DEF Busy
<1>2. IsFiniteSet(Busy) /\ Cardinality(Busy) <= Cardinality(Workers)
    BY <1>1, Sizes, FS_Subset
<1>3. Cardinality(Busy) \in Nat
    BY <1>2, FS_CardinalityType
<1>4. Cardinality(DOMAIN s_corres) \in Nat /\ Len(s_empty_slot) \in Nat
      /\ Cardinality(DOMAIN s_corres) + Len(s_empty_slot) = ScatterSize
    BY SlotsMatchType, Sizes DEF Streams, ScatterHolds, SlotsMatch
<1>5. Cardinality(DOMAIN g_corres) \in Nat /\ Len(g_empty_slot) \in Nat
      /\ Cardinality(DOMAIN g_corres) + Len(g_empty_slot) = GatherSize
    BY SlotsMatchType, Sizes DEF Streams, GatherHolds, SlotsMatch
<1>6. Len(gathered) \in Nat
    BY LenProperties DEF Streams, GatherHolds
<1>7. Taken \in Nat /\ sent \in Nat /\ sent = Taken + Cardinality(DOMAIN s_corres)
    BY <1>4, Sizes DEF Streams, ScatterHolds, Taken
<1>8. Taken = Len(gathered) + Cardinality(Busy) + Cardinality(DOMAIN g_corres)
    BY DEF Streams, Balance
<1>9. Cardinality(Workers) \in Nat /\ ScatterSize \in Nat /\ GatherSize \in Nat
      /\ IndexSize \in Nat /\ ScatterSize + Cardinality(Workers) + GatherSize <= IndexSize
    BY Sizes
<1>10. Cardinality(DOMAIN s_corres) <= ScatterSize /\ Cardinality(DOMAIN g_corres) <= GatherSize
    BY <1>4, <1>5, <1>9
<1>11. Taken - Len(gathered) + ScatterSize <= IndexSize /\ Len(gathered) <= Taken
  <2>1. Taken - Len(gathered) = Cardinality(Busy) + Cardinality(DOMAIN g_corres)
      BY <1>3, <1>5, <1>6, <1>7, <1>8
  <2>2. Cardinality(Busy) + Cardinality(DOMAIN g_corres) <= Cardinality(Workers) + GatherSize
      BY <1>2, <1>3, <1>5, <1>9, <1>10
  <2>3. Len(gathered) <= Taken
      BY <1>3, <1>5, <1>6, <1>7, <1>8
  <2>4. PICK d \in Int : d = Taken - Len(gathered)
      BY <1>6, <1>7
  <2>5. d <= Cardinality(Workers) + GatherSize
      BY <2>1, <2>2, <2>4
  <2> QED
      BY <1>9, <2>3, <2>4, <2>5
<1> QED
    BY <1>2, <1>3, <1>4, <1>5, <1>6, <1>7, <1>10, <1>11

(* Two objects on their way have different indexes. *)
LEMMA OwnIndex ==
    ASSUME Streams, NEW a \in Len(gathered) .. Taken - 1, NEW b \in Len(gathered) .. Taken - 1,
           Index(a) = Index(b)
    PROVE  a = b
<1>1. a \in Nat /\ b \in Nat /\ a - b < IndexSize /\ b - a < IndexSize
    BY Amounts, Sizes, SMTT(30)
<1> QED
    BY <1>1, IndexesDiffer

(* So have two objects of the ratelier_scatter, the next one included. *)
LEMMA OwnIndexWaiting ==
    ASSUME Streams, NEW a \in Taken .. sent, NEW b \in Taken .. sent,
           a - b < ScatterSize, b - a < ScatterSize, Index(a) = Index(b)
    PROVE  a = b
<1>1. a \in Nat /\ b \in Nat /\ a - b < IndexSize /\ b - a < IndexSize
    BY Amounts, Sizes
<1> QED
    BY <1>1, IndexesDiffer

(* The ratelier_scatter as the ordered pipe sees it *)
Waiting == {s_table[s_corres[i]][2] : i \in DOMAIN s_corres}

(* The objects that wait are the last ones scattered. *)
LEMMA WaitingIs == Streams => Waiting = Taken .. sent - 1
BY DEF Streams, ScatterHolds, Waiting

-----------------------------------------------------------------------------
(* scatter() *)
LEMMA PutStep ==
    ASSUME Streams, sent < Total,
           Scatter!scatter(Scattering, sent), sent' = sent + 1,
           UNCHANGED <<gatherSide, gathered>>
    PROVE  /\ Streams'
           /\ Cardinality(DOMAIN s_corres) < ScatterSize
           /\ Taken' = Taken
           /\ UNCHANGED hand
           /\ Scatter!SignalWaiting(Scatter!CondEmpty)
<1> DEFINE slot == s_empty_slot[Len(s_empty_slot)]
<1>0. s_empty_slot # <<>>
    BY DEF Scatter!scatter
<1>2. /\ Len(s_empty_slot) \in Nat \ {0} /\ slot \in 0 .. ScatterSize - 1
      /\ Cardinality(DOMAIN s_corres) + Len(s_empty_slot) = ScatterSize
      /\ SlotsMatch(ScatterSize, s_corres, s_empty_slot)
    BY <1>0, SlotsMatchType, Sizes, SMTT(30) DEF Streams, ScatterHolds, SlotsMatch
<1>3. Cardinality(DOMAIN s_corres) < ScatterSize
    BY <1>2, Amounts
<1>4. s_next_index \notin DOMAIN s_corres
  <2>1. ASSUME NEW n \in Taken .. sent - 1
        PROVE  Index(n) # Index(sent)
    <3>1. n \in Taken .. sent /\ sent \in Taken .. sent /\ n # sent
          /\ n - sent < ScatterSize /\ sent - n < ScatterSize
      <4>1. /\ Taken \in Nat /\ sent \in Nat /\ ScatterSize \in Nat
            /\ Cardinality(DOMAIN s_corres) \in Nat
            /\ sent = Taken + Cardinality(DOMAIN s_corres)
          BY Amounts, Sizes
      <4> QED
          BY <1>3, <4>1
    <3> QED
        BY <3>1, OwnIndexWaiting
  <2> QED
      BY <2>1 DEF Streams, ScatterHolds
<1>10. sent \in Objects
    BY Amounts, Sizes, SMTT(30) DEF Objects
<1>11. /\ s_table[slot] = NoObject
       /\ TableMatches(ScatterSize, [s_table EXCEPT ![slot] = <<s_next_index, sent>>],
                       Mapping(s_corres, s_next_index, slot),
                       SubSeq(s_empty_slot, 1, Len(s_empty_slot) - 1))
  <2>1. s_next_index \in 0 .. IndexSize - 1
      BY IndexType, Amounts DEF Streams, ScatterHolds
  <2>2. TableMatches(ScatterSize, s_table, s_corres, s_empty_slot)
      BY DEF Streams, ScatterHolds
  <2>3. ScatterSize \in Nat
      BY Sizes
  <2> QED
      BY <1>0, <1>2, <1>4, <1>10, <2>1, <2>2, <2>3, TableIsFilled, Zenon
<1>1. /\ s_table' = [s_table EXCEPT ![slot] = <<s_next_index, sent>>]
      /\ s_corres' = Mapping(s_corres, s_next_index, slot)
      /\ s_next_index' = (s_next_index + 1) % IndexSize
      /\ s_empty_slot' = SubSeq(s_empty_slot, 1, Len(s_empty_slot) - 1)
      /\ Scatter!SignalWaiting(Scatter!CondEmpty)
      /\ UNCHANGED <<lowest_index, hand, raised, g_table, g_corres, g_empty_slot, g_next_index>>
  <2>1. Scatter!FreeSlot = slot /\ Scatter!IsEmpty(Scatter!FreeSlot)
      BY <1>2, <1>11 DEF Scatter!FreeSlot, Scatter!Last, Scatter!IsEmpty, Scatter!Slots
  <2> QED
      BY <2>1 DEF Scatter!scatter, Scatter!Front, Scatter!Successor, Mapping, gatherSide
<1>5. /\ SlotsMatch(ScatterSize, s_corres', s_empty_slot')
      /\ \A j \in DOMAIN s_corres : s_corres[j] # slot
      /\ Len(s_empty_slot') = Len(s_empty_slot) - 1
    BY <1>0, <1>1, <1>2, <1>4, SlotIsUsed, Sizes
<1>6. Taken' = Taken
  <2>1. Cardinality(DOMAIN s_corres') + Len(s_empty_slot') = ScatterSize
        /\ Cardinality(DOMAIN s_corres') \in Nat
      BY <1>5, SlotsMatchType, Sizes DEF SlotsMatch
  <2>2. Cardinality(DOMAIN s_corres') = Cardinality(DOMAIN s_corres) + 1
    <3>1. Cardinality(DOMAIN s_corres) \in Nat /\ ScatterSize \in Nat
        BY Amounts, Sizes
    <3> QED
        BY <1>2, <1>5, <2>1, <3>1
  <2> QED
      BY <2>2, Amounts DEF Taken
<1>7. ScatterHolds'
  <2>1. s_next_index = Index(sent) /\ s_next_index' = Index(sent)'
      BY <1>1, IndexOfSum, Amounts DEF Streams, ScatterHolds, Index
  <2>2. /\ DOMAIN s_corres' = DOMAIN s_corres \cup {Index(sent)}
        /\ s_corres'[Index(sent)] = slot
        /\ \A i \in DOMAIN s_corres : s_corres'[i] = s_corres[i]
      BY <1>1, <1>4, <2>1 DEF Mapping
  <2>3. TableMatches(ScatterSize, s_table', s_corres', s_empty_slot')
        /\ s_table'[slot][2] = sent
        /\ \A s \in 0 .. ScatterSize - 1 : s # slot => s_table'[s] = s_table[s]
    <3>1. s_table \in [0 .. ScatterSize - 1 -> Stored \cup {NoObject}]
        BY DEF Streams, ScatterHolds, TableMatches
    <3>2. s_table'[slot] = <<s_next_index, sent>>
          /\ \A s \in 0 .. ScatterSize - 1 : s # slot => s_table'[s] = s_table[s]
        BY <1>1, <1>2, <3>1
    <3>3. TableMatches(ScatterSize, s_table', s_corres', s_empty_slot')
        BY <1>1, <1>11, Zenon
    <3> QED
        BY <3>2, <3>3
  <2>4. Taken .. sent' - 1 = (Taken .. sent - 1) \cup {sent}
      BY Amounts
  <2>5. DOMAIN s_corres' = {Index(n) : n \in Taken .. sent' - 1}
      BY <2>2, <2>4, SMTT(30) DEF Streams, ScatterHolds
  <2>6. ASSUME NEW n \in Taken .. sent - 1
        PROVE  s_table'[s_corres'[Index(n)]][2] = n
    <3>1. Index(n) \in DOMAIN s_corres /\ s_table[s_corres[Index(n)]][2] = n
        BY DEF Streams, ScatterHolds
    <3>2. s_corres[Index(n)] \in 0 .. ScatterSize - 1
        BY <1>2, <3>1 DEF SlotsMatch
    <3> QED
        BY <1>5, <2>2, <2>3, <3>1, <3>2
  <2>7. \A n \in Taken .. sent' - 1 : s_table'[s_corres'[Index(n)]][2] = n
      BY <2>2, <2>3, <2>4, <2>6
  <2>8. sent' \in 0 .. Total /\ Taken' \in Nat
    <3>1. Taken \in Nat /\ sent \in Nat /\ Total \in Nat
        BY Amounts, Sizes
    <3> QED
        BY <1>6, <3>1
  <2>9. lowest_index' = Index(Taken)
      BY <1>1 DEF Streams, ScatterHolds
  <2> QED
      BY <1>5, <1>6, <2>1, <2>3, <2>5, <2>7, <2>8, <2>9 DEF ScatterHolds, Index
<1>8. /\ Busy' = Busy
      /\ \A w : Held(w)' = Held(w)
      /\ \A i : Kept(i)' = Kept(i)
    BY <1>1 DEF Busy, Held, Kept
<1>9. GatherHolds' /\ HandsHold' /\ Balance' /\ raised' = FALSE
    BY <1>1, <1>6, <1>8 DEF Streams, GatherHolds, HandsHold, Balance, Index
<1> QED
    BY <1>1, <1>3, <1>6, <1>7, <1>9 DEF Streams

-----------------------------------------------------------------------------
(* worker_get_one() *)
LEMMA LowestIsFirst ==
    ASSUME Streams, Scatter!Visible # {}
    PROVE  /\ Taken < sent
           /\ lowest_index = Index(Taken) /\ lowest_index \in DOMAIN s_corres
           /\ Scatter!Min(Scatter!Visible) = lowest_index
<1>1. PICK i \in DOMAIN s_corres : TRUE
    BY DEF Scatter!Visible
<1>2. PICK n \in Taken .. sent - 1 : i = Index(n)
    BY DEF Streams, ScatterHolds
<1>3. Taken < sent /\ Taken \in Taken .. sent - 1
    BY <1>2, Amounts
<1>4. lowest_index = Index(Taken) /\ lowest_index \in DOMAIN s_corres
    BY <1>3 DEF Streams, ScatterHolds
<1>5. lowest_index \in Int
    BY <1>4, IndexType, Amounts
<1>6. DOMAIN s_corres \subseteq Int
  <2>1. \A m \in Taken .. sent - 1 : m \in Nat /\ Index(m) \in 0 .. IndexSize - 1
      BY Amounts, IndexType
  <2> QED
      BY <2>1 DEF Streams, ScatterHolds
<1>7. lowest_index \in Scatter!Visible /\ \A j \in Scatter!Visible : lowest_index <= j
    BY <1>4, <1>5, <1>6 DEF Scatter!Visible
<1>8. \A j \in Scatter!Visible : j \in Int
    BY <1>6 DEF Scatter!Visible
<1>9. \A j \in Scatter!Visible :
          (\A k \in Scatter!Visible : j <= k) => j = lowest_index
    BY <1>5, <1>7, <1>8
<1>10. Scatter!Min(Scatter!Visible) = lowest_index
    BY <1>7, <1>9 DEF Scatter!Min
<1> QED
    BY <1>3, <1>4, <1>10

(* The object that a worker gets is the oldest one that waits. *)
LEMMA TakeStep ==
    ASSUME Streams, NEW w \in Workers, hand[w] = <<>>,
           Scatter!worker_get_one(w), UNCHANGED <<gatherSide, gathered, sent>>
    PROVE  /\ Streams'
           /\ hand' = [hand EXCEPT ![w] = <<Index(Taken), Taken>>]
           /\ Taken < sent /\ Taken' = Taken + 1
           /\ Cardinality(DOMAIN s_corres)' = Cardinality(DOMAIN s_corres) - 1
           /\ Scatter!SignalWaiting(Scatter!CondFull)
<1> DEFINE i == Index(Taken)
           slot == s_corres[i]
<1>1. /\ Taken < sent /\ lowest_index = i /\ i \in DOMAIN s_corres
      /\ Scatter!Visible # {} /\ Scatter!Min(Scatter!Visible) = i
    BY LowestIsFirst DEF Scatter!worker_get_one
<1>2. /\ s_table[slot] = <<i, Taken>> /\ s_table[slot] # NoObject
      /\ s_table[slot][1] = i /\ slot \in 0 .. ScatterSize - 1
  <2>1. i \in 0 .. IndexSize - 1 /\ s_table[slot] \in {i} \X Objects
      BY <1>1, IndexType, Amounts DEF Streams, ScatterHolds, TableMatches
  <2>2. s_table[slot][2] = Taken
      BY <1>1, Amounts DEF Streams, ScatterHolds
  <2>3. slot \in 0 .. ScatterSize - 1
      BY <1>1 DEF Streams, ScatterHolds, SlotsMatch
  <2> HIDE DEF i, slot
  <2>4. s_table[slot] # NoObject /\ s_table[slot][1] = i
        /\ s_table[slot] = <<i, s_table[slot][2]>>
      BY <2>1, FilledIsNotEmpty, Zenon
  <2> QED
      BY <2>2, <2>3, <2>4
<1>3. /\ s_table' = [s_table EXCEPT ![slot] = NoObject]
      /\ hand' = [hand EXCEPT ![w] = <<i, Taken>>]
      /\ lowest_index' = (i + 1) % IndexSize
      /\ s_empty_slot' = Append(s_empty_slot, slot)
      /\ s_corres' = Without(s_corres, {i})
      /\ Scatter!SignalWaiting(Scatter!CondFull)
      /\ UNCHANGED <<s_next_index, raised, sent, gathered,
                     g_table, g_corres, g_empty_slot, g_next_index>>
  <2>1. Scatter!IsFilled(slot) /\ s_table[slot][1] = lowest_index
      BY <1>1, <1>2 DEF Scatter!IsFilled, Scatter!Slots
  <2> QED
      BY <1>1, <1>2, <2>1 DEF Scatter!worker_get_one, Scatter!Successor, Without, gatherSide
<1> HIDE DEF slot
<1>4. /\ SlotsMatch(ScatterSize, s_corres, s_empty_slot)
      /\ slot = s_corres[i] /\ slot \in 0 .. ScatterSize - 1
      /\ \A j \in DOMAIN s_corres : s_corres[j] = slot => j = i
      /\ \A j \in DOMAIN s_corres : s_corres[j] \in 0 .. ScatterSize - 1
    BY <1>1 DEF slot, Streams, ScatterHolds, SlotsMatch
<1>5. /\ SlotsMatch(ScatterSize, s_corres', s_empty_slot')
      /\ Cardinality(DOMAIN s_corres') = Cardinality(DOMAIN s_corres) - 1
    BY <1>1, <1>3, <1>4, SlotIsFreed, Sizes
<1>6. Taken' = Taken + 1
    BY <1>3, <1>5, Amounts DEF Taken
<1>7. /\ Taken .. sent - 1 = (Taken + 1 .. sent - 1) \cup {Taken}
      /\ \A n \in Taken + 1 .. sent - 1 : n # Taken /\ n \in Taken .. sent - 1
    BY <1>1, Amounts
<1>8. \A n \in Taken + 1 .. sent - 1 : Index(n) # i
  <2> SUFFICES ASSUME NEW n \in Taken + 1 .. sent - 1
               PROVE  Index(n) # Index(Taken)
      OBVIOUS
  <2>1. n \in Taken .. sent /\ Taken \in Taken .. sent /\ n # Taken
        /\ n - Taken < ScatterSize /\ Taken - n < ScatterSize
    <3>1. /\ Taken \in Nat /\ sent \in Nat /\ ScatterSize \in Nat
          /\ Cardinality(DOMAIN s_corres) \in Nat
          /\ Cardinality(DOMAIN s_corres) <= ScatterSize
          /\ sent = Taken + Cardinality(DOMAIN s_corres)
        BY Amounts, Sizes
    <3> QED
        BY <1>1, <3>1
  <2> QED
      BY <2>1, OwnIndexWaiting
<1>9. ScatterHolds'
  <2>1. DOMAIN s_corres' = DOMAIN s_corres \ {i}
        /\ \A j \in DOMAIN s_corres' : s_corres'[j] = s_corres[j]
      BY <1>3 DEF Without
  <2>2. DOMAIN s_corres = {Index(n) : n \in Taken .. sent - 1}
      BY DEF Streams, ScatterHolds
  <2>3. DOMAIN s_corres' = {Index(n) : n \in Taken + 1 .. sent - 1}
      BY <1>7, <1>8, <2>1, <2>2
  <2>4. TableMatches(ScatterSize, s_table', s_corres', s_empty_slot')
        /\ \A s \in 0 .. ScatterSize - 1 : s # slot => s_table'[s] = s_table[s]
    <3>1. TableMatches(ScatterSize, s_table, s_corres, s_empty_slot)
        BY DEF Streams, ScatterHolds
    <3>2. TableMatches(ScatterSize, s_table', s_corres', s_empty_slot')
        BY <1>1, <1>3, <1>4, <3>1, SlotIsEmptied, Sizes
    <3> QED
        BY <1>3, <1>4, <3>1, <3>2 DEF TableMatches
  <2>5. ASSUME NEW n \in Taken + 1 .. sent - 1
        PROVE  s_table'[s_corres'[Index(n)]][2] = n
    <3>1. s_table[s_corres[Index(n)]][2] = n
        BY <1>7 DEF Streams, ScatterHolds
    <3>2. Index(n) \in DOMAIN s_corres /\ Index(n) # i /\ Index(n) \in DOMAIN s_corres'
        BY <1>7, <1>8, <2>1, <2>2
    <3> QED
        BY <1>4, <2>1, <2>4, <3>1, <3>2
  <2>6. lowest_index' = Index(Taken + 1)
      BY <1>3, IndexOfSum, Amounts
  <2>7. sent' \in 0 .. Total /\ Taken' \in Nat /\ s_next_index' = Index(sent)
      BY <1>3, <1>6, Amounts DEF Streams, ScatterHolds
  <2> QED
      BY <1>3, <1>5, <1>6, <2>3, <2>4, <2>5, <2>6, <2>7 DEF ScatterHolds, Index
<1>10. \A j : Kept(j)' = Kept(j)
    BY <1>3 DEF Kept
<1>11. GatherHolds'
  <2>1. \A j \in DOMAIN g_corres : Kept(j) \in Len(gathered) .. Taken
    <3>1. \A j \in DOMAIN g_corres : Kept(j) \in Len(gathered) .. Taken - 1
        BY DEF Streams, GatherHolds
    <3>2. Len(gathered) \in Nat /\ Taken \in Nat
        BY Amounts
    <3> QED
        BY <3>1, <3>2
  <2>2. Len(gathered') .. Taken' - 1 = Len(gathered) .. Taken
      BY <1>3, <1>6, Amounts
  <2>3. \A j \in DOMAIN g_corres' :
            Kept(j)' \in Len(gathered') .. Taken' - 1 /\ Index(Kept(j)') = j
      BY <1>3, <1>10, <2>1, <2>2 DEF Streams, GatherHolds
  <2> QED
      BY <1>3, <2>3 DEF Streams, GatherHolds, Index
<1>12. /\ Busy' = Busy \cup {w} /\ w \notin Busy
       /\ Held(w)' = Taken /\ hand'[w] = <<i, Taken>>
       /\ \A v \in Busy : hand'[v] = hand[v] /\ Held(v)' = Held(v)
    BY <1>3 DEF Busy, Held, Streams, HandsHold
<1>13. HandsHold'
  <2>1. hand' \in [Workers -> {<<>>} \cup (0 .. IndexSize - 1) \X Objects]
    <3>1. i \in 0 .. IndexSize - 1
        BY Amounts, IndexType
    <3>2. Taken \in Objects
        BY <1>1, Amounts, Sizes DEF Streams, ScatterHolds, Objects
    <3> QED
        BY <1>3, <3>1, <3>2 DEF Streams, HandsHold
  <2>2. Taken \in Len(gathered) .. Taken
      BY Amounts
  <2>3. \A j \in DOMAIN g_corres : Kept(j) # Taken
    <3>1. \A j \in DOMAIN g_corres : Kept(j) \in Len(gathered) .. Taken - 1
        BY DEF Streams, GatherHolds
    <3>2. Len(gathered) \in Nat /\ Taken \in Nat
        BY Amounts
    <3> QED
        BY <3>1, <3>2
  <2>4. \A v \in Busy : /\ Held(v) \in Len(gathered) .. Taken /\ Held(v) # Taken
    <3>1. \A v \in Busy : Held(v) \in Len(gathered) .. Taken - 1
        BY DEF Streams, HandsHold
    <3>2. Len(gathered) \in Nat /\ Taken \in Nat
        BY Amounts
    <3> QED
        BY <3>1, <3>2
  <2>5. \A v \in Busy : /\ hand[v] = <<Index(Held(v)), Held(v)>>
                        /\ \A j \in DOMAIN g_corres : Kept(j) # Held(v)
                        /\ \A u \in Busy : Held(u) = Held(v) => u = v
      BY DEF Streams, HandsHold
  <2>6. Len(gathered') .. Taken' - 1 = Len(gathered) .. Taken
      BY <1>3, <1>6, Amounts
  <2>7. ASSUME NEW v \in Busy'
        PROVE  /\ Held(v)' \in Len(gathered') .. Taken' - 1
               /\ hand'[v] = <<Index(Held(v)'), Held(v)'>>
               /\ \A j \in DOMAIN g_corres' : Kept(j)' # Held(v)'
               /\ \A u \in Busy' : Held(u)' = Held(v)' => u = v
    <3>1. CASE v = w
        BY <1>3, <1>10, <1>12, <2>2, <2>3, <2>4, <2>6, <3>1
    <3>2. CASE v \in Busy
        BY <1>3, <1>10, <1>12, <2>4, <2>5, <2>6, <3>2
    <3> QED
        BY <1>12, <3>1, <3>2
  <2> QED
      BY <2>1, <2>7 DEF HandsHold, Index
<1>14. Balance'
  <2>1. Cardinality(Busy') = Cardinality(Busy) + 1
      BY <1>12, Amounts, FS_AddElement
  <2>2. Taken = Len(gathered) + Cardinality(Busy) + Cardinality(DOMAIN g_corres)
      BY DEF Streams, Balance
  <2>3. /\ Len(gathered) \in Nat /\ Cardinality(Busy) \in Nat
        /\ Cardinality(DOMAIN g_corres) \in Nat
      BY Amounts
  <2>4. Taken' = Taken + 1 /\ gathered' = gathered /\ g_corres' = g_corres
      BY <1>3, <1>6
  <2> QED
      BY <2>1, <2>2, <2>3, <2>4 DEF Balance
<1> QED
    BY <1>1, <1>3, <1>5, <1>6, <1>9, <1>11, <1>13, <1>14 DEF Streams

-----------------------------------------------------------------------------
(* worker_push_one() *)

(* The ratelier_gather as the ordered pipe sees it *)
Ready == {g_table[g_corres[i]][2] : i \in DOMAIN g_corres}

(* No index is pushed while it is in use. *)
LEMMA PushedIndexIsFree ==
    ASSUME Streams, NEW w \in Workers, hand[w] # <<>>
    PROVE  /\ w \in Busy
           /\ hand[w] = <<Index(Held(w)), Held(w)>>
           /\ Held(w) \in Len(gathered) .. Taken - 1
           /\ Index(Held(w)) \notin DOMAIN g_corres
<1>1. /\ w \in Busy
      /\ Held(w) \in Len(gathered) .. Taken - 1
      /\ hand[w] = <<Index(Held(w)), Held(w)>>
      /\ \A i \in DOMAIN g_corres : Kept(i) # Held(w)
    BY DEF Streams, HandsHold, Busy
<1>2. ASSUME NEW i \in DOMAIN g_corres, i = Index(Held(w))
      PROVE  FALSE
  <2>1. Kept(i) \in Len(gathered) .. Taken - 1 /\ Index(Kept(i)) = i
      BY DEF Streams, GatherHolds
  <2>2. Kept(i) = Held(w)
      BY <1>1, <1>2, <2>1, OwnIndex
  <2> QED
      BY <1>1, <2>2
<1> QED
    BY <1>1, <1>2

(* A worker gives back its object, under an index that is free. *)
LEMMA GiveStep ==
    ASSUME Streams, NEW w \in Workers, hand[w] # <<>>,
           Gather!worker_push_one(w), UNCHANGED <<scatterSide, sent>>
    PROVE  /\ Streams'
           /\ hand' = [hand EXCEPT ![w] = <<>>]
           /\ Len(g_empty_slot) \in Nat \ {0} /\ Len(g_empty_slot') = Len(g_empty_slot) - 1
           /\ ~Gather!MustWait(Index(Held(w)))
           /\ DOMAIN g_corres' = DOMAIN g_corres \cup {Index(Held(w))}
           /\ Ready' = Ready \cup {Held(w)}
           /\ UNCHANGED <<Taken, gathered, g_next_index>>
<1>0. PICK i, one : i = Index(Held(w)) /\ one = Held(w)
    OBVIOUS
<1> DEFINE slot == g_empty_slot[Len(g_empty_slot)]
<1>1. /\ w \in Busy /\ hand[w] = <<i, one>> /\ hand[w][1] = i
      /\ one \in Len(gathered) .. Taken - 1
      /\ i \notin DOMAIN g_corres
    BY <1>0, PushedIndexIsFree
<1>2. hand[w][2] = one
    BY <1>0 DEF Held
<1>4. g_empty_slot # <<>>
    BY DEF Gather!worker_push_one, Gather!MustWait
<1>5. /\ Len(g_empty_slot) \in Nat \ {0} /\ slot \in 0 .. GatherSize - 1
      /\ SlotsMatch(GatherSize, g_corres, g_empty_slot)
      /\ Cardinality(DOMAIN g_corres) + Len(g_empty_slot) = GatherSize
    BY <1>4, SlotsMatchType, Sizes, SMTT(30) DEF Streams, GatherHolds, SlotsMatch
<1>10. one \in Objects
    BY <1>1, <1>2 DEF Streams, HandsHold
<1>19. /\ g_table[slot] = NoObject
       /\ TableMatches(GatherSize, [g_table EXCEPT ![slot] = <<i, one>>],
                       Mapping(g_corres, i, slot),
                       SubSeq(g_empty_slot, 1, Len(g_empty_slot) - 1))
  <2>1. i \in 0 .. IndexSize - 1
      BY <1>0, <1>1, IndexType, Amounts
  <2>2. TableMatches(GatherSize, g_table, g_corres, g_empty_slot)
      BY DEF Streams, GatherHolds
  <2>3. GatherSize \in Nat
      BY Sizes
  <2> QED
      BY <1>1, <1>4, <1>5, <1>10, <2>1, <2>2, <2>3, TableIsFilled, Zenon
<1>3. /\ ~Gather!MustWait(i)
      /\ g_corres' = Mapping(g_corres, i, slot)
      /\ g_table' = [g_table EXCEPT ![slot] = <<i, one>>]
      /\ g_empty_slot' = SubSeq(g_empty_slot, 1, Len(g_empty_slot) - 1)
      /\ hand' = [hand EXCEPT ![w] = <<>>]
      /\ UNCHANGED <<g_next_index, gathered, raised, sent, s_next_index, lowest_index,
                     s_table, s_corres, s_empty_slot>>
  <2>1. Gather!FreeSlot = slot /\ Gather!IsEmpty(Gather!FreeSlot)
      BY <1>5, <1>19 DEF Gather!FreeSlot, Gather!Last, Gather!IsEmpty, Gather!Slots
  <2> QED
      BY <1>1, <1>2, <2>1 DEF Gather!worker_push_one, Gather!Front, Mapping, scatterSide
<1>6. /\ SlotsMatch(GatherSize, g_corres', g_empty_slot')
      /\ \A j \in DOMAIN g_corres : g_corres[j] # slot
      /\ Len(g_empty_slot') = Len(g_empty_slot) - 1
    BY <1>1, <1>3, <1>4, <1>5, SlotIsUsed, Sizes
<1>7. Cardinality(DOMAIN g_corres') = Cardinality(DOMAIN g_corres) + 1
  <2>1. Cardinality(DOMAIN g_corres') \in Nat /\ Cardinality(DOMAIN g_corres) \in Nat
        /\ GatherSize \in Nat
        /\ Cardinality(DOMAIN g_corres') + Len(g_empty_slot') = GatherSize
      BY <1>6, SlotsMatchType, Sizes, Amounts DEF SlotsMatch
  <2> QED
      BY <1>5, <1>6, <2>1
<1>8. Taken' = Taken
    BY <1>3 DEF Taken
<1>9. /\ DOMAIN g_corres' = DOMAIN g_corres \cup {i}
      /\ g_corres'[i] = slot
      /\ \A j \in DOMAIN g_corres : g_corres'[j] = g_corres[j]
    BY <1>1, <1>3 DEF Mapping
<1>11. /\ TableMatches(GatherSize, g_table', g_corres', g_empty_slot')
       /\ g_table'[slot][2] = one
       /\ \A s \in 0 .. GatherSize - 1 : s # slot => g_table'[s] = g_table[s]
  <2>1. TableMatches(GatherSize, g_table', g_corres', g_empty_slot')
      BY <1>3, <1>19, Zenon
  <2>2. g_table'[slot] = <<i, one>>
        /\ \A s \in 0 .. GatherSize - 1 : s # slot => g_table'[s] = g_table[s]
      BY <1>3, <1>5 DEF Streams, GatherHolds, TableMatches
  <2> QED
      BY <2>1, <2>2
<1> HIDE DEF slot
<1>12. Kept(i)' = one /\ \A j \in DOMAIN g_corres : Kept(j)' = Kept(j) /\ j # i
  <2>1. \A j \in DOMAIN g_corres : g_corres[j] \in 0 .. GatherSize - 1
      BY <1>5 DEF SlotsMatch
  <2> QED
      BY <1>1, <1>6, <1>9, <1>11, <2>1 DEF Kept
<1>13. ScatterHolds'
    BY <1>3, <1>8 DEF Streams, ScatterHolds, Index
<1>14. GatherHolds'
  <2>1. \A j \in DOMAIN g_corres' :
            Kept(j)' \in Len(gathered') .. Taken' - 1 /\ Index(Kept(j)') = j
    <3>1. Index(one) = i
        BY <1>0
    <3> QED
        BY <1>1, <1>3, <1>8, <1>9, <1>12, <3>1 DEF Streams, GatherHolds
  <2> QED
      BY <1>3, <1>6, <1>11, <2>1 DEF Streams, GatherHolds, Index
<1>15. /\ Busy' = Busy \ {w}
       /\ \A v \in Busy' : v \in Busy /\ v # w /\ hand'[v] = hand[v] /\ Held(v)' = Held(v)
    BY <1>3 DEF Busy, Held, Streams, HandsHold
<1>16. HandsHold'
  <2>1. hand' \in [Workers -> {<<>>} \cup (0 .. IndexSize - 1) \X Objects]
      BY <1>3 DEF Streams, HandsHold
  <2>2. \A v \in Busy : /\ Held(v) \in Len(gathered) .. Taken - 1
                        /\ hand[v] = <<Index(Held(v)), Held(v)>>
                        /\ \A j \in DOMAIN g_corres : Kept(j) # Held(v)
                        /\ \A u \in Busy : Held(u) = Held(v) => u = v
      BY DEF Streams, HandsHold
  <2>3. ASSUME NEW v \in Busy'
        PROVE  /\ Held(v)' \in Len(gathered') .. Taken' - 1
               /\ hand'[v] = <<Index(Held(v)'), Held(v)'>>
               /\ \A j \in DOMAIN g_corres' : Kept(j)' # Held(v)'
               /\ \A u \in Busy' : Held(u)' = Held(v)' => u = v
    <3>1. v \in Busy /\ v # w /\ hand'[v] = hand[v] /\ Held(v)' = Held(v) /\ Held(v) # one
        BY <1>0, <1>1, <1>15, <2>2
    <3> QED
        BY <1>3, <1>8, <1>9, <1>12, <1>15, <2>2, <3>1
  <2> QED
      BY <2>1, <2>3 DEF HandsHold, Index
<1>17. Balance'
  <2>1. Cardinality(Busy') = Cardinality(Busy) - 1
      BY <1>1, <1>15, Amounts, FS_RemoveElement
  <2>2. Taken = Len(gathered) + Cardinality(Busy) + Cardinality(DOMAIN g_corres)
      BY DEF Streams, Balance
  <2>3. /\ Len(gathered) \in Nat /\ Cardinality(Busy) \in Nat
        /\ Cardinality(DOMAIN g_corres) \in Nat
      BY Amounts
  <2>4. gathered' = gathered
      BY <1>3
  <2> QED
      BY <1>7, <1>8, <2>1, <2>2, <2>3, <2>4 DEF Balance
<1>18. Ready' = Ready \cup {one}
    BY <1>9, <1>12 DEF Ready, Kept
<1> QED
    BY <1>0, <1>3, <1>5, <1>6, <1>8, <1>9, <1>13, <1>14, <1>16, <1>17, <1>18 DEF Streams

-----------------------------------------------------------------------------
(* gather() *)
LEMMA SameCardinality ==
    ASSUME NEW S
    PROVE  /\ Scatter!Cardinality(S) = Cardinality(S) /\ Gather!Cardinality(S) = Cardinality(S)
           /\ Ordered!Cardinality(S) = Cardinality(S)
BY DEF Scatter!Cardinality, Gather!Cardinality, Ordered!Cardinality, Cardinality

(* The indexes without a hole are as many as the objects that come out. *)
LEMMA ContinuousIs ==
    ASSUME Streams, NEW k, k = Cardinality(Gather!Continuous)
    PROVE  /\ k \in Nat /\ (Gather!Continuous # {} => k >= 1)
           /\ Gather!Continuous \in SUBSET DOMAIN g_corres
           /\ Gather!Continuous = g_next_index .. g_next_index + k - 1
<1> DEFINE C == Gather!Continuous
           next == g_next_index
<1>1. C = {i \in DOMAIN g_corres : i >= next /\ next .. i \subseteq DOMAIN g_corres}
    BY DEF Gather!Continuous
<1>2. next \in Nat /\ DOMAIN g_corres \subseteq Nat /\ IsFiniteSet(DOMAIN g_corres)
  <2>1. \A i \in DOMAIN g_corres : i \in 0 .. IndexSize - 1
      BY IndexType, Amounts DEF Streams, GatherHolds
  <2>2. g_next_index \in 0 .. IndexSize - 1
      BY IndexType, Amounts DEF Streams, GatherHolds
  <2>3. IsFiniteSet(DOMAIN g_corres)
      BY DEF Streams, GatherHolds, SlotsMatch
  <2> QED
      BY <2>1, <2>2, <2>3, Sizes
<1> HIDE DEF C, next
<1>3. C \in SUBSET DOMAIN g_corres
    BY <1>1
<1>4. IsFiniteSet(C) /\ k = Cardinality(C) /\ k \in Nat
    BY <1>2, <1>3, FS_Subset, FS_CardinalityType DEF C
<1>5. ASSUME NEW i \in C
      PROVE  next .. i \in SUBSET C
  <2>1. i \in Nat /\ i >= next /\ next .. i \subseteq DOMAIN g_corres
      BY <1>1, <1>2
  <2>2. ASSUME NEW j \in next .. i
        PROVE  j \in C
    <3>1. j >= next /\ next .. j \subseteq next .. i
        BY <1>2, <2>1
    <3> QED
        BY <1>1, <2>1, <3>1
  <2> QED
      BY <2>2
<1>6. next + k \notin C
  <2> SUFFICES ASSUME next + k \in C
               PROVE  FALSE
      OBVIOUS
  <2>1. next .. next + k \in SUBSET C
      BY <1>5
  <2>2. Cardinality(next .. next + k) <= k
      BY <1>4, <2>1, FS_Subset
  <2>3. Cardinality(next .. next + k) = k + 1
      BY <1>2, <1>4, FS_Interval
  <2> QED
      BY <1>4, <2>2, <2>3
<1>7. C \in SUBSET (next .. next + k - 1)
  <2> SUFFICES ASSUME NEW i \in C
               PROVE  i \in next .. next + k - 1
      OBVIOUS
  <2>1. i \in Nat /\ i >= next
      BY <1>1, <1>2
  <2>2. CASE i >= next + k
    <3>1. next + k \in next .. i
        BY <1>2, <1>4, <2>1, <2>2
    <3> QED
        BY <1>5, <1>6, <3>1
  <2> QED
      BY <1>2, <1>4, <2>1, <2>2
<1>8. C = next .. next + k - 1
  <2>1. IsFiniteSet(next .. next + k - 1) /\ Cardinality(next .. next + k - 1) = k
    <3>1. PICK last \in Int : last = next + k - 1
        BY <1>2, <1>4
    <3>2. IsFiniteSet(next .. last)
          /\ Cardinality(next .. last) = IF next > last THEN 0 ELSE last - next + 1
        BY <1>2, FS_Interval
    <3> QED
        BY <1>2, <1>4, <3>1, <3>2
  <2> QED
      BY <1>4, <1>7, <2>1, FS_Subset
<1>9. C # {} => k >= 1
    BY <1>4, FS_EmptySet
<1> QED
    BY <1>3, <1>4, <1>8, <1>9 DEF C, next

(* They are the indexes of the objects that follow those gathered. *)
LEMMA NextObjects ==
    ASSUME Streams, NEW n \in Nat, g_next_index + n \in DOMAIN g_corres
    PROVE  /\ Kept(g_next_index + n) = Len(gathered) + n
           /\ Index(Len(gathered) + n) = g_next_index + n
<1> DEFINE G == Len(gathered)
           i == g_next_index + n
<1>1. /\ Kept(i) \in G .. Taken - 1 /\ Index(Kept(i)) = i
      /\ g_next_index = Index(G)
    BY DEF Streams, GatherHolds
<1>2. /\ G \in Nat /\ Taken \in Nat /\ ScatterSize \in Nat \ {0} /\ IndexSize \in Nat \ {0}
      /\ Taken - G + ScatterSize <= IndexSize
    BY Amounts, Sizes
<1> HIDE DEF G
<1>3. Index(G) \in 0 .. IndexSize - 1 /\ Index(Kept(i)) \in 0 .. IndexSize - 1
    BY <1>1, <1>2, IndexType
<1>4. Index(G) + n < IndexSize
    BY <1>1, <1>2, <1>3
<1>5. Index(G + n) = i
    BY <1>1, <1>2, <1>4, IndexWithoutWrap
<1> HIDE DEF i
<1>6. PICK a \in Nat, b \in Nat : a = Kept(i) /\ b = G + n
    BY <1>1, <1>2
<1>7. Index(a) = i /\ Index(b) = i /\ a \in G .. Taken - 1
    BY <1>1, <1>5, <1>6, Zenon
<1>8. n < IndexSize
    BY <1>2, <1>3, <1>4
<1>9. a - b < IndexSize /\ b - a < IndexSize
    BY <1>2, <1>6, <1>7, <1>8
<1>10. a = b
    BY <1>7, <1>9, IndexesDiffer
<1> QED
    BY <1>5, <1>6, <1>10 DEF i, G

(* The objects that come out are those in turn, and they leave free slots. *)
LEMMA GatherStep ==
    ASSUME Streams, NEW k, k = Cardinality(Gather!Continuous),
           Gather!gather(Gathering), UNCHANGED <<scatterSide, sent>>
    PROVE  /\ Streams'
           /\ k \in Nat \ {0}
           /\ Len(gathered) .. Len(gathered) + k - 1 \subseteq Ready
           /\ gathered' = gathered \o [n \in 1 .. k |-> Len(gathered) + n - 1]
           /\ Ready' = Ready \ (Len(gathered) .. Len(gathered) + k - 1)
           /\ g_empty_slot' # <<>>
           /\ UNCHANGED <<Taken, hand>>
<1>0. PICK G, next, C :
          G = Len(gathered) /\ next = g_next_index /\ C = Gather!Continuous
    OBVIOUS
<1> DEFINE from == [n \in 1 .. k |-> g_corres[next + n - 1]]
<1>1. /\ k \in Nat \ {0}
      /\ C \in SUBSET DOMAIN g_corres
      /\ C = next .. next + k - 1
  <2>1. C # {}
      BY <1>0 DEF Gather!gather
  <2> QED
      BY <1>0, <2>1, ContinuousIs
<1>26. Gather!Sound = C
  <2>1. ASSUME NEW i \in DOMAIN g_corres
        PROVE  Gather!IsSound(i)
    <3>1. /\ i \in 0 .. IndexSize - 1 /\ g_table[g_corres[i]] \in {i} \X Objects
          /\ g_corres[i] \in 0 .. GatherSize - 1
        BY DEF Streams, GatherHolds, TableMatches, SlotsMatch
    <3>2. g_table[g_corres[i]] # NoObject /\ g_table[g_corres[i]][1] = i
        BY <3>1, FilledIsNotEmpty, Zenon
    <3> QED
        BY <3>1, <3>2 DEF Gather!IsSound, Gather!IsFilled, Gather!Slots
  <2>2. \A i \in C : g_next_index .. i \subseteq DOMAIN g_corres
      BY <1>0 DEF Gather!Continuous
  <2> QED
      BY <1>0, <2>1, <2>2 DEF Gather!Sound
<1>2. /\ gathered' = gathered \o [n \in 1 .. k |-> g_table[from[n]][2]]
      /\ g_table' = [s \in 0 .. GatherSize - 1 |->
                         IF s \in {from[n] : n \in DOMAIN from} THEN NoObject ELSE g_table[s]]
      /\ g_empty_slot' = g_empty_slot \o from
      /\ g_corres' = Without(g_corres, C)
      /\ g_next_index' = (next + k) % IndexSize
      /\ UNCHANGED <<hand, raised, sent, s_next_index, lowest_index, s_table, s_corres,
                     s_empty_slot>>
    BY <1>0, <1>26, SameCardinality DEF Gather!gather, Gather!Slots, Gather!Range, Without, scatterSide
<1>3. /\ G \in Nat /\ Taken \in Nat /\ next \in Nat /\ gathered \in Seq(Nat) /\ next = Index(G)
      /\ \A i \in DOMAIN g_corres : Kept(i) \in G .. Taken - 1 /\ Index(Kept(i)) = i
      /\ SlotsMatch(GatherSize, g_corres, g_empty_slot)
  <2>1. G \in Nat /\ Taken \in Nat
      BY <1>0, Amounts
  <2>2. next = Index(G) /\ next \in Nat
      BY <1>0, <2>1, IndexType, Sizes DEF Streams, GatherHolds
  <2> QED
      BY <1>0, <2>1, <2>2 DEF Streams, GatherHolds
<1>4. ASSUME NEW n \in 1 .. k
      PROVE  /\ next + n - 1 \in C /\ next + n - 1 \in DOMAIN g_corres
             /\ Kept(next + n - 1) = G + n - 1
             /\ Index(G + n - 1) = next + n - 1
  <2>1. PICK m \in Nat : m = n - 1 /\ next + n - 1 = next + m /\ G + n - 1 = G + m
      BY <1>1, <1>3
  <2>2. next + m \in C /\ next + m \in DOMAIN g_corres
      BY <1>1, <1>3, <2>1
  <2> QED
      BY <1>0, <2>1, <2>2, NextObjects
<1>5. \A i \in C : \E n \in 1 .. k : i = next + n - 1 /\ Kept(i) = G + n - 1
  <2> SUFFICES ASSUME NEW i \in C
               PROVE  \E n \in 1 .. k : i = next + n - 1 /\ Kept(i) = G + n - 1
      OBVIOUS
  <2>1. PICK n \in 1 .. k : i = next + n - 1
    <3>1. i - next + 1 \in 1 .. k /\ i = next + (i - next + 1) - 1
        BY <1>1, <1>3, SMTT(30)
    <3> QED
        BY <3>1
  <2> QED
      BY <1>4, <2>1
<1>6. /\ from \in Seq(0 .. GatherSize - 1) /\ Len(from) = k /\ DOMAIN from = 1 .. k
      /\ \A n \in 1 .. k : from[n] = g_corres[next + n - 1]
  <2>1. \A n \in 1 .. k : g_corres[next + n - 1] \in 0 .. GatherSize - 1
      BY <1>3, <1>4 DEF SlotsMatch
  <2>2. from \in [1 .. k -> 0 .. GatherSize - 1]
      BY <2>1
  <2> HIDE DEF from
  <2>3. from \in Seq(0 .. GatherSize - 1) /\ Len(from) = k /\ DOMAIN from = 1 .. k
      BY <1>1, <2>2, FunctionIsSeq, Zenon
  <2> QED
      BY <2>3 DEF from
<1> HIDE DEF from
<1>7. \A n \in 1 .. k : g_table[from[n]][2] = G + n - 1
    BY <1>4, <1>6 DEF Kept
<1>8. /\ SlotsMatch(GatherSize, g_corres', g_empty_slot')
      /\ Len(g_empty_slot') = Len(g_empty_slot) + k /\ Len(g_empty_slot) \in Nat
      /\ Cardinality(DOMAIN g_corres') = Cardinality(DOMAIN g_corres) - k
  <2>1. \A n \in 1 .. Len(from) : \E i \in C : from[n] = g_corres[i]
      BY <1>4, <1>6
  <2>2. ASSUME NEW m \in 1 .. Len(from), NEW n \in 1 .. Len(from), from[m] = from[n]
        PROVE  m = n
    <3>1. next + m - 1 = next + n - 1
        BY <1>3, <1>4, <1>6, <2>2 DEF SlotsMatch
    <3> QED
        BY <1>1, <1>3, <1>6, <3>1
  <2>3. Len(from) = Cardinality(C)
      BY <1>0, <1>6
  <2>4. SlotsMatch(GatherSize, g_corres', g_empty_slot')
      BY <1>1, <1>2, <1>3, <1>6, <2>1, <2>2, <2>3, SlotsAreFreed, Sizes, ZenonT(30)
  <2>5. Len(g_empty_slot) \in Nat /\ GatherSize \in Nat
        /\ Cardinality(DOMAIN g_corres) \in Nat /\ Cardinality(DOMAIN g_corres') \in Nat
        /\ Cardinality(DOMAIN g_corres) + Len(g_empty_slot) = GatherSize
        /\ Cardinality(DOMAIN g_corres') + Len(g_empty_slot') = GatherSize
      BY <1>3, <2>4, SlotsMatchType, Sizes DEF SlotsMatch
  <2>6. Len(g_empty_slot') = Len(g_empty_slot) + k
    <3>1. g_empty_slot \in Seq(0 .. GatherSize - 1)
        BY <1>3 DEF SlotsMatch
    <3>2. Len(g_empty_slot \o from) = Len(g_empty_slot) + Len(from)
        BY <1>6, <3>1, ConcatProperties, Zenon
    <3> QED
        BY <1>2, <1>6, <3>2
  <2> QED
      BY <1>1, <2>4, <2>5, <2>6
<1>9. gathered' = gathered \o [n \in 1 .. k |-> G + n - 1]
    BY <1>2, <1>7
<1>10. /\ gathered' \in Seq(Nat) /\ Len(gathered') = G + k
       /\ \A n \in 1 .. Len(gathered') : gathered'[n] = n - 1
  <2> DEFINE out == [n \in 1 .. k |-> G + n - 1]
  <2>1. out \in Seq(Nat) /\ Len(out) = k /\ \A n \in 1 .. k : out[n] = G + n - 1
    <3>1. \A n \in 1 .. k : G + n - 1 \in Nat
        BY <1>1, <1>3
    <3>2. out \in [1 .. k -> Nat]
        BY <3>1
    <3>3. out \in Seq(Nat) /\ Len(out) = k
        BY <1>1, <3>2, FunctionIsSeq, Zenon
    <3> QED
        BY <3>3
  <2> HIDE DEF out
  <2>2. /\ gathered' \in Seq(Nat) /\ Len(gathered') = G + k
        /\ \A n \in 1 .. G + k : gathered'[n] = IF n <= G THEN gathered[n] ELSE out[n - G]
    <3>1. gathered' = gathered \o out
        BY <1>9 DEF out
    <3>2. /\ gathered \o out \in Seq(Nat)
          /\ Len(gathered \o out) = Len(gathered) + Len(out)
          /\ \A n \in 1 .. Len(gathered) + Len(out) :
                 (gathered \o out)[n] = IF n <= Len(gathered) THEN gathered[n]
                                        ELSE out[n - Len(gathered)]
        BY <1>3, <2>1, ConcatProperties, Zenon
    <3> QED
        BY <1>0, <2>1, <3>1, <3>2
  <2>3. ASSUME NEW n \in 1 .. G + k
        PROVE  gathered'[n] = n - 1
    <3>1. CASE n <= G
        BY <1>0, <1>1, <1>3, <2>2, <3>1 DEF Streams, GatherHolds
    <3>2. CASE n > G
      <4>1. n - G \in 1 .. k /\ G + (n - G) - 1 = n - 1
          BY <1>1, <1>3, <3>2
      <4> QED
          BY <1>3, <2>1, <2>2, <3>2, <4>1
    <3> QED
        BY <1>1, <1>3, <3>1, <3>2
  <2> QED
      BY <2>2, <2>3
<1>11. DOMAIN g_corres' = DOMAIN g_corres \ C
       /\ \A i \in DOMAIN g_corres' : g_corres'[i] = g_corres[i]
    BY <1>2 DEF Without
<1>12. /\ TableMatches(GatherSize, g_table', g_corres', g_empty_slot')
       /\ \A s \in 0 .. GatherSize - 1 : (\A n \in 1 .. k : s # from[n]) => g_table'[s] = g_table[s]
  <2>1. TableMatches(GatherSize, g_table, g_corres, g_empty_slot)
      BY DEF Streams, GatherHolds
  <2>2. /\ g_table' \in [0 .. GatherSize - 1 -> Stored \cup {NoObject}]
        /\ \A n \in 1 .. k : g_table'[from[n]] = NoObject
        /\ \A s \in 0 .. GatherSize - 1 : (\A n \in 1 .. k : s # from[n]) => g_table'[s] = g_table[s]
    <3>1. g_table \in [0 .. GatherSize - 1 -> Stored \cup {NoObject}]
        BY <2>1 DEF TableMatches
    <3>2. \A n \in 1 .. k : from[n] \in 0 .. GatherSize - 1
        BY <1>6, ElementOfSeq
    <3>3. {from[n] : n \in DOMAIN from} = {from[n] : n \in 1 .. k}
        BY <1>6
    <3> QED
        BY <1>2, <3>1, <3>2, <3>3
  <2>3. \A n \in 1 .. Len(from) : \E i \in C : from[n] = g_corres[i]
      BY <1>4, <1>6
  <2>4. GatherSize \in Nat
      BY Sizes
  <2>5. TableMatches(GatherSize, g_table', Without(g_corres, C), g_empty_slot \o from)
      BY <1>1, <1>3, <1>6, <2>1, <2>2, <2>3, <2>4, TableIsEmptied, ZenonT(30)
  <2> QED
      BY <1>2, <2>2, <2>5
<1>13. \A i \in DOMAIN g_corres' : Kept(i)' = Kept(i)
  <2> SUFFICES ASSUME NEW i \in DOMAIN g_corres'
               PROVE  g_table'[g_corres'[i]][2] = g_table[g_corres[i]][2]
      BY DEF Kept
  <2>1. g_corres[i] \in 0 .. GatherSize - 1 /\ g_corres'[i] = g_corres[i]
      BY <1>3, <1>11 DEF SlotsMatch
  <2>2. \A n \in 1 .. k : g_corres[i] # from[n]
      BY <1>3, <1>4, <1>6, <1>11 DEF SlotsMatch
  <2> QED
      BY <1>12, <2>1, <2>2
<1>14. /\ G + k <= Taken
       /\ \A a \in G .. Taken - 1 : a < G + k => \E n \in 1 .. k : a = G + n - 1
  <2>1. k \in 1 .. k /\ G + k - 1 \in G .. Taken - 1
      BY <1>1, <1>3, <1>4, SMTT(30)
  <2>2. \A a \in G .. Taken - 1 : a < G + k => a - G + 1 \in 1 .. k /\ a = G + (a - G + 1) - 1
      BY <1>1, <1>3
  <2> QED
      BY <1>1, <1>3, <2>1, <2>2
<1>15. \A i \in DOMAIN g_corres' : Kept(i) \in G + k .. Taken - 1
  <2> SUFFICES ASSUME NEW i \in DOMAIN g_corres', Kept(i) < G + k
               PROVE  FALSE
      BY <1>1, <1>3, <1>11
  <2>1. Kept(i) \in G .. Taken - 1 /\ Index(Kept(i)) = i
      BY <1>3, <1>11
  <2>2. PICK n \in 1 .. k : Kept(i) = G + n - 1
      BY <1>14, <2>1
  <2> QED
      BY <1>4, <1>11, <2>1, <2>2
<1>16. \A w \in Busy : Held(w) \in G + k .. Taken - 1
  <2> SUFFICES ASSUME NEW w \in Busy, Held(w) < G + k
               PROVE  FALSE
      BY <1>0, <1>1, <1>3 DEF Streams, HandsHold
  <2>1. Held(w) \in G .. Taken - 1 /\ \A i \in DOMAIN g_corres : Kept(i) # Held(w)
      BY <1>0 DEF Streams, HandsHold
  <2>2. PICK n \in 1 .. k : Held(w) = G + n - 1
      BY <1>14, <2>1
  <2> QED
      BY <1>4, <2>1, <2>2
<1>17. Taken' = Taken /\ Busy' = Busy /\ \A w : Held(w)' = Held(w)
    BY <1>2 DEF Taken, Busy, Held
<1>18. ScatterHolds'
    BY <1>2, <1>17 DEF Streams, ScatterHolds, Index
<1>19. GatherHolds'
  <2>1. g_next_index' = Index(G + k)
      BY <1>1, <1>2, <1>3, IndexOfSum
  <2>2. \A i \in DOMAIN g_corres' :
            Kept(i)' \in Len(gathered') .. Taken' - 1 /\ Index(Kept(i)') = i
      BY <1>3, <1>10, <1>11, <1>13, <1>15, <1>17
  <2> QED
      BY <1>8, <1>10, <1>12, <2>1, <2>2 DEF GatherHolds, Index
<1>20. HandsHold'
  <2>1. \A w \in Busy : /\ hand[w] = <<Index(Held(w)), Held(w)>>
                        /\ \A i \in DOMAIN g_corres : Kept(i) # Held(w)
                        /\ \A v \in Busy : Held(v) = Held(w) => v = w
      BY DEF Streams, HandsHold
  <2>2. \A w \in Busy' : /\ Held(w)' \in Len(gathered') .. Taken' - 1
                         /\ hand'[w] = <<Index(Held(w)'), Held(w)'>>
                         /\ \A i \in DOMAIN g_corres' : Kept(i)' # Held(w)'
                         /\ \A v \in Busy' : Held(v)' = Held(w)' => v = w
      BY <1>2, <1>10, <1>11, <1>13, <1>16, <1>17, <2>1
  <2> QED
      BY <1>2, <2>2 DEF Streams, HandsHold, Index
<1>21. Balance'
  <2>1. /\ Taken = G + Cardinality(Busy) + Cardinality(DOMAIN g_corres)
        /\ Cardinality(Busy) \in Nat /\ Cardinality(DOMAIN g_corres) \in Nat
      BY <1>0, Amounts DEF Streams, Balance
  <2>2. Taken = G + k + Cardinality(Busy) + (Cardinality(DOMAIN g_corres) - k)
      BY <1>1, <1>3, <2>1
  <2> QED
      BY <1>8, <1>10, <1>17, <2>2 DEF Balance
<1>22. Ready = {Kept(i) : i \in DOMAIN g_corres} /\ Ready' = {Kept(i)' : i \in DOMAIN g_corres'}
    BY DEF Ready, Kept
<1>23. G .. G + k - 1 \subseteq Ready
  <2>1. \A a \in G .. G + k - 1 : a - G + 1 \in 1 .. k /\ a = G + (a - G + 1) - 1
      BY <1>1, <1>3
  <2> QED
      BY <1>4, <1>22, <2>1
<1>24. Ready' = Ready \ (G .. G + k - 1)
  <2>1. \A i \in DOMAIN g_corres' : Kept(i) \notin G .. G + k - 1
      BY <1>1, <1>3, <1>15
  <2>2. \A i \in C : Kept(i) \in G .. G + k - 1
      BY <1>1, <1>3, <1>5, SMTT(30)
  <2>3. DOMAIN g_corres = DOMAIN g_corres' \cup C
      BY <1>1, <1>11
  <2> QED
      BY <1>13, <1>22, <2>1, <2>2, <2>3
<1>25. g_empty_slot' # <<>>
    BY <1>1, <1>8, EmptySeq
<1> QED
    BY <1>0, <1>1, <1>2, <1>9, <1>17, <1>18, <1>19, <1>20, <1>21, <1>23, <1>24, <1>25 DEF Streams

-----------------------------------------------------------------------------
(* The steps that move objects; every other step leaves them alone. *)
streamVars == <<s_next_index, lowest_index, s_table, s_corres, s_empty_slot,
                g_next_index, g_table, g_corres, g_empty_slot, hand, gathered, raised, sent>>

Puts == Scatter!scatter(Scattering, sent) /\ sent' = sent + 1 /\ UNCHANGED <<gatherSide, gathered>>
Takes(w) == Scatter!worker_get_one(w) /\ UNCHANGED <<gatherSide, gathered, sent>>
Gives(w) == Gather!worker_push_one(w) /\ UNCHANGED <<scatterSide, sent>>
ComesOut == Gather!gather(Gathering) /\ UNCHANGED <<scatterSide, sent>>

(* Every step moves objects in one of five ways, or moves none. *)
LEMMA StepIs ==
    ASSUME [Next]_vars
    PROVE  \/ Puts \/ ComesOut \/ Reset \/ UNCHANGED streamVars
           \/ \E w \in Workers : Takes(w) \/ Gives(w)
<1>1. CASE CallScatter \/ CallGather
    BY <1>1 DEF CallScatter, CallGather, Scatter!ScatterLock, Gather!GatherLock,
                Scatter!scatterVars, Gather!gatherVars, scatterSide, gatherSide, streamVars
<1>2. CASE InScatter
  <2>1. CASE Scatter!ScatterWait(Scattering) /\ UNCHANGED sent
      BY <1>2, <2>1 DEF InScatter, Scatter!ScatterWait, Scatter!WaitFor, Scatter!scatterVars,
                        gatherSide, streamVars
  <2>2. CASE Scatter!ScatterResume(Scattering, Scatter!CondFull, "scatter_wait", "scatter")
             /\ UNCHANGED sent
      BY <1>2, <2>2 DEF InScatter, Scatter!ScatterResume, Scatter!scatterVars,
                        gatherSide, streamVars
  <2> QED
      BY <1>2, <2>1, <2>2 DEF InScatter, Puts
<1>3. ASSUME NEW w \in Workers, WorkerSteps(w)
      PROVE  Takes(w) \/ Gives(w) \/ UNCHANGED streamVars
  <2>1. CASE CallGet(w) \/ CallPush(w)
      BY <2>1 DEF CallGet, CallPush, Scatter!ScatterLock, Gather!GatherLock,
                  Scatter!scatterVars, Gather!gatherVars, scatterSide, gatherSide, streamVars
  <2>2. CASE InGet(w)
    <3>1. CASE Scatter!GetWait(w)
        BY <2>2, <3>1 DEF InGet, Scatter!GetWait, Scatter!WaitFor, Scatter!scatterVars,
                          gatherSide, streamVars
    <3>2. CASE Scatter!ScatterResume(w, Scatter!CondEmpty, "get_wait", "get")
        BY <2>2, <3>2 DEF InGet, Scatter!ScatterResume, Scatter!scatterVars,
                          gatherSide, streamVars
    <3> QED
        BY <2>2, <3>1, <3>2 DEF InGet, Takes
  <2>3. CASE InPush(w)
    <3>1. CASE Gather!PushWait(w)
        BY <2>3, <3>1 DEF InPush, Gather!PushWait, Gather!WaitFor, Gather!gatherVars,
                          scatterSide, streamVars
    <3>2. CASE Gather!GatherResume(w, Gather!CondFull, "push_wait", "push")
        BY <2>3, <3>2 DEF InPush, Gather!GatherResume, Gather!gatherVars,
                          scatterSide, streamVars
    <3> QED
        BY <2>3, <3>1, <3>2 DEF InPush, Gives
  <2> QED
      BY <1>3, <2>1, <2>2, <2>3 DEF WorkerSteps
<1>4. CASE InGather
  <2>1. CASE Gather!GatherWait(Gathering)
      BY <1>4, <2>1 DEF InGather, Gather!GatherWait, Gather!WaitFor, Gather!gatherVars,
                        scatterSide, streamVars
  <2>2. CASE Gather!GatherResume(Gathering, Gather!CondPendingData, "gather_wait", "gather")
      BY <1>4, <2>2 DEF InGather, Gather!GatherResume, Gather!gatherVars,
                        scatterSide, streamVars
  <2> QED
      BY <1>4, <2>1, <2>2 DEF InGather, ComesOut
<1>5. CASE WakeUnasked
    BY <1>5 DEF WakeUnasked, scatterSide, gatherSide, streamVars
<1>6. CASE UNCHANGED vars
    BY <1>6 DEF vars, scatterSide, gatherSide, streamVars
<1> QED
    BY <1>1, <1>2, <1>3, <1>4, <1>5, <1>6 DEF Next

(* A step that moves none keeps the invariant. *)
LEMMA StreamsKept ==
    ASSUME Streams, UNCHANGED streamVars
    PROVE  Streams' /\ UNCHANGED <<Taken, Waiting, Ready>>
<1>1. UNCHANGED <<Taken, Waiting, Ready, Busy>>
      /\ (\A w : Held(w)' = Held(w)) /\ (\A i : Kept(i)' = Kept(i))
    BY DEF streamVars, Taken, Waiting, Ready, Busy, Held, Kept
<1>2. ScatterHolds' /\ GatherHolds'
    BY <1>1 DEF Streams, streamVars, ScatterHolds, GatherHolds, Index
<1>3. HandsHold' /\ Balance' /\ raised' = FALSE
    BY <1>1 DEF Streams, streamVars, HandsHold, Balance, Index
<1> QED
    BY <1>1, <1>2, <1>3 DEF Streams

(* The two classes after their constructors or reset() *)
Restarted ==
    /\ s_next_index = 0 /\ lowest_index = 0 /\ s_corres = <<>>
    /\ s_table = [s \in 0 .. ScatterSize - 1 |-> NoObject]
    /\ s_empty_slot = [n \in 1 .. ScatterSize |-> n - 1]
    /\ g_next_index = 0 /\ g_corres = <<>>
    /\ g_table = [s \in 0 .. GatherSize - 1 |-> NoObject]
    /\ g_empty_slot = [n \in 1 .. GatherSize |-> n - 1]
    /\ hand = [w \in Workers |-> <<>>] /\ gathered = <<>> /\ raised = FALSE /\ sent = 0

(* Nothing is on its way then. *)
LEMMA EmptyStreams == Restarted => Streams
<1> SUFFICES ASSUME Restarted PROVE Streams
    OBVIOUS
<1> USE DEF Restarted
<1>1. DOMAIN s_corres = {} /\ DOMAIN g_corres = {} /\ Busy = {}
    BY DEF Busy
<1>2. Cardinality({}) = 0
    BY FS_EmptySet
<1>3. Taken = 0 /\ Index(0) = 0 /\ Len(gathered) = 0
    BY <1>1, <1>2, Sizes DEF Taken, Index
<1>4. ScatterHolds
  <2>1. SlotsMatch(ScatterSize, s_corres, s_empty_slot)
        /\ TableMatches(ScatterSize, s_table, s_corres, s_empty_slot)
      BY AllSlotsEmpty, EmptyTable, Sizes
  <2> QED
      BY <1>1, <1>3, <2>1, Sizes DEF ScatterHolds
<1>5. GatherHolds
  <2>1. SlotsMatch(GatherSize, g_corres, g_empty_slot)
        /\ TableMatches(GatherSize, g_table, g_corres, g_empty_slot)
      BY AllSlotsEmpty, EmptyTable, Sizes
  <2> QED
      BY <1>1, <1>3, <2>1, Sizes DEF GatherHolds
<1>6. HandsHold /\ Balance
    BY <1>1, <1>2, <1>3 DEF HandsHold, Balance
<1> QED
    BY <1>4, <1>5, <1>6 DEF Streams

(* The invariant holds at the start. *)
LEMMA InitStreams == Init => Streams /\ PcMatches
<1> SUFFICES ASSUME Init PROVE Streams /\ PcMatches
    OBVIOUS
<1>1. Streams
    BY EmptyStreams DEF Restarted, Init, Scatter!ScatterInit, Gather!GatherInit,
                        Scatter!Pristine, Gather!Pristine, Scatter!Slots, Gather!Slots
<1>2. PcMatches
    BY DEF Init, PcMatches, Labels, EmptyHanded, Threads
<1> QED
    BY <1>1, <1>2

(* reset() of both is as good as new objects: no worker has one in hand. *)
LEMMA ResetStep ==
    ASSUME Streams, PcMatches, Reset
    PROVE  Streams' /\ (\A w \in Workers : hand[w] = <<>>) /\ UNCHANGED hand
           /\ gathered' = <<>> /\ sent' = 0 /\ s_corres' = <<>> /\ g_corres' = <<>>
           /\ g_empty_slot' = [n \in 1 .. GatherSize |-> n - 1]
<1>1. \A w \in Workers : hand[w] = <<>>
    BY DEF Reset, PcMatches, EmptyHanded, Threads
<1>2. hand' = [w \in Workers |-> <<>>] /\ UNCHANGED hand
    BY <1>1 DEF Reset, Streams, HandsHold
<1>3. /\ s_next_index' = 0 /\ lowest_index' = 0 /\ s_corres' = <<>>
      /\ s_table' = [s \in 0 .. ScatterSize - 1 |-> NoObject]
      /\ s_empty_slot' = [n \in 1 .. ScatterSize |-> n - 1]
      /\ g_next_index' = 0 /\ g_corres' = <<>>
      /\ g_table' = [s \in 0 .. GatherSize - 1 |-> NoObject]
      /\ g_empty_slot' = [n \in 1 .. GatherSize |-> n - 1]
      /\ gathered' = <<>> /\ raised' = FALSE /\ sent' = 0
    BY DEF Reset, Streams, Scatter!ScatterReset, Gather!GatherReset, Scatter!Pristine,
           Gather!Pristine, Scatter!Slots, Gather!Slots
<1>4. Restarted'
    BY <1>2, <1>3 DEF Restarted
<1>5. Streams'
    BY <1>4, EmptyStreams, PTL
<1> QED
    BY <1>1, <1>2, <1>3, <1>5

-----------------------------------------------------------------------------
(* What a thread has in hand tells where it may be. *)
LEMMA OneThreadMoves ==
    ASSUME PcMatches, NEW t \in Threads, NEW label \in Labels,
           pc' = [pc EXCEPT ![t] = label],
           \A w \in Workers : w # t => hand'[w] = hand[w],
           t \in Workers => (hand'[t] = <<>> <=> label \in EmptyHanded),
           t = Scattering => (label \in {"scatter", "scatter_wait"} => sent' < Total),
           t # Scattering => UNCHANGED sent
    PROVE  PcMatches'
<1>1. pc' \in [Threads -> Labels] /\ pc'[t] = label
      /\ \A u \in Threads : u # t => pc'[u] = pc[u]
    BY DEF PcMatches
<1>2. ASSUME NEW w \in Workers
      PROVE  hand'[w] = <<>> <=> pc'[w] \in EmptyHanded
  <2>1. w \in Threads
      BY DEF Threads
  <2> QED
      BY <1>1, <2>1 DEF PcMatches
<1>3. pc'[Scattering] \in {"scatter", "scatter_wait"} => sent' < Total
  <2>1. Scattering \in Threads
      BY DEF Threads
  <2> QED
      BY <1>1, <2>1 DEF PcMatches
<1> QED
    BY <1>1, <1>2, <1>3 DEF PcMatches

(* The threads and the places in the code, as SMT needs them. *)
LEMMA LabelsAre ==
    /\ \A w \in Workers : w \in Threads /\ w # Scattering /\ w # Gathering
    /\ Scattering \in Threads /\ Gathering \in Threads /\ Scattering # Gathering
    /\ {"out", "scatter", "scatter_wait", "get", "get_wait", "got",
        "push", "push_wait", "gather", "gather_wait"} \subseteq Labels
BY RatelierAssumption DEF Threads, Labels

(* Each step of the callers keeps what is known of their places. *)
LEMMA PcKept ==
    ASSUME Streams, PcMatches, [Next]_vars
    PROVE  PcMatches'
<1> USE LabelsAre DEF EmptyHanded
<1>1. CASE CallScatter
    BY <1>1, OneThreadMoves DEF CallScatter, Scatter!ScatterLock, Scatter!Goto
<1>2. CASE InScatter
  <2>1. pc[Scattering] \in {"scatter", "scatter_wait"} /\ sent < Total /\ UNCHANGED hand
        /\ \E label \in Labels : pc' = [pc EXCEPT ![Scattering] = label]
              /\ (label \in {"scatter", "scatter_wait"} => sent' < Total)
      BY <1>2 DEF InScatter, PcMatches, Scatter!ScatterWait, Scatter!WaitFor, Scatter!Goto,
                  Scatter!ScatterResume, Scatter!scatter
  <2> QED
      BY <2>1, OneThreadMoves
<1>3. ASSUME NEW w \in Workers, WorkerSteps(w)
      PROVE  PcMatches'
  <2>1. CASE CallGet(w)
      BY <2>1, OneThreadMoves DEF CallGet, Scatter!ScatterLock, Scatter!Goto, PcMatches
  <2>2. CASE CallPush(w)
      BY <2>2, OneThreadMoves DEF CallPush, Gather!GatherLock, Gather!Goto, PcMatches
  <2>3. CASE InGet(w)
    <3>1. CASE Scatter!GetWait(w)
        BY <2>3, <3>1, OneThreadMoves
           DEF InGet, Scatter!GetWait, Scatter!WaitFor, Scatter!Goto, PcMatches
    <3>2. CASE Scatter!ScatterResume(w, Scatter!CondEmpty, "get_wait", "get")
        BY <2>3, <3>2, OneThreadMoves DEF InGet, Scatter!ScatterResume, Scatter!Goto, PcMatches
    <3>3. CASE Scatter!worker_get_one(w)
      <4>1. hand[w] = <<>> /\ pc' = [pc EXCEPT ![w] = "got"] /\ UNCHANGED sent
          BY <2>3, <3>3 DEF InGet, Scatter!worker_get_one, Scatter!Goto, PcMatches
      <4>2. hand' = [hand EXCEPT ![w] = <<Index(Taken), Taken>>]
          BY <2>3, <3>3, <4>1, TakeStep DEF InGet
      <4>3. hand \in [Workers -> {<<>>} \cup (0 .. IndexSize - 1) \X Objects]
          BY DEF Streams, HandsHold
      <4>4. \A v \in Workers : v # w => hand'[v] = hand[v]
          BY <4>2, <4>3
      <4>5. hand'[w] = <<Index(Taken), Taken>>
          BY <4>2, <4>3
      <4>6. hand'[w] # <<>>
          BY <4>5
      <4> QED
          BY <4>1, <4>4, <4>6, OneThreadMoves
    <3> QED
        BY <2>3, <3>1, <3>2, <3>3 DEF InGet
  <2>4. CASE InPush(w)
    <3>1. CASE Gather!PushWait(w)
        BY <2>4, <3>1, OneThreadMoves
           DEF InPush, Gather!PushWait, Gather!WaitFor, Gather!Goto, PcMatches
    <3>2. CASE Gather!GatherResume(w, Gather!CondFull, "push_wait", "push")
        BY <2>4, <3>2, OneThreadMoves DEF InPush, Gather!GatherResume, Gather!Goto, PcMatches
    <3>3. CASE Gather!worker_push_one(w)
      <4>1. hand' = [hand EXCEPT ![w] = <<>>] /\ pc' = [pc EXCEPT ![w] = "out"] /\ UNCHANGED sent
          BY <2>4, <3>3 DEF InPush, Gather!worker_push_one, Gather!Goto
      <4>2. hand \in [Workers -> {<<>>} \cup (0 .. IndexSize - 1) \X Objects]
          BY DEF Streams, HandsHold
      <4>3. hand'[w] = <<>> /\ \A v \in Workers : v # w => hand'[v] = hand[v]
          BY <4>1, <4>2
      <4> QED
          BY <4>1, <4>3, OneThreadMoves
    <3> QED
        BY <2>4, <3>1, <3>2, <3>3 DEF InPush
  <2> QED
      BY <1>3, <2>1, <2>2, <2>3, <2>4 DEF WorkerSteps
<1>4. CASE CallGather
    BY <1>4, OneThreadMoves DEF CallGather, Gather!GatherLock, Gather!Goto
<1>5. CASE InGather
  <2>1. UNCHANGED <<hand, sent>> /\ \E label \in Labels : pc' = [pc EXCEPT ![Gathering] = label]
      BY <1>5 DEF InGather, Gather!GatherWait, Gather!WaitFor, Gather!Goto,
                  Gather!GatherResume, Gather!gather
  <2> QED
      BY <2>1, OneThreadMoves
<1>6. CASE WakeUnasked \/ UNCHANGED vars
    BY <1>6 DEF WakeUnasked, vars, PcMatches
<1>7. CASE Reset
  <2>1. UNCHANGED <<pc, hand>> /\ pc'[Scattering] = "out"
      BY <1>7, ResetStep DEF Reset
  <2> QED
      BY <2>1 DEF PcMatches
<1> QED
    BY <1>1, <1>2, <1>3, <1>4, <1>5, <1>6, <1>7 DEF Next

(* What each step does to the objects *)
LEMMA StreamsStep ==
    ASSUME Streams, PcMatches, [Next]_vars
    PROVE  Streams'
<1>1. CASE Puts
  <2>1. sent < Total
      BY <1>1 DEF Puts, Scatter!scatter, PcMatches
  <2> QED
      BY <1>1, <2>1, PutStep DEF Puts
<1>2. ASSUME NEW w \in Workers, Takes(w)
      PROVE  Streams'
  <2>1. hand[w] = <<>>
      BY <1>2 DEF Takes, Scatter!worker_get_one, PcMatches, EmptyHanded
  <2> QED
      BY <1>2, <2>1, TakeStep DEF Takes
<1>3. ASSUME NEW w \in Workers, Gives(w)
      PROVE  Streams'
  <2>1. hand[w] # <<>>
      BY <1>3 DEF Gives, Gather!worker_push_one, PcMatches, EmptyHanded
  <2> QED
      BY <1>3, <2>1, GiveStep DEF Gives
<1>4. CASE ComesOut
    BY <1>4, GatherStep DEF ComesOut
<1>5. CASE Reset
    BY <1>5, ResetStep
<1>6. CASE UNCHANGED streamVars
    BY <1>6, StreamsKept
<1> QED
    BY <1>1, <1>2, <1>3, <1>4, <1>5, <1>6, StepIs

(* The invariant: each object is in one place, under its own index, in its *)
(* turn, whatever the workers do in between.                               *)
THEOREM StreamsInvariant == Spec => [](Streams /\ PcMatches)
<1>1. Streams /\ PcMatches /\ [Next]_vars => (Streams /\ PcMatches)'
    BY StreamsStep, PcKept
<1> QED
    BY <1>1, InitStreams, PTL DEF Spec

(* No index is pushed while it is in use, a slot to fill is empty and one  *)
(* to read holds the object looked for: no THREADAR_BUG, no throw          *)
(* (ratelier_scatter.hpp:150-153, 201-215, ratelier_gather.hpp:180-190,    *)
(* 241-248).                                                               *)
THEOREM NothingRaisedHolds == Spec => []NothingRaised
<1>1. Streams => NothingRaised
    BY DEF Streams, NothingRaised
<1> QED
    BY <1>1, StreamsInvariant, PTL

-----------------------------------------------------------------------------
(* The refinement of the ordered pipe, step by step. *)
Working == [w \in Workers |-> IF hand[w] = <<>> THEN {} ELSE {Held(w)}]

(* The lowest number of an interval. *)
LEMMA LowestOf ==
    ASSUME NEW a \in Int, NEW b \in Int, a < b
    PROVE  Ordered!Min(a .. b - 1) = a
<1>1. a \in a .. b - 1 /\ \A n \in a .. b - 1 : n \in Int /\ a <= n
    OBVIOUS
<1>2. \A n \in a .. b - 1 : (\A m \in a .. b - 1 : n <= m) => n = a
    BY <1>1
<1> QED
    BY <1>1, <1>2 DEF Ordered!Min

(* As many objects wait as there are slots in use. *)
LEMMA WaitingCount ==
    ASSUME Streams
    PROVE  Cardinality(Waiting) = Cardinality(DOMAIN s_corres)
<1>1. Taken \in Int /\ sent - 1 \in Int /\ Taken <= sent
      /\ sent - 1 - Taken + 1 = Cardinality(DOMAIN s_corres)
    BY Amounts
<1>2. Cardinality(Taken .. sent - 1) = IF Taken > sent - 1 THEN 0 ELSE sent - 1 - Taken + 1
    BY <1>1, FS_Interval
<1> QED
    BY <1>1, <1>2, WaitingIs, Amounts

(* No more objects are ready than there are slots in use. *)
LEMMA ReadyCount ==
    ASSUME Streams
    PROVE  Cardinality(Ready) \in Nat /\ Cardinality(Ready) <= Cardinality(DOMAIN g_corres)
<1> DEFINE f == [i \in DOMAIN g_corres |-> Kept(i)]
<1>1. IsFiniteSet(DOMAIN g_corres)
    BY DEF Streams, GatherHolds, SlotsMatch
<1>2. f \in Surjection(DOMAIN g_corres, Ready)
    BY DEF Surjection, Ready, Kept
<1> QED
    BY <1>1, <1>2, FS_Surjection, FS_CardinalityType

(* scatter() is Put: its slot is one of ScatterRoom. *)
LEMMA PutRefines ==
    ASSUME Streams, PcMatches, Puts
    PROVE  Ordered!Put
<1>1. /\ Streams' /\ Cardinality(DOMAIN s_corres) < ScatterSize
      /\ Taken' = Taken /\ UNCHANGED hand
  <2>1. sent < Total
      BY DEF Puts, Scatter!scatter, PcMatches
  <2> QED
      BY <2>1, PutStep DEF Puts
<1>2. sent' = sent + 1 /\ UNCHANGED <<gathered, g_table, g_corres>>
    BY DEF Puts, gatherSide
<1>3. Ordered!Cardinality(Waiting) < ScatterSize
    BY <1>1, WaitingCount, SameCardinality
<1>4. Waiting' = Waiting \cup {sent}
  <2>1. (Waiting = Taken .. sent - 1)'
      BY <1>1, WaitingIs, PTL
  <2> QED
      BY <1>1, <1>2, <2>1, WaitingIs, Amounts
<1>5. UNCHANGED <<Working, Ready>>
    BY <1>1, <1>2 DEF Working, Held, Ready
<1> QED
    BY <1>2, <1>3, <1>4, <1>5, Zenon DEF Ordered!Put, Waiting, Working, Ready, Held

(* worker_get_one() is Take: it takes the lowest number. *)
LEMMA TakeRefines ==
    ASSUME Streams, PcMatches, NEW w \in Workers, Takes(w)
    PROVE  Ordered!Take(w)
<1>1. hand[w] = <<>>
    BY DEF Takes, Scatter!worker_get_one, PcMatches, EmptyHanded
<1>2. /\ Streams' /\ hand' = [hand EXCEPT ![w] = <<Index(Taken), Taken>>]
      /\ Taken < sent /\ Taken' = Taken + 1
    BY <1>1, TakeStep DEF Takes
<1>3. UNCHANGED <<sent, gathered, g_table, g_corres>>
    BY DEF Takes, gatherSide
<1>4. Waiting = Taken .. sent - 1 /\ Taken \in Waiting /\ Ordered!Min(Waiting) = Taken
    BY <1>2, WaitingIs, LowestOf, Amounts
<1>5. Waiting' = Waiting \ {Taken}
  <2>1. (Waiting = Taken .. sent - 1)'
      BY <1>2, WaitingIs, PTL
  <2> QED
      BY <1>2, <1>3, <1>4, <2>1, Amounts
<1>6. Working[w] = {} /\ Working' = [Working EXCEPT ![w] = {Taken}]
  <2>1. hand \in [Workers -> {<<>>} \cup (0 .. IndexSize - 1) \X Objects]
      BY DEF Streams, HandsHold
  <2>2. PICK i, one : i = Index(Taken) /\ one = Taken
      OBVIOUS
  <2>3. hand'[w] = <<i, one>> /\ \A v \in Workers : v # w => hand'[v] = hand[v]
      BY <1>2, <2>1, <2>2
  <2>4. hand'[w] # <<>> /\ hand'[w][2] = one
      BY <2>3
  <2> QED
      BY <1>1, <2>2, <2>3, <2>4 DEF Working, Held
<1>7. /\ Waiting # {}
      /\ Working' = [Working EXCEPT ![w] = {Ordered!Min(Waiting)}]
      /\ Waiting' = Waiting \ {Ordered!Min(Waiting)}
    BY <1>4, <1>5, <1>6
<1>8. UNCHANGED <<sent, Ready, gathered>>
    BY <1>3 DEF Ready
<1> QED
    BY <1>6, <1>7, <1>8, Zenon DEF Ordered!Take, Waiting, Working, Ready, Held

(* worker_push_one() is GiveBack: its slot is one of GatherRoom. *)
LEMMA GiveRefines ==
    ASSUME Streams, PcMatches, NEW w \in Workers, Gives(w)
    PROVE  Ordered!GiveBack(w)
<1>1. hand[w] # <<>>
    BY DEF Gives, Gather!worker_push_one, PcMatches, EmptyHanded
<1>2. /\ hand' = [hand EXCEPT ![w] = <<>>]
      /\ Len(g_empty_slot) \in Nat \ {0}
      /\ Ready' = Ready \cup {Held(w)}
      /\ UNCHANGED gathered
    BY <1>1, GiveStep DEF Gives
<1>3. UNCHANGED <<sent, s_table, s_corres>>
    BY DEF Gives, scatterSide
<1>4. Ordered!Cardinality(Ready) < GatherSize
  <2>1. Cardinality(DOMAIN g_corres) + Len(g_empty_slot) = GatherSize
        /\ Cardinality(DOMAIN g_corres) \in Nat
      BY SlotsMatchType, Sizes DEF Streams, GatherHolds, SlotsMatch
  <2>2. Cardinality(DOMAIN g_corres) < GatherSize /\ GatherSize \in Nat
      BY <1>2, <2>1, Sizes
  <2> QED
      BY <2>1, <2>2, ReadyCount, SameCardinality
<1>5. Working[w] = {Held(w)} /\ Working' = [Working EXCEPT ![w] = {}]
  <2>1. hand \in [Workers -> {<<>>} \cup (0 .. IndexSize - 1) \X Objects]
      BY DEF Streams, HandsHold
  <2>2. hand'[w] = <<>> /\ \A v \in Workers : v # w => hand'[v] = hand[v]
      BY <1>2, <2>1
  <2> QED
      BY <1>1, <2>2 DEF Working, Held
<1>6. /\ Working[w] # {} /\ Ready' = Ready \cup Working[w]
      /\ UNCHANGED <<sent, Waiting, gathered>>
    BY <1>2, <1>3, <1>5 DEF Waiting
<1> QED
    BY <1>4, <1>5, <1>6, Zenon DEF Ordered!GiveBack, Waiting, Working, Ready, Held

(* gather() is ComeOut: what it returns has no hole before it. *)
LEMMA ComeOutRefines ==
    ASSUME Streams, ComesOut
    PROVE  Ordered!ComeOut
<1>0. PICK k : k = Cardinality(Gather!Continuous)
    OBVIOUS
<1>1. /\ k \in Nat \ {0}
      /\ Len(gathered) .. Len(gathered) + k - 1 \subseteq Ready
      /\ gathered' = gathered \o [n \in 1 .. k |-> Len(gathered) + n - 1]
      /\ Ready' = Ready \ (Len(gathered) .. Len(gathered) + k - 1)
      /\ UNCHANGED hand
    BY <1>0, GatherStep DEF ComesOut
<1>2. UNCHANGED <<sent, s_table, s_corres>>
    BY DEF ComesOut, scatterSide
<1>3. PICK next : next = Len(gathered) + k - 1
    OBVIOUS
<1>4. /\ Len(gathered) <= next /\ next \in Len(gathered) .. next
      /\ next - Len(gathered) + 1 = k
    BY <1>1, <1>3, Amounts
<1>5. /\ next \in Ready /\ Len(gathered) .. next \subseteq Ready
      /\ Ready' = Ready \ (Len(gathered) .. next)
    BY <1>1, <1>3, <1>4
<1>6. gathered' = gathered \o [n \in 1 .. next - Len(gathered) + 1 |-> Len(gathered) + n - 1]
    BY <1>1, <1>4
<1>7. UNCHANGED <<sent, Waiting, Working>>
    BY <1>1, <1>2 DEF Waiting, Working, Held
<1> QED
    BY <1>4, <1>5, <1>6, <1>7, Zenon DEF Ordered!ComeOut, Waiting, Working, Ready, Held

(* reset() of both is Empty. *)
LEMMA ResetRefines ==
    ASSUME Streams, PcMatches, Reset
    PROVE  Ordered!Empty
BY ResetStep DEF Ordered!Empty

(* The two classes, whose tables are read through their maps, implement    *)
(* the ordered pipe: objects come out in the order of scatter(), each      *)
(* once, however many workers overtake each other and wherever the index   *)
(* wraps (ratelier_gather.hpp:50-55).                                      *)
THEOREM RateliersImplementOrderedPipe == Spec => PipeSpec
<1>1. Init => Ordered!Init
  <2> SUFFICES ASSUME Init PROVE Ordered!Init
      OBVIOUS
  <2>1. s_corres = <<>> /\ g_corres = <<>>
      BY DEF Init, Scatter!ScatterInit, Gather!GatherInit, Scatter!Pristine, Gather!Pristine
  <2>2. DOMAIN s_corres = {} /\ DOMAIN g_corres = {}
      BY <2>1
  <2> QED
      BY <2>2 DEF Init, Ordered!Init
<1>2. Streams /\ PcMatches /\ [Next]_vars => [Ordered!Next]_Ordered!pipeVars
  <2> SUFFICES ASSUME Streams, PcMatches, [Next]_vars
               PROVE  [Ordered!Next]_Ordered!pipeVars
      OBVIOUS
  <2>1. CASE Puts \/ ComesOut \/ Reset \/ \E w \in Workers : Takes(w) \/ Gives(w)
      BY <2>1, PutRefines, TakeRefines, GiveRefines, ComeOutRefines, ResetRefines
         DEF Ordered!Next
  <2>2. CASE UNCHANGED streamVars
      BY <2>2 DEF streamVars, Ordered!pipeVars
  <2> QED
      BY <2>1, <2>2, StepIs
<1> QED
    BY <1>1, <1>2, StreamsInvariant, PTL DEF Spec, PipeSpec, Ordered!Spec

-----------------------------------------------------------------------------
(* The last free slot is kept for the object that gather() needs, or that  *)
(* object is there already: a full table, which at least two objects fill, *)
(* can be emptied (ratelier_gather.hpp:172-175).  A table of one slot is   *)
(* taken by any object, as the run RatelierOne shows.                      *)
LEMMA RoomKept ==
    ASSUME GatherSize >= 2, Streams, PcMatches, RoomCanBeMade, [Next]_vars
    PROVE  RoomCanBeMade'
<1>1. CASE Puts \/ \E w \in Workers : Takes(w)
    BY <1>1 DEF Puts, Takes, gatherSide, RoomCanBeMade
<1>2. ASSUME NEW w \in Workers, Gives(w), g_empty_slot' = <<>>
      PROVE  g_next_index' \in DOMAIN g_corres'
  <2>0. PICK i : i = Index(Held(w))
      OBVIOUS
  <2>1. hand[w] # <<>>
      BY <1>2 DEF Gives, Gather!worker_push_one, PcMatches, EmptyHanded
  <2>2. /\ Len(g_empty_slot) \in Nat /\ Len(g_empty_slot') = Len(g_empty_slot) - 1
        /\ ~Gather!MustWait(i) /\ DOMAIN g_corres' = DOMAIN g_corres \cup {i}
        /\ UNCHANGED g_next_index
    <3>1. /\ Len(g_empty_slot) \in Nat \ {0} /\ Len(g_empty_slot') = Len(g_empty_slot) - 1
          /\ ~Gather!MustWait(Index(Held(w)))
          /\ DOMAIN g_corres' = DOMAIN g_corres \cup {Index(Held(w))}
          /\ UNCHANGED g_next_index
        BY <1>2, <2>1, GiveStep DEF Gives
    <3> QED
        BY <2>0, <3>1
  <2>3. Len(g_empty_slot) = 1
      BY <1>2, <2>2
  <2>4. DOMAIN g_corres # {}
    <3>1. Cardinality(DOMAIN g_corres) + Len(g_empty_slot) = GatherSize
        BY DEF Streams, GatherHolds, SlotsMatch
    <3>2. Cardinality(DOMAIN g_corres) # 0
        BY <2>3, <3>1, Amounts, Sizes
    <3> QED
        BY <3>2, FS_EmptySet
  <2>5. i = g_next_index \/ Gather!Min(DOMAIN g_corres) = g_next_index
      BY <2>2, <2>3, <2>4 DEF Gather!MustWait
  <2>6. DOMAIN g_corres \subseteq Nat
    <3>1. \A j \in DOMAIN g_corres : Kept(j) \in Nat /\ Index(Kept(j)) = j
        BY Amounts DEF Streams, GatherHolds
    <3> QED
        BY <3>1, IndexType
  <2>7. Gather!Min(DOMAIN g_corres) \in DOMAIN g_corres
      BY <2>4, <2>6, MinIsMember
  <2> QED
      BY <2>2, <2>5, <2>7
<1>3. CASE ComesOut
  <2>1. g_empty_slot' # <<>>
      BY <1>3, GatherStep DEF ComesOut
  <2> QED
      BY <2>1 DEF RoomCanBeMade
<1>4. CASE Reset
  <2>1. g_empty_slot' = [n \in 1 .. GatherSize |-> n - 1]
      BY <1>4, ResetStep
  <2>2. 1 \in DOMAIN g_empty_slot'
      BY <2>1, Sizes
  <2> QED
      BY <2>2 DEF RoomCanBeMade
<1>5. CASE UNCHANGED streamVars
    BY <1>5 DEF streamVars, RoomCanBeMade
<1> QED
    BY <1>1, <1>2, <1>3, <1>4, <1>5, StepIs DEF RoomCanBeMade

(* A full ratelier_gather of two slots or more holds the object that       *)
(* gather() needs to make some room (ratelier_gather.hpp:172-175).         *)
THEOREM RoomCanBeMadeHolds ==
    ASSUME GatherSize >= 2
    PROVE  Spec => []RoomCanBeMade
<1>1. Init => RoomCanBeMade
  <2> SUFFICES ASSUME Init PROVE RoomCanBeMade
      OBVIOUS
  <2>1. g_empty_slot = [n \in 1 .. GatherSize |-> n - 1]
      BY DEF Init, Gather!GatherInit, Gather!Pristine
  <2>2. 1 \in DOMAIN g_empty_slot
      BY <2>1, Sizes
  <2> QED
      BY <2>2 DEF RoomCanBeMade
<1>2. Streams /\ PcMatches /\ RoomCanBeMade /\ [Next]_vars => RoomCanBeMade'
    BY RoomKept
<1> QED
    BY <1>1, <1>2, StreamsInvariant, PTL DEF Spec

-----------------------------------------------------------------------------
(* The two conditions keep their types. *)
LEMMA ScatterConditionStep ==
    ASSUME Scatter!ConditionTypeOK, NEW t \in Threads, NEW i \in Instances,
           \/ Scatter!Lock(t) /\ UNCHANGED Scatter!waitVars
           \/ Scatter!Wait(t, i) \/ Scatter!Resume(t, i) \/ Scatter!SpuriousWakeup(t, i)
           \/ Scatter!Unlock /\ (Scatter!Signal(i) \/ Scatter!Broadcast(i)
                              \/ UNCHANGED Scatter!waitVars)
    PROVE  Scatter!ConditionTypeOK'
<1> USE DEF Scatter!ConditionTypeOK, Scatter!MutexTypeOK
<1>1. CASE Scatter!Lock(t) /\ UNCHANGED Scatter!waitVars
    BY <1>1 DEF Scatter!Lock, Scatter!waitVars
<1>2. CASE Scatter!Wait(t, i)
    BY <1>2 DEF Scatter!Wait
<1>3. CASE Scatter!Resume(t, i)
    BY <1>3 DEF Scatter!Resume, Scatter!Lock
<1>4. CASE Scatter!SpuriousWakeup(t, i)
    BY <1>4 DEF Scatter!SpuriousWakeup, Scatter!Wake
<1>5. CASE Scatter!Unlock /\ UNCHANGED Scatter!waitVars
    BY <1>5 DEF Scatter!Unlock, Scatter!waitVars
<1>6. CASE Scatter!Unlock /\ Scatter!Broadcast(i)
    BY <1>6 DEF Scatter!Unlock, Scatter!Broadcast, Scatter!Wake
<1>7. CASE Scatter!Unlock /\ Scatter!Signal(i)
  <2>1. CASE UNCHANGED Scatter!waitVars
      BY <1>7, <2>1 DEF Scatter!Unlock, Scatter!waitVars
  <2>2. ASSUME NEW w \in s_blocked[i], Scatter!Wake(i, {w}), UNCHANGED s_spurious
        PROVE  Scatter!ConditionTypeOK'
      BY <1>7, <2>2 DEF Scatter!Unlock, Scatter!Wake
  <2> QED
      BY <1>7, <2>1, <2>2 DEF Scatter!Signal
<1> QED
    BY <1>1, <1>2, <1>3, <1>4, <1>5, <1>6, <1>7

(* The same for the condition of the ratelier_gather. *)
LEMMA GatherConditionStep ==
    ASSUME Gather!ConditionTypeOK, NEW t \in Threads, NEW i \in Instances,
           \/ Gather!Lock(t) /\ UNCHANGED Gather!waitVars
           \/ Gather!Wait(t, i) \/ Gather!Resume(t, i) \/ Gather!SpuriousWakeup(t, i)
           \/ Gather!Unlock /\ (Gather!Signal(i) \/ Gather!Broadcast(i)
                              \/ UNCHANGED Gather!waitVars)
    PROVE  Gather!ConditionTypeOK'
<1> USE DEF Gather!ConditionTypeOK, Gather!MutexTypeOK
<1>1. CASE Gather!Lock(t) /\ UNCHANGED Gather!waitVars
    BY <1>1 DEF Gather!Lock, Gather!waitVars
<1>2. CASE Gather!Wait(t, i)
    BY <1>2 DEF Gather!Wait
<1>3. CASE Gather!Resume(t, i)
    BY <1>3 DEF Gather!Resume, Gather!Lock
<1>4. CASE Gather!SpuriousWakeup(t, i)
    BY <1>4 DEF Gather!SpuriousWakeup, Gather!Wake
<1>5. CASE Gather!Unlock /\ UNCHANGED Gather!waitVars
    BY <1>5 DEF Gather!Unlock, Gather!waitVars
<1>6. CASE Gather!Unlock /\ Gather!Broadcast(i)
    BY <1>6 DEF Gather!Unlock, Gather!Broadcast, Gather!Wake
<1>7. CASE Gather!Unlock /\ Gather!Signal(i)
  <2>1. CASE UNCHANGED Gather!waitVars
      BY <1>7, <2>1 DEF Gather!Unlock, Gather!waitVars
  <2>2. ASSUME NEW w \in g_blocked[i], Gather!Wake(i, {w}), UNCHANGED g_spurious
        PROVE  Gather!ConditionTypeOK'
      BY <1>7, <2>2 DEF Gather!Unlock, Gather!Wake
  <2> QED
      BY <1>7, <2>1, <2>2 DEF Gather!Signal
<1> QED
    BY <1>1, <1>2, <1>3, <1>4, <1>5, <1>6, <1>7

(* Every step uses the two conditions in these ways only. *)
LEMMA ConditionsKept ==
    ASSUME Streams, PcMatches, Scatter!ConditionTypeOK, Gather!ConditionTypeOK, [Next]_vars
    PROVE  Scatter!ConditionTypeOK' /\ Gather!ConditionTypeOK'
<1> USE LabelsAre
<1>1. 0 \in Instances /\ 1 \in Instances
    BY DEF Instances
<1>2. ASSUME UNCHANGED <<s_holder, s_blocked, s_woken, s_counter, s_spurious>>
      PROVE  Scatter!ConditionTypeOK'
    BY <1>2 DEF Scatter!ConditionTypeOK, Scatter!MutexTypeOK
<1>3. ASSUME UNCHANGED <<g_holder, g_blocked, g_woken, g_counter, g_spurious>>
      PROVE  Gather!ConditionTypeOK'
    BY <1>3 DEF Gather!ConditionTypeOK, Gather!MutexTypeOK
<1>4. raised' = FALSE
    BY StreamsStep DEF Streams
<1>5. CASE CallScatter \/ \E w \in Workers : CallGet(w)
    BY <1>1, <1>3, <1>5, ScatterConditionStep
       DEF CallScatter, CallGet, Scatter!ScatterLock, gatherSide
<1>6. CASE InScatter
    BY <1>1, <1>3, <1>4, <1>6, ScatterConditionStep
       DEF InScatter, Scatter!Throw, gatherSide, Scatter!ScatterWait, Scatter!WaitFor, Scatter!ScatterResume,
           Scatter!scatter, Scatter!SignalWaiting, Scatter!CondFull, Scatter!CondEmpty
<1>7. ASSUME NEW w \in Workers, InGet(w)
      PROVE  Scatter!ConditionTypeOK' /\ Gather!ConditionTypeOK'
    BY <1>1, <1>3, <1>4, <1>7, ScatterConditionStep
       DEF InGet, Scatter!Throw, gatherSide, Scatter!GetWait, Scatter!WaitFor, Scatter!ScatterResume,
           Scatter!worker_get_one, Scatter!SignalWaiting, Scatter!CondFull, Scatter!CondEmpty
<1>8. CASE CallGather \/ \E w \in Workers : CallPush(w)
    BY <1>1, <1>2, <1>8, GatherConditionStep
       DEF CallGather, CallPush, Gather!GatherLock, scatterSide
<1>9. CASE InGather
    BY <1>1, <1>2, <1>4, <1>9, GatherConditionStep
       DEF InGather, Gather!Throw, scatterSide, Gather!GatherWait, Gather!WaitFor, Gather!GatherResume,
           Gather!gather, Gather!WakeWorkers, Gather!CondFull, Gather!CondPendingData
<1>10. ASSUME NEW w \in Workers, InPush(w)
      PROVE  Scatter!ConditionTypeOK' /\ Gather!ConditionTypeOK'
    BY <1>1, <1>2, <1>4, <1>10, GatherConditionStep
       DEF InPush, Gather!Throw, scatterSide, Gather!PushWait, Gather!WaitFor, Gather!GatherResume,
           Gather!worker_push_one, Gather!CondFull, Gather!CondPendingData
<1>11. CASE WakeUnasked
    BY <1>2, <1>3, <1>11, ScatterConditionStep, GatherConditionStep
       DEF WakeUnasked, scatterSide, gatherSide
<1>12. CASE Reset \/ UNCHANGED vars
    BY <1>2, <1>3, <1>12 DEF Reset, vars, scatterSide, gatherSide
<1> QED
    BY <1>5, <1>6, <1>7, <1>8, <1>9, <1>10, <1>11, <1>12 DEF Next, WorkerSteps

-----------------------------------------------------------------------------
(* The workers asleep over an empty ratelier_scatter, those that come for  *)
(* an object, and the count that scatter() looks at before it signals.     *)
Sleepers == {w \in Workers : pc[w] = "get_wait"}
Comers == {w \in Workers : pc[w] = "get"}

Asleep ==
    /\ s_blocked[0] \cup s_woken[0] = Sleepers
    /\ s_blocked[0] \cap s_woken[0] = {}
    /\ s_counter[0] = Cardinality(Sleepers)

FallsAsleep(w) == Scatter!GetWait(w)
ComesBack(w) == Scatter!ScatterResume(w, Scatter!CondEmpty, "get_wait", "get")
WakesUnasked(t) == Scatter!SpuriousWakeup(t, 0) /\ UNCHANGED <<s_corres, pc>>
NobodySleepsOrWakes ==
    /\ s_blocked'[0] = s_blocked[0] /\ s_woken'[0] = s_woken[0] /\ s_counter'[0] = s_counter[0]
    /\ UNCHANGED <<s_corres, Sleepers>>
    /\ Comers \subseteq Comers'

(* Every step wakes or suspends workers in one of six ways, or leaves      *)
(* those who sleep alone.                                                  *)
LEMMA SleepStepIs ==
    ASSUME PcMatches, Scatter!ConditionTypeOK, [Next]_vars
    PROVE  \/ NobodySleepsOrWakes \/ Puts \/ Reset
           \/ \E w \in Workers : Takes(w) \/ FallsAsleep(w) \/ ComesBack(w)
           \/ \E t \in Threads : WakesUnasked(t)
<1> USE LabelsAre DEF NobodySleepsOrWakes, Sleepers, Comers
<1>0. pc \in [Threads -> Labels]
    BY DEF PcMatches
<1>1. s_blocked \in [{0, 1} -> SUBSET Threads] /\ s_woken \in [{0, 1} -> SUBSET Threads]
      /\ s_counter \in [{0, 1} -> Int]
    BY DEF Scatter!ConditionTypeOK, Instances
<1>2. CASE CallScatter
    BY <1>0, <1>2 DEF CallScatter, Scatter!ScatterLock, Scatter!Goto, Scatter!waitVars,
                      Scatter!scatterVars
<1>3. CASE InScatter
  <2>1. CASE Scatter!ScatterWait(Scattering) /\ UNCHANGED sent
      BY <1>0, <1>1, <2>1 DEF Scatter!ScatterWait, Scatter!WaitFor, Scatter!Wait, Scatter!Goto,
                              Scatter!CondFull, Scatter!scatterVars
  <2>2. CASE Scatter!ScatterResume(Scattering, Scatter!CondFull, "scatter_wait", "scatter")
      BY <1>0, <1>1, <2>2 DEF Scatter!ScatterResume, Scatter!Resume, Scatter!Goto,
                              Scatter!CondFull, Scatter!scatterVars
  <2> QED
      BY <1>3, <2>1, <2>2 DEF InScatter, Puts
<1>4. ASSUME NEW w \in Workers, WorkerSteps(w)
      PROVE  NobodySleepsOrWakes \/ Takes(w) \/ FallsAsleep(w) \/ ComesBack(w)
  <2>1. CASE CallGet(w)
      BY <1>0, <2>1 DEF CallGet, Scatter!ScatterLock, Scatter!Goto, Scatter!waitVars,
                        Scatter!scatterVars
  <2>2. CASE InGet(w)
      BY <2>2 DEF InGet, Takes, FallsAsleep, ComesBack
  <2>3. CASE CallPush(w)
      BY <1>0, <2>3 DEF CallPush, Gather!GatherLock, Gather!Goto, scatterSide
  <2>4. CASE InPush(w)
    <3>1. UNCHANGED <<s_blocked, s_woken, s_counter, s_corres>>
        BY <2>4 DEF InPush, scatterSide
    <3>2. pc[w] \in {"push", "push_wait"} /\ \E label \in {"push", "push_wait", "out"} :
              pc' = [pc EXCEPT ![w] = label]
        BY <2>4 DEF InPush, Gather!PushWait, Gather!WaitFor, Gather!GatherResume,
                    Gather!worker_push_one, Gather!Goto
    <3> QED
        BY <1>0, <3>1, <3>2
  <2> QED
      BY <1>4, <2>1, <2>2, <2>3, <2>4 DEF WorkerSteps
<1>5. CASE CallGather \/ InGather
  <2>1. UNCHANGED <<s_blocked, s_woken, s_counter, s_corres>>
        /\ \E label \in Labels : pc' = [pc EXCEPT ![Gathering] = label]
      BY <1>5 DEF CallGather, InGather, scatterSide, Gather!GatherLock, Gather!GatherWait,
                  Gather!WaitFor, Gather!GatherResume, Gather!gather, Gather!Goto
  <2> QED
      BY <1>0, <2>1
<1>6. CASE WakeUnasked
  <2>1. CASE UNCHANGED scatterSide
      BY <1>6, <2>1 DEF WakeUnasked, scatterSide
  <2>2. ASSUME NEW t \in Threads, NEW i \in Instances, Scatter!SpuriousWakeup(t, i),
               UNCHANGED <<s_corres, pc>>
        PROVE  NobodySleepsOrWakes \/ WakesUnasked(t)
      BY <1>1, <2>2 DEF Scatter!SpuriousWakeup, Scatter!Wake, WakesUnasked, Instances
  <2> QED
      BY <1>6, <2>1, <2>2 DEF WakeUnasked
<1>7. CASE UNCHANGED vars
    BY <1>7 DEF vars, scatterSide
<1> QED
    BY <1>2, <1>3, <1>4, <1>5, <1>6, <1>7 DEF Next

(* One of those asleep, if there is one, is woken. *)
LEMMA OneIsWoken ==
    ASSUME Scatter!ConditionTypeOK, Asleep, Scatter!SignalWaiting(0)
    PROVE  /\ s_counter' = s_counter
           /\ \/ s_blocked[0] = {} /\ UNCHANGED <<s_blocked, s_woken>>
              \/ \E w \in s_blocked[0] :
                     /\ s_blocked'[0] = s_blocked[0] \ {w}
                     /\ s_woken'[0] = s_woken[0] \cup {w}
<1>1. s_blocked \in [{0, 1} -> SUBSET Threads] /\ s_woken \in [{0, 1} -> SUBSET Threads]
    BY DEF Scatter!ConditionTypeOK, Instances
<1>2. IsFiniteSet(Sleepers) /\ Cardinality(Sleepers) \in Nat
    BY FS_Subset, FS_CardinalityType, Sizes DEF Sleepers
<1>3. CASE s_counter[0] > 0
    BY <1>1, <1>3 DEF Scatter!SignalWaiting, Scatter!Signal, Scatter!Wake, Scatter!waitVars
<1>4. CASE ~(s_counter[0] > 0)
  <2>1. Cardinality(Sleepers) = 0
      BY <1>2, <1>4 DEF Asleep
  <2>2. Sleepers = {}
      BY <1>2, <2>1, FS_EmptySet
  <2> QED
      BY <1>4, <2>2 DEF Asleep, Scatter!SignalWaiting, Scatter!waitVars
<1> QED
    BY <1>3, <1>4

(* The other signal leaves the workers asleep alone. *)
LEMMA OtherIsWoken ==
    ASSUME Scatter!ConditionTypeOK, Scatter!SignalWaiting(1)
    PROVE  /\ s_counter' = s_counter
           /\ s_blocked'[0] = s_blocked[0] /\ s_woken'[0] = s_woken[0]
<1>1. s_blocked \in [{0, 1} -> SUBSET Threads] /\ s_woken \in [{0, 1} -> SUBSET Threads]
    BY DEF Scatter!ConditionTypeOK, Instances
<1> QED
    BY <1>1 DEF Scatter!SignalWaiting, Scatter!Signal, Scatter!Wake, Scatter!waitVars

(* The count is exact, whoever sleeps is in get_wait: the invariant of     *)
(* condition, for the threads that are workers.                            *)
LEMMA AsleepKept ==
    ASSUME Streams, PcMatches, Scatter!ConditionTypeOK, Asleep, [Next]_vars
    PROVE  Asleep'
<1> USE LabelsAre DEF Sleepers
<1>0. pc \in [Threads -> Labels]
    BY DEF PcMatches
<1>1. s_blocked \in [{0, 1} -> SUBSET Threads] /\ s_woken \in [{0, 1} -> SUBSET Threads]
      /\ s_counter \in [{0, 1} -> Int]
    BY DEF Scatter!ConditionTypeOK, Instances
<1>2. IsFiniteSet(Sleepers)
    BY FS_Subset, Sizes
<1>3. CASE NobodySleepsOrWakes
    BY <1>3 DEF NobodySleepsOrWakes, Asleep
<1>4. CASE Puts
  <2>1. sent < Total /\ UNCHANGED Sleepers
      BY <1>0, <1>4 DEF Puts, Scatter!scatter, Scatter!Goto, PcMatches
  <2>2. Scatter!SignalWaiting(0)
      BY <1>4, <2>1, PutStep DEF Puts, Scatter!CondEmpty
  <2> QED
      BY <2>1, <2>2, OneIsWoken, ZenonT(30) DEF Asleep
<1>5. ASSUME NEW w \in Workers, Takes(w)
      PROVE  Asleep'
  <2>1. UNCHANGED Sleepers
      BY <1>0, <1>5 DEF Takes, Scatter!worker_get_one, Scatter!Goto
  <2>2. hand[w] = <<>>
      BY <1>5 DEF Takes, Scatter!worker_get_one, PcMatches, EmptyHanded
  <2>3. Scatter!SignalWaiting(1)
      BY <1>5, <2>2, TakeStep DEF Takes, Scatter!CondFull
  <2> QED
      BY <2>1, <2>3, OtherIsWoken DEF Asleep
<1>6. ASSUME NEW w \in Workers, FallsAsleep(w)
      PROVE  Asleep'
  <2>1. /\ s_blocked'[0] = s_blocked[0] \cup {w} /\ s_woken'[0] = s_woken[0]
        /\ s_counter'[0] = s_counter[0] + 1
        /\ w \notin Sleepers
      BY <1>1, <1>6 DEF FallsAsleep, Scatter!GetWait, Scatter!WaitFor, Scatter!Wait,
                        Scatter!CondEmpty
  <2>2. Sleepers' = Sleepers \cup {w}
      BY <1>0, <1>6 DEF FallsAsleep, Scatter!GetWait, Scatter!WaitFor, Scatter!Goto
  <2>3. Cardinality(Sleepers \cup {w}) = Cardinality(Sleepers) + 1
      BY <1>2, <2>1, FS_AddElement
  <2> QED
      BY <2>1, <2>2, <2>3 DEF Asleep
<1>7. ASSUME NEW w \in Workers, ComesBack(w)
      PROVE  Asleep'
  <2>1. /\ s_woken'[0] = s_woken[0] \ {w} /\ s_blocked'[0] = s_blocked[0]
        /\ s_counter'[0] = s_counter[0] - 1
        /\ w \in s_woken[0]
      BY <1>1, <1>7 DEF ComesBack, Scatter!ScatterResume, Scatter!Resume, Scatter!CondEmpty
  <2>2. Sleepers' = Sleepers \ {w} /\ w \in Sleepers
      BY <1>0, <1>7 DEF ComesBack, Scatter!ScatterResume, Scatter!Goto
  <2>3. Cardinality(Sleepers \ {w}) = Cardinality(Sleepers) - 1
      BY <1>2, <2>2, FS_RemoveElement
  <2> QED
      BY <2>1, <2>2, <2>3 DEF Asleep
<1>8. ASSUME NEW t \in Threads, WakesUnasked(t)
      PROVE  Asleep'
  <2>1. /\ t \in s_blocked[0] /\ s_blocked'[0] = s_blocked[0] \ {t}
        /\ s_woken'[0] = s_woken[0] \cup {t}
        /\ UNCHANGED <<s_counter, Sleepers>>
      BY <1>1, <1>8 DEF WakesUnasked, Scatter!SpuriousWakeup, Scatter!Wake
  <2> QED
      BY <2>1, SMTT(30) DEF Asleep
<1>9. CASE Reset
    BY <1>9 DEF Reset, Asleep
<1> QED
    BY <1>3, <1>4, <1>5, <1>6, <1>7, <1>8, <1>9, SleepStepIs

-----------------------------------------------------------------------------
(* Workers that are awake and those that come are different ones. *)
LEMMA AwakeIsFinite ==
    ASSUME Asleep
    PROVE  /\ IsFiniteSet(s_woken[0] \cup Comers)
           /\ Cardinality(s_woken[0] \cup Comers) \in Nat
           /\ s_woken[0] \cap Comers = {}
<1>1. s_woken[0] \cup Comers \in SUBSET Workers
    BY DEF Asleep, Sleepers, Comers
<1>2. s_woken[0] \cap Comers = {}
    BY DEF Asleep, Sleepers, Comers
<1> QED
    BY <1>1, <1>2, Sizes, FS_Subset, FS_CardinalityType

(* scatter() adds an object and wakes a worker; a worker that takes an     *)
(* object stops coming; one falls asleep only when no object waits.        *)
LEMMA NoIdleWorkerKept ==
    ASSUME Streams, PcMatches, Scatter!ConditionTypeOK, Asleep, NoIdleWorker, [Next]_vars
    PROVE  NoIdleWorker'
<1> USE LabelsAre DEF Comers
<1> DEFINE Awake == s_woken[0] \cup Comers
           load == Cardinality(DOMAIN s_corres)
<1>0. pc \in [Threads -> Labels] /\ pc' \in [Threads -> Labels]
    BY PcKept DEF PcMatches
<1>1. s_blocked \in [{0, 1} -> SUBSET Threads] /\ s_woken \in [{0, 1} -> SUBSET Threads]
      /\ s_counter \in [{0, 1} -> Int]
    BY DEF Scatter!ConditionTypeOK, Instances
<1>2. Streams' /\ Asleep'
    BY StreamsStep, AsleepKept
<1>3. load \in Nat /\ IsFiniteSet(Awake) /\ Cardinality(Awake) \in Nat
    BY Amounts, AwakeIsFinite
<1>4. IsFiniteSet(Awake') /\ Cardinality(Awake') \in Nat
  <2>1. Awake' \in SUBSET Workers
      BY <1>2 DEF Asleep, Sleepers
  <2> HIDE DEF Awake
  <2> QED
      BY <2>1, Sizes, FS_Subset, FS_CardinalityType
<1>5. s_blocked[0] # {} => load <= Cardinality(Awake)
    BY DEF NoIdleWorker
<1>6. ASSUME s_blocked'[0] # {} => Cardinality(DOMAIN s_corres') <= Cardinality(Awake')
      PROVE  NoIdleWorker'
    BY <1>6 DEF NoIdleWorker
<1>7. CASE NobodySleepsOrWakes
  <2>1. Awake \in SUBSET Awake' /\ s_blocked'[0] = s_blocked[0] /\ UNCHANGED s_corres
      BY <1>7 DEF NobodySleepsOrWakes
  <2> HIDE DEF Awake
  <2>2. Cardinality(Awake) <= Cardinality(Awake')
      BY <1>4, <2>1, FS_Subset
  <2> QED
      BY <1>3, <1>4, <1>5, <1>6, <2>1, <2>2
<1>8. CASE Puts
  <2>1. Scatter!SignalWaiting(0) /\ UNCHANGED Comers
    <3>1. sent < Total /\ UNCHANGED Comers
        BY <1>0, <1>8 DEF Puts, Scatter!scatter, Scatter!Goto, PcMatches
    <3> QED
        BY <1>8, <3>1, PutStep DEF Puts, Scatter!CondEmpty
  <2>2. CASE s_blocked'[0] = {}
      BY <1>6, <2>2
  <2>3. ASSUME NEW w \in s_blocked[0], s_blocked'[0] = s_blocked[0] \ {w},
               s_woken'[0] = s_woken[0] \cup {w}
        PROVE  NoIdleWorker'
    <3>1. Awake' = Awake \cup {w} /\ w \notin Awake
        BY <2>1, <2>3 DEF Asleep, Sleepers
    <3> HIDE DEF Awake
    <3>2. Cardinality(Awake') = Cardinality(Awake) + 1
        BY <1>3, <3>1, FS_AddElement
    <3>3. Cardinality(DOMAIN s_corres') = load + 1
      <4>1. sent < Total
          BY <1>8 DEF Puts, Scatter!scatter, PcMatches
      <4>2. Taken' = Taken /\ sent' = sent + 1
          BY <1>8, <4>1, PutStep DEF Puts
      <4>3. Cardinality(DOMAIN s_corres') \in Nat /\ sent' = Taken' + Cardinality(DOMAIN s_corres')
        <5>1. IsFiniteSet(DOMAIN s_corres') /\ sent' \in 0 .. Total
            BY <1>2 DEF Streams, ScatterHolds, SlotsMatch
        <5>2. Cardinality(DOMAIN s_corres') \in Nat
            BY <5>1, FS_CardinalityType
        <5> QED
            BY <5>1, <5>2, Sizes DEF Taken
      <4> QED
          BY <4>2, <4>3, Amounts
    <3> QED
        BY <1>3, <1>5, <1>6, <3>2, <3>3
  <2> QED
      BY <2>1, <2>2, <2>3, OneIsWoken
<1>9. ASSUME NEW w \in Workers, Takes(w)
      PROVE  NoIdleWorker'
  <2>1. hand[w] = <<>> /\ pc[w] = "get" /\ pc' = [pc EXCEPT ![w] = "got"]
      BY <1>9 DEF Takes, Scatter!worker_get_one, Scatter!Goto, PcMatches, EmptyHanded
  <2>2. /\ Scatter!SignalWaiting(1)
        /\ Cardinality(DOMAIN s_corres)' = load - 1
      BY <1>9, <2>1, TakeStep DEF Takes, Scatter!CondFull
  <2>3. s_blocked'[0] = s_blocked[0] /\ s_woken'[0] = s_woken[0]
      BY <2>2, OtherIsWoken
  <2>4. Awake' = Awake \ {w} /\ w \in Awake
    <3>1. w \notin s_woken[0]
        BY <2>1 DEF Asleep, Sleepers
    <3> QED
        BY <1>0, <2>1, <2>3, <3>1
  <2> HIDE DEF Awake
  <2>5. Cardinality(Awake') = Cardinality(Awake) - 1
      BY <1>3, <2>4, FS_RemoveElement
  <2> QED
      BY <1>3, <1>5, <1>6, <2>2, <2>3, <2>5
<1>10. ASSUME NEW w \in Workers, FallsAsleep(w)
       PROVE  NoIdleWorker'
  <2>1. Scatter!Visible = {} /\ UNCHANGED s_corres
      BY <1>10 DEF FallsAsleep, Scatter!GetWait, Scatter!WaitFor, Scatter!scatterVars
  <2>2. DOMAIN s_corres = {}
    <3>1. CASE Taken < sent
      <4>1. Taken \in Taken .. sent - 1
          BY <3>1, Amounts
      <4>2. lowest_index \in DOMAIN s_corres /\ lowest_index = Index(Taken)
          BY <4>1 DEF Streams, ScatterHolds
      <4>3. lowest_index \in Nat
          BY <4>2, IndexType, Amounts
      <4> QED
          BY <2>1, <4>2, <4>3 DEF Scatter!Visible
    <3>2. CASE ~(Taken < sent)
      <4>1. Taken .. sent - 1 = {}
          BY <3>2, Amounts
      <4> QED
          BY <4>1 DEF Streams, ScatterHolds
    <3> QED
        BY <3>1, <3>2
  <2>3. Cardinality(DOMAIN s_corres') = 0
      BY <2>1, <2>2, FS_EmptySet
  <2> QED
      BY <1>4, <1>6, <2>3
<1>11. ASSUME NEW w \in Workers, ComesBack(w)
       PROVE  NoIdleWorker'
  <2>1. /\ s_woken'[0] = s_woken[0] \ {w} /\ s_blocked'[0] = s_blocked[0]
        /\ w \in s_woken[0] /\ UNCHANGED s_corres
        /\ pc' = [pc EXCEPT ![w] = "get"]
      BY <1>1, <1>11 DEF ComesBack, Scatter!ScatterResume, Scatter!Resume, Scatter!CondEmpty,
                         Scatter!Goto, Scatter!scatterVars
  <2>2. Awake' = Awake
      BY <1>0, <2>1
  <2> HIDE DEF Awake
  <2> QED
      BY <1>5, <1>6, <2>1, <2>2
<1>12. ASSUME NEW t \in Threads, WakesUnasked(t)
       PROVE  NoIdleWorker'
  <2>1. /\ t \in s_blocked[0] /\ s_woken'[0] = s_woken[0] \cup {t}
        /\ UNCHANGED <<s_corres, pc>>
      BY <1>1, <1>12 DEF WakesUnasked, Scatter!SpuriousWakeup, Scatter!Wake
  <2>2. Awake \in SUBSET Awake'
      BY <2>1
  <2> HIDE DEF Awake
  <2>3. Cardinality(Awake) <= Cardinality(Awake')
      BY <1>4, <2>2, FS_Subset
  <2> QED
      BY <1>3, <1>4, <1>5, <1>6, <2>1, <2>3
<1>13. CASE Reset
  <2>1. s_corres' = <<>>
      BY <1>13, ResetStep
  <2>2. Cardinality(DOMAIN s_corres') = 0
      BY <2>1, FS_EmptySet
  <2> QED
      BY <1>4, <1>6, <2>2
<1> QED
    BY <1>7, <1>8, <1>9, <1>10, <1>11, <1>12, <1>13, SleepStepIs

SleepInv == Scatter!ConditionTypeOK /\ Gather!ConditionTypeOK /\ Asleep /\ NoIdleWorker

(* All that is about sleeping, together. *)
LEMMA SleepInvariant == Spec => []SleepInv
<1>1. Init => SleepInv
  <2> SUFFICES ASSUME Init PROVE SleepInv
      OBVIOUS
  <2>1. Scatter!ConditionTypeOK /\ Gather!ConditionTypeOK
    <3>1. Scatter!ConditionInit /\ Gather!ConditionInit
        BY DEF Init, Scatter!ScatterInit, Gather!GatherInit
    <3>2. Scatter!ConditionTypeOK
      <4>1. s_blocked = [i \in Instances |-> {}] /\ s_woken = [i \in Instances |-> {}]
          BY <3>1 DEF Scatter!ConditionInit
      <4>2. s_counter = [i \in Instances |-> 0]
          BY <3>1 DEF Scatter!ConditionInit
      <4>3. s_blocked \in [Instances -> SUBSET Threads] /\ s_woken \in [Instances -> SUBSET Threads]
          BY <4>1
      <4>4. s_counter \in [Instances -> Int]
          BY <4>2
      <4>5. s_holder = NoThread /\ s_spurious \in BOOLEAN
          BY <3>1 DEF Scatter!ConditionInit, Scatter!MutexInit
      <4> QED
          BY <4>3, <4>4, <4>5 DEF Scatter!ConditionTypeOK, Scatter!MutexTypeOK
    <3>3. Gather!ConditionTypeOK
      <4>1. g_blocked = [i \in Instances |-> {}] /\ g_woken = [i \in Instances |-> {}]
          BY <3>1 DEF Gather!ConditionInit
      <4>2. g_counter = [i \in Instances |-> 0]
          BY <3>1 DEF Gather!ConditionInit
      <4>3. g_blocked \in [Instances -> SUBSET Threads] /\ g_woken \in [Instances -> SUBSET Threads]
          BY <4>1
      <4>4. g_counter \in [Instances -> Int]
          BY <4>2
      <4>5. g_holder = NoThread /\ g_spurious \in BOOLEAN
          BY <3>1 DEF Gather!ConditionInit, Gather!MutexInit
      <4> QED
          BY <4>3, <4>4, <4>5 DEF Gather!ConditionTypeOK, Gather!MutexTypeOK
    <3> QED
        BY <3>2, <3>3
  <2>2. s_blocked[0] = {} /\ s_woken[0] = {} /\ s_counter[0] = 0
      BY DEF Init, Scatter!ScatterInit, Scatter!ConditionInit, Instances
  <2>3. Sleepers = {}
      BY LabelsAre DEF Init, Sleepers
  <2> QED
      BY <2>1, <2>2, <2>3, FS_EmptySet DEF SleepInv, Asleep, NoIdleWorker
<1>2. Streams /\ PcMatches /\ SleepInv /\ [Next]_vars => SleepInv'
    BY ConditionsKept, AsleepKept, NoIdleWorkerKept DEF SleepInv
<1> QED
    BY <1>1, <1>2, StreamsInvariant, PTL DEF Spec

(* Workers do not sleep over objects that nobody else comes for, although  *)
(* scatter() signals once per object, to one of them                       *)
(* (ratelier_scatter.hpp:166-167).                                         *)
THEOREM NoIdleWorkerHolds == Spec => []NoIdleWorker
<1>1. SleepInv => NoIdleWorker
    BY DEF SleepInv
<1> QED
    BY <1>1, SleepInvariant, PTL

(* The types of both classes, and the sharing of their slots between the   *)
(* list of the empty ones and the map of the indexes                       *)
(* (ratelier_scatter.hpp:117-121, ratelier_gather.hpp:149-152).            *)
THEOREM RatelierTypeCorrect == Spec => []TypeOK
<1>1. Streams /\ PcMatches /\ SleepInv => TypeOK
  <2> SUFFICES ASSUME Streams, PcMatches, SleepInv PROVE TypeOK
      OBVIOUS
  <2>1. \A n \in Nat : Index(n) \in 0 .. IndexSize - 1
      BY IndexType
  <2>2. Scatter!ScatterTypeOK
    <3>1. s_next_index \in 0 .. IndexSize - 1 /\ lowest_index \in 0 .. IndexSize - 1
        BY <2>1, Amounts DEF Streams, ScatterHolds
    <3>2. /\ SlotsMatch(ScatterSize, s_corres, s_empty_slot)
          /\ TableMatches(ScatterSize, s_table, s_corres, s_empty_slot)
          /\ ScatterSize \in Nat
        BY Sizes DEF Streams, ScatterHolds
    <3>3. Scatter!Cardinality(DOMAIN s_corres) = Cardinality(DOMAIN s_corres)
        BY SameCardinality
    <3> QED
        BY <3>1, <3>2, <3>3, TableIsRight
           DEF SleepInv, Scatter!ScatterTypeOK, Scatter!Indexes, Scatter!Slots
  <2>3. Gather!GatherTypeOK
    <3>1. g_next_index \in 0 .. IndexSize - 1
        BY <2>1, Amounts DEF Streams, GatherHolds
    <3>2. /\ SlotsMatch(GatherSize, g_corres, g_empty_slot)
          /\ TableMatches(GatherSize, g_table, g_corres, g_empty_slot)
          /\ GatherSize \in Nat
        BY Sizes DEF Streams, GatherHolds
    <3>3. Gather!Cardinality(DOMAIN g_corres) = Cardinality(DOMAIN g_corres)
        BY SameCardinality
    <3> QED
        BY <3>1, <3>2, <3>3, TableIsRight
           DEF SleepInv, Gather!GatherTypeOK, Gather!Indexes, Gather!Slots
  <2>4. Len(gathered) <= Total /\ sent \in 0 .. Total
    <3>1. sent \in 0 .. Total
        BY DEF Streams, ScatterHolds
    <3>2. Len(gathered) \in Nat /\ Taken \in Nat /\ Cardinality(DOMAIN s_corres) \in Nat
          /\ Len(gathered) <= Taken /\ sent = Taken + Cardinality(DOMAIN s_corres)
        BY Amounts
    <3> QED
        BY <3>1, <3>2, Sizes
  <2>5. \A w \in Workers : hand[w] \in {<<>>} \cup (0 .. IndexSize - 1) \X Objects
      BY DEF Streams, HandsHold
  <2>6. raised \in BOOLEAN /\ pc \in [Threads -> Labels]
      BY DEF Streams, PcMatches
  <2> QED
      BY <2>2, <2>3, <2>4, <2>5, <2>6 DEF TypeOK
<1> QED
    BY <1>1, StreamsInvariant, SleepInvariant, PTL

=============================================================================
