------------------------ MODULE TableStorage_proofs ------------------------
(***************************************************************************)
(* Proofs about the slots of the hash part, for any hash function, any     *)
(* number of keys and any size of the first block: the block stays at most *)
(* half full, every key in it is found by probing, and the lookup the      *)
(* compiler emits reads what the general one reads.  From these, for the   *)
(* loop that walks both parts (PairsLoop): no key is visited twice and     *)
(* none that stays is missed; and that all of it is the table with an      *)
(* array part and a hash part of HybridTable.                              *)
(***************************************************************************)
EXTENDS PairsLoop, FiniteSetTheorems, SequenceTheorems, WellFoundedInduction, TLAPS

\* The words that keys are stored as.
StoredKeys == Numbers \cup {Normalised(key) : key \in RawNames}

\* A block is a record of a count and of slots, whatever their values.
IsBlock(b) ==
  /\ b = [used |-> b.used, slots |-> b.slots]
  /\ Size(b) \in Nat /\ Size(b) >= 2
  /\ b.slots = [i \in 1..Size(b) |-> [key |-> b.slots[i].key, value |-> b.slots[i].value]]
  /\ \A i \in 1..Size(b) : b.slots[i].key \in StoredKeys \cup {NoKey}

Used(b) == {i \in 1..Size(b) : b.slots[i].key # NoKey}

\* The d-th probe for key is the first that stops.
FirstStop(b, key, d) == Stops(b, key, d) /\ \A e \in 0..(d - 1) : ~Stops(b, key, e)

\* The key of slot i is found there.
Chained(b, i) ==
  \E d \in 0..(Size(b) - 1) :
    Probe(b, b.slots[i].key, d) = i /\ FirstStop(b, b.slots[i].key, d)

\* The count of the slots is right, and every key is reached.
Sound(b) ==
  /\ IsBlock(b)
  /\ b.used = Cardinality(Used(b))
  /\ \A i \in Used(b) : Chained(b, i)

HalfUsed(b) == 2 * b.used <= Size(b)

\* The keys of the slots that hold a value.
Busy(b) == {b.slots[i].key : i \in {j \in 1..Size(b) : b.slots[j].value # Nil}}

\* The hash part of a table, if it has one.
GoodBlock(b) == b # NoBlock => Sound(b) /\ HalfUsed(b)

\* A table of four header words with such a hash part.
IsTable(t) ==
  /\ t = [capacity |-> t.capacity, length |-> t.length, array |-> t.array, block |-> t.block]
  /\ t.length \in Nat
  /\ GoodBlock(t.block)

\* What every step keeps.
BlockInv == length \in Nat /\ GoodBlock(block)

-----------------------------------------------------------------------------
(***************************************************************************)
(* Numbers, sequences and keys.                                            *)
(***************************************************************************)
\* A set of numbers has a least one.
LEMMA Least ==
  ASSUME NEW T \in SUBSET Nat, T # {}
  PROVE  \E x \in T : \A y \in T : x <= y
<1>1. PICK x \in T : \A y \in T : ~(<<y, x>> \in OpToRel(<, Nat))
  BY WFMin, NatLessThanWellFounded, Zenon
<1>2. \A y \in T : ~(y < x)
  BY <1>1 DEF OpToRel
<1>3. \A y \in T : y \in Nat
  OBVIOUS
<1>4. \A y \in T : x <= y
  BY <1>2, <1>3
<1> QED
  BY <1>4

\* The length of a sequence given by its elements.
LEMMA LenIs ==
  ASSUME NEW n \in Nat, NEW f, f = [i \in 1..n |-> f[i]]
  PROVE  Len(f) = n
<1> DEFINE S == {f[i] : i \in 1..n}
<1>1. f \in [1..n -> S]
  OBVIOUS
<1>2. f \in Seq(S)
  BY <1>1, SeqDef
<1>3. DOMAIN f = 1..Len(f) /\ Len(f) \in Nat /\ DOMAIN f = 1..n
  BY <1>1, <1>2, LenProperties
<1> QED
  BY <1>3

\* Division with a remainder.
LEMMA Divides ==
  ASSUME NEW a \in Nat, NEW m \in Nat \ {0}
  PROVE  a % m \in 0..(m - 1) /\ a \div m \in Nat /\ a = m * (a \div m) + (a % m)
  OBVIOUS

\* A remainder is what is left over a multiple.
LEMMA RemainderIs ==
  ASSUME NEW m \in Nat \ {0}, NEW q \in Int, NEW r \in 0..(m - 1)
  PROVE  (m * q + r) % m = r
  OBVIOUS

\* From anywhere, m steps visit every remainder.
LEMMA RemaindersCovered ==
  ASSUME NEW a \in Nat, NEW m \in Nat \ {0}, NEW r \in 0..(m - 1)
  PROVE  \E d \in 0..(m - 1) : (a + d) % m = r
<1> DEFINE q == a \div m
           s == a % m
<1>1. s \in 0..(m - 1) /\ q \in Nat /\ a = m * q + s
  BY Divides
<1> HIDE DEF q, s
<1>2. CASE s <= r
  <2>1. r - s \in 0..(m - 1) /\ a + (r - s) = m * q + r
    BY <1>1, <1>2
  <2>2. (m * q + r) % m = r
    BY <1>1, RemainderIs
  <2> QED
    BY <2>1, <2>2
<1>3. CASE s > r
  <2>1. r - s + m \in 0..(m - 1) /\ q + 1 \in Int
    BY <1>1, <1>3
  <2>2. a + (r - s + m) = m * (q + 1) + r
    <3>1. m * (q + 1) = m * q + m
      BY <1>1
    <3> DEFINE x == m * q
               y == m * (q + 1)
    <3>2. x \in Nat /\ y = x + m /\ a = x + s
      BY <1>1, <3>1
    <3> HIDE DEF x, y
    <3>3. a + (r - s + m) = y + r
      BY <1>1, <3>2
    <3> QED
      BY <3>3 DEF y
  <2>3. (m * (q + 1) + r) % m = r
    BY <2>1, RemainderIs
  <2> QED
    BY <2>1, <2>2, <2>3
<1> QED
  BY <1>1, <1>2, <1>3

\* A key is a triple whose hash is a number, and is none that marks an empty slot.
LEMMA KeysAre ==
  ASSUME NEW key \in StoredKeys
  PROVE  /\ key = <<key[1], key[2], key[3]>>
         /\ HashOf[Seen(key)] \in Nat
         /\ key # NoKey
<1>1. CASE key \in Numbers
  <2>1. PICK i \in 1..MaxIndex : key = <<"num", i, "-">>
    BY <1>1 DEF Numbers, Index
  <2> QED
    BY <2>1, StorageAssumption DEF Seen
<1>2. CASE key \in {Normalised(k) : k \in RawNames}
  <2>1. PICK k \in RawNames : key = Normalised(k)
    BY <1>2
  <2>2. k = <<k[1], k[2], k[3]>> /\ k[2] \in Names
    BY StorageAssumption
  <2>3. key = <<key[1], key[2], key[3]>> /\ key[2] = k[2]
    <3>1. CASE k[1] = "zero"
      BY <2>1, <3>1 DEF Normalised
    <3>2. CASE k[1] # "zero"
      BY <2>1, <2>2, <3>2 DEF Normalised
    <3> QED
      BY <3>1, <3>2
  <2>4. key # NoKey
    BY <1>2, StorageAssumption
  <2> QED
    BY <2>2, <2>3, <2>4, StorageAssumption DEF Seen
<1> QED
  BY <1>1, <1>2 DEF StoredKeys

\* Being the same key works both ways, and such keys probe the same slots.
LEMMA SameKeys ==
  ASSUME NEW s \in StoredKeys, NEW key \in StoredKeys
  PROVE  /\ SameKey(s, s)
         /\ SameKey(s, key) => SameKey(key, s) /\ Seen(s) = Seen(key)
  BY KeysAre DEF SameKey

\* The words a program passes, once a key is normalised.
LEMMA WordsStored ==
  ASSUME NEW key \in RawKeys
  PROVE  Normalised(key) \in StoredKeys
<1>1. CASE key \in Numbers
  BY <1>1 DEF Normalised, Numbers, StoredKeys
<1>2. CASE key \in RawNames
  BY <1>2 DEF StoredKeys
<1> QED
  BY <1>1, <1>2 DEF RawKeys

-----------------------------------------------------------------------------
(***************************************************************************)
(* Probing.                                                                *)
(***************************************************************************)
\* Every probe is a slot.
LEMMA ProbeIn ==
  ASSUME NEW b, Size(b) \in Nat, Size(b) >= 2, NEW key \in StoredKeys, NEW d \in Nat
  PROVE  Probe(b, key, d) \in 1..Size(b)
<1>1. HashOf[Seen(key)] + d \in Nat /\ Size(b) \in Nat \ {0}
  BY KeysAre
<1>2. (HashOf[Seen(key)] + d) % Size(b) \in 0..(Size(b) - 1)
  BY <1>1, Divides
<1> QED
  BY <1>2 DEF Probe

\* Every slot is probed.
LEMMA ProbesCover ==
  ASSUME NEW b, Size(b) \in Nat, Size(b) >= 2, NEW key \in StoredKeys, NEW j \in 1..Size(b)
  PROVE  \E d \in 0..(Size(b) - 1) : Probe(b, key, d) = j
<1>1. HashOf[Seen(key)] \in Nat /\ Size(b) \in Nat \ {0} /\ j - 1 \in 0..(Size(b) - 1)
  BY KeysAre
<1>2. PICK d \in 0..(Size(b) - 1) : (HashOf[Seen(key)] + d) % Size(b) = j - 1
  BY <1>1, RemaindersCovered
<1>3. Probe(b, key, d) = j
  BY <1>2 DEF Probe
<1> QED
  BY <1>3

\* The first probe that stops is where the search ends.
LEMMA FindIs ==
  ASSUME NEW b, Size(b) \in Nat, NEW key, NEW d \in 0..(Size(b) - 1), FirstStop(b, key, d)
  PROVE  Find(b, key) = Probe(b, key, d)
<1> DEFINE P(i) == Stops(b, key, i) /\ \A j \in 0..(i - 1) : ~Stops(b, key, j)
           found == CHOOSE i \in 0..(Size(b) - 1) : P(i)
<1>1. P(d)
  BY DEF FirstStop
<1>2. found \in 0..(Size(b) - 1) /\ P(found)
  BY <1>1
<1>3. Find(b, key) = Probe(b, key, found)
  BY DEF Find
<1> HIDE DEF found
<1>4. found = d
  <2>1. ~(found < d)
    BY <1>1, <1>2
  <2>2. ~(d < found)
    BY <1>1, <1>2
  <2> QED
    BY <1>2, <2>1, <2>2
<1> QED
  BY <1>3, <1>4

\* A search that ends has a first probe that stops.
LEMMA StopsFirst ==
  ASSUME NEW b, Size(b) \in Nat, NEW key, ProbeEnds(b, key)
  PROVE  \E d \in 0..(Size(b) - 1) : FirstStop(b, key, d)
<1> DEFINE T == {i \in 0..(Size(b) - 1) : Stops(b, key, i)}
<1>1. T \in SUBSET Nat /\ T # {}
  BY DEF ProbeEnds
<1>2. PICK d \in T : \A y \in T : d <= y
  BY <1>1, Least
<1>3. \A e \in 0..(d - 1) : ~Stops(b, key, e)
  BY <1>2
<1> QED
  BY <1>2, <1>3 DEF FirstStop

\* A block that is not full has an empty slot, where every search ends at last.
LEMMA EmptyEnds ==
  ASSUME NEW b, IsBlock(b), b.used = Cardinality(Used(b)), b.used < Size(b),
         NEW key \in StoredKeys
  PROVE  ProbeEnds(b, key)
<1>1. Size(b) \in Nat /\ Size(b) >= 2
  BY DEF IsBlock
<1>2. PICK j \in 1..Size(b) : b.slots[j].key = NoKey
  <2> SUFFICES ASSUME \A j \in 1..Size(b) : b.slots[j].key # NoKey PROVE FALSE
    OBVIOUS
  <2>1. Used(b) = 1..Size(b)
    BY DEF Used
  <2>2. Cardinality(1..Size(b)) = Size(b)
    BY <1>1, FS_Interval
  <2> QED
    BY <1>1, <2>1, <2>2
<1>3. PICK d \in 0..(Size(b) - 1) : Probe(b, key, d) = j
  BY <1>1, ProbesCover
<1>4. Stops(b, key, d)
  BY <1>2, <1>3 DEF Stops
<1> QED
  BY <1>4 DEF ProbeEnds

\* A key that is the stored one probes and stops as the stored one does.
LEMMA SameStops ==
  ASSUME NEW b, Size(b) \in Nat, Size(b) >= 2,
         \A i \in 1..Size(b) : b.slots[i].key \in StoredKeys \cup {NoKey},
         NEW s \in StoredKeys, NEW key \in StoredKeys, SameKey(s, key), NEW d \in Nat
  PROVE  /\ Probe(b, s, d) = Probe(b, key, d)
         /\ Stops(b, s, d) <=> Stops(b, key, d)
<1>1. Seen(s) = Seen(key) /\ SameKey(key, s)
  BY SameKeys
<1>2. Probe(b, s, d) = Probe(b, key, d)
  BY <1>1 DEF Probe
<1> DEFINE stored == b.slots[Probe(b, key, d)].key
<1>3. Probe(b, key, d) \in 1..Size(b)
  BY ProbeIn
<1>4. stored \in StoredKeys \cup {NoKey}
  BY <1>3
<1> HIDE DEF stored
<1>5. ASSUME stored # NoKey
      PROVE  SameKey(stored, s) <=> SameKey(stored, key)
  BY <1>1, <1>5, KeysAre DEF SameKey
<1> QED
  BY <1>2, <1>5 DEF Stops, stored

\* The search for a key that is there ends at its slot.
LEMMA FoundAt ==
  ASSUME NEW b, Sound(b), NEW i \in Used(b), NEW key \in StoredKeys,
         SameKey(b.slots[i].key, key)
  PROVE  Find(b, key) = i
<1> DEFINE s == b.slots[i].key
<1>1. /\ Size(b) \in Nat /\ Size(b) >= 2
      /\ \A j \in 1..Size(b) : b.slots[j].key \in StoredKeys \cup {NoKey}
      /\ s \in StoredKeys
  BY DEF Sound, IsBlock, Used
<1>2. PICK d \in 0..(Size(b) - 1) : Probe(b, s, d) = i /\ FirstStop(b, s, d)
  BY DEF Sound, Chained
<1> HIDE DEF s
<1>3. \A e \in Nat : Probe(b, s, e) = Probe(b, key, e) /\ (Stops(b, s, e) <=> Stops(b, key, e))
  BY <1>1, SameStops DEF s
<1>4. FirstStop(b, key, d) /\ Probe(b, key, d) = i
  BY <1>1, <1>2, <1>3 DEF FirstStop
<1> QED
  BY <1>1, <1>4, FindIs

\* No two slots hold the same key.
LEMMA Distinct ==
  ASSUME NEW b, Sound(b), NEW i \in Used(b), NEW j \in Used(b),
         SameKey(b.slots[i].key, b.slots[j].key)
  PROVE  i = j
<1>1. b.slots[j].key \in StoredKeys
  BY DEF Sound, IsBlock, Used
<1>2. Find(b, b.slots[j].key) = i
  BY <1>1, FoundAt
<1>3. Find(b, b.slots[j].key) = j
  BY <1>1, FoundAt, SameKeys
<1> QED
  BY <1>2, <1>3

\* A key that is not found is in no slot.
LEMMA AbsentMeans ==
  ASSUME NEW b, Sound(b), NEW key \in StoredKeys, ~Has(b, key), NEW i \in Used(b)
  PROVE  ~SameKey(b.slots[i].key, key)
<1> SUFFICES ASSUME SameKey(b.slots[i].key, key) PROVE FALSE
  OBVIOUS
<1>1. Find(b, key) = i
  BY FoundAt
<1> QED
  BY <1>1 DEF Has, Used

\* Where the search for a key ends.
LEMMA FindStops ==
  ASSUME NEW b, Sound(b), b.used < Size(b), NEW key \in StoredKeys
  PROVE  \E d \in 0..(Size(b) - 1) :
           /\ FirstStop(b, key, d)
           /\ Find(b, key) = Probe(b, key, d)
           /\ Find(b, key) \in 1..Size(b)
<1>1. Size(b) \in Nat /\ Size(b) >= 2 /\ IsBlock(b) /\ b.used = Cardinality(Used(b))
  BY DEF Sound, IsBlock
<1>2. ProbeEnds(b, key)
  BY <1>1, EmptyEnds
<1>3. PICK d \in 0..(Size(b) - 1) : FirstStop(b, key, d)
  BY <1>1, <1>2, StopsFirst
<1>4. Find(b, key) = Probe(b, key, d) /\ Probe(b, key, d) \in 1..Size(b)
  BY <1>1, <1>3, FindIs, ProbeIn
<1> QED
  BY <1>3, <1>4

\* A search stops where it did when the keys it passed stay.
LEMMA KeepsStop ==
  ASSUME NEW b, NEW g, Size(b) \in Nat, Size(b) >= 2, Size(g) = Size(b),
         \A i \in 1..Size(b) : b.slots[i].key # NoKey => g.slots[i].key = b.slots[i].key,
         NEW key \in StoredKeys, NEW d \in Nat, FirstStop(b, key, d),
         SameKey(g.slots[Probe(b, key, d)].key, key)
  PROVE  FirstStop(g, key, d) /\ Probe(g, key, d) = Probe(b, key, d)
<1>1. \A e \in Nat : Probe(g, key, e) = Probe(b, key, e) /\ Probe(b, key, e) \in 1..Size(b)
  BY ProbeIn DEF Probe
<1>2. Stops(g, key, d)
  BY <1>1 DEF Stops
<1>3. ASSUME NEW e \in 0..(d - 1)
      PROVE  ~Stops(g, key, e)
  <2>1. ~Stops(b, key, e) /\ e \in Nat
    BY DEF FirstStop
  <2>2. Probe(b, key, e) \in 1..Size(b) /\ Probe(g, key, e) = Probe(b, key, e)
    BY <1>1, <2>1
  <2>3. b.slots[Probe(b, key, e)].key # NoKey
    BY <2>1 DEF Stops
  <2>4. g.slots[Probe(g, key, e)].key = b.slots[Probe(b, key, e)].key
    BY <2>2, <2>3
  <2> QED
    BY <2>1, <2>4 DEF Stops
<1> QED
  BY <1>1, <1>2, <1>3 DEF FirstStop

-----------------------------------------------------------------------------
(***************************************************************************)
(* What a store, a growth and a migration do to a block.                   *)
(***************************************************************************)
\* The keys of a block whose values alone changed are where they were.
LEMMA ValuesOnly ==
  ASSUME NEW b, NEW g, Sound(b), g = [used |-> b.used, slots |-> g.slots],
         g.slots = [i \in 1..Size(b) |-> [key |-> b.slots[i].key, value |-> g.slots[i].value]]
  PROVE  Sound(g) /\ Size(g) = Size(b) /\ Used(g) = Used(b) /\ g.used = b.used
<1>1. Size(b) \in Nat /\ Size(b) >= 2 /\ IsBlock(b)
  BY DEF Sound, IsBlock
<1> DEFINE n == Size(b)
           f == g.slots
<1>2. n \in Nat /\ f = [i \in 1..n |-> f[i]] /\ \A i \in 1..n : f[i].key = b.slots[i].key
  BY <1>1
<1>3. Len(f) = n
  BY <1>2, LenIs
<1>4. Size(g) = n
  BY <1>3 DEF Size
<1>5. \A i \in 1..n : g.slots[i].key = b.slots[i].key
  BY <1>2
<1> HIDE DEF n, f
<1>6. Used(g) = Used(b)
  BY <1>4, <1>5 DEF Used, n
<1>7. g.used = b.used
  OBVIOUS
<1>8. IsBlock(g)
  <2>1. \A i \in 1..n : g.slots[i].key \in StoredKeys \cup {NoKey}
    BY <1>1, <1>5 DEF IsBlock, n
  <2>2. g.slots = [i \in 1..n |-> [key |-> g.slots[i].key, value |-> g.slots[i].value]]
    BY <1>5 DEF n
  <2>3. g = [used |-> g.used, slots |-> g.slots]
    BY <1>7
  <2> QED
    BY <1>1, <1>4, <2>1, <2>2, <2>3 DEF IsBlock, n
<1>9. ASSUME NEW i \in Used(g)
      PROVE  Chained(g, i)
  <2>1. i \in Used(b) /\ i \in 1..n /\ b.slots[i].key \in StoredKeys
    BY <1>1, <1>6 DEF Used, IsBlock, n
  <2> DEFINE s == b.slots[i].key
  <2>2. PICK d \in 0..(n - 1) : Probe(b, s, d) = i /\ FirstStop(b, s, d)
    BY <2>1 DEF Sound, Chained, n
  <2>3. g.slots[i].key = s /\ s \in StoredKeys /\ SameKey(s, s)
    BY <1>5, <2>1, SameKeys
  <2> HIDE DEF s
  <2>4. SameKey(g.slots[Probe(b, s, d)].key, s) /\ d \in Nat /\ FirstStop(b, s, d)
    BY <1>1, <2>2, <2>3 DEF n
  <2>5. FirstStop(g, s, d) /\ Probe(g, s, d) = Probe(b, s, d)
    BY <1>1, <1>4, <1>5, <2>3, <2>4, KeepsStop DEF n
  <2> QED
    BY <1>4, <2>2, <2>3, <2>5 DEF Chained
<1> QED
  BY <1>4, <1>6, <1>7, <1>8, <1>9 DEF Sound, n

\* A block with no key.
LEMMA NewBlockSound ==
  ASSUME NEW size \in Nat, size >= 2
  PROVE  LET b == NewBlock(size)
         IN Sound(b) /\ Size(b) = size /\ b.used = 0 /\ Used(b) = {} /\ Busy(b) = {}
<1> DEFINE b == NewBlock(size)
<1>1. b = [used |-> 0, slots |-> [i \in 1..size |-> EmptySlot]]
  BY DEF NewBlock
<1> DEFINE f == b.slots
<1>2. f = [i \in 1..size |-> EmptySlot]
  BY <1>1
<1>3. f = [i \in 1..size |-> f[i]]
  BY <1>2
<1> HIDE DEF f
<1>4. Len(f) = size
  BY <1>3, LenIs
<1>5. Size(b) = size
  BY <1>4 DEF Size, f
<1>6. \A i \in 1..size : b.slots[i] = [key |-> NoKey, value |-> Nil]
  BY <1>2 DEF EmptySlot, f
<1>7. b.used = 0 /\ b = [used |-> b.used, slots |-> b.slots]
  BY <1>1
<1>8. b.slots = [i \in 1..size |-> [key |-> b.slots[i].key, value |-> b.slots[i].value]]
  BY <1>2, <1>6 DEF f
<1> HIDE DEF b
<1>9. Used(b) = {}
  BY <1>5, <1>6 DEF Used
<1>10. IsBlock(b)
  BY <1>5, <1>6, <1>7, <1>8 DEF IsBlock
<1>11. Busy(b) = {}
  BY <1>5, <1>6 DEF Busy
<1> QED
  BY <1>5, <1>7, <1>9, <1>10, <1>11, FS_EmptySet DEF Sound, b

\* g has the key and its value in a slot that was empty, and is b elsewhere.
Placed(b, g, key, v) ==
  \E f \in 1..Size(b) :
    /\ b.slots[f].key = NoKey /\ g.slots[f] = [key |-> key, value |-> v]
    /\ \A i \in 1..Size(b) : i # f => g.slots[i] = b.slots[i]

\* A key that is not there is put in an empty slot, where it is found.
LEMMA PutNewKeeps ==
  ASSUME NEW b, Sound(b), b.used < Size(b), NEW key \in StoredKeys, NEW v, ~Has(b, key)
  PROVE  LET g == PutNew(b, key, v)
         IN /\ Sound(g)
            /\ Size(g) = Size(b)
            /\ g.used = b.used + 1
            /\ \A i \in Used(g) : \/ i \in Used(b) /\ g.slots[i].key = b.slots[i].key
                                  \/ g.slots[i].key = key
            /\ Busy(g) \subseteq Busy(b) \cup {key}
            /\ Placed(b, g, key, v)
<1> DEFINE g == PutNew(b, key, v)
           n == Size(b)
           j == Find(b, key)
<1>1. n \in Nat /\ n >= 2 /\ IsBlock(b) /\ b.used = Cardinality(Used(b))
  BY DEF Sound, IsBlock
<1>2. PICK d \in 0..(n - 1) : FirstStop(b, key, d) /\ j = Probe(b, key, d) /\ j \in 1..n
  BY FindStops
<1>3. b.slots[j].key = NoKey
  BY DEF Has
<1>4. /\ g.used = b.used + 1
      /\ g.slots = [b.slots EXCEPT ![j] = [key |-> key, value |-> v]]
      /\ g = [used |-> g.used, slots |-> g.slots]
  BY DEF PutNew
<1>5. b.slots = [i \in 1..n |-> [key |-> b.slots[i].key, value |-> b.slots[i].value]]
  BY <1>1 DEF IsBlock
<1>6. \A i \in 1..n : b.slots[i].key \in StoredKeys \cup {NoKey}
  BY <1>1 DEF IsBlock
<1>7. key # NoKey
  BY KeysAre
<1> HIDE DEF g, n, j
<1>8. g.slots = [i \in 1..n |-> IF i = j THEN [key |-> key, value |-> v] ELSE b.slots[i]]
  BY <1>4, <1>5
<1>9. \A i \in 1..n : g.slots[i].key = IF i = j THEN key ELSE b.slots[i].key
  BY <1>8
<1>10. Size(g) = n
  <2> DEFINE f == g.slots
  <2>1. f = [i \in 1..n |-> f[i]]
    BY <1>8
  <2> HIDE DEF f
  <2>2. Len(f) = n
    BY <1>1, <2>1, LenIs
  <2> QED
    BY <2>2 DEF Size, f
<1>11. Used(g) = Used(b) \cup {j}
  BY <1>2, <1>7, <1>9, <1>10 DEF Used, n
<1>12. IsBlock(g)
  <2>1. g.slots = [i \in 1..n |-> [key |-> g.slots[i].key, value |-> g.slots[i].value]]
    <3>1. \A i \in 1..n : g.slots[i] = [key |-> g.slots[i].key, value |-> g.slots[i].value]
      <4> SUFFICES ASSUME NEW i \in 1..n
                   PROVE  g.slots[i] = [key |-> g.slots[i].key, value |-> g.slots[i].value]
        OBVIOUS
      <4>1. CASE i = j
        BY <1>8, <4>1
      <4>2. CASE i # j
        <5>1. g.slots[i] = b.slots[i]
          BY <1>8, <4>2
        <5>2. b.slots[i] = [key |-> b.slots[i].key, value |-> b.slots[i].value]
          BY <1>5
        <5> QED
          BY <5>1, <5>2
      <4> QED
        BY <4>1, <4>2
    <3> QED
      BY <1>8, <3>1
  <2> QED
    BY <1>1, <1>4, <1>6, <1>9, <1>10, <2>1 DEF IsBlock
<1>13. Cardinality(Used(g)) = b.used + 1
  <2>1. IsFiniteSet(1..n) /\ Used(b) \subseteq 1..n
    BY <1>1, FS_Interval DEF Used, n
  <2>2. IsFiniteSet(Used(b)) /\ j \notin Used(b)
    BY <1>3, <2>1, FS_Subset DEF Used
  <2> QED
    BY <1>1, <1>11, <2>2, FS_AddElement
<1>14. \A i \in 1..n : b.slots[i].key # NoKey => g.slots[i].key = b.slots[i].key
  BY <1>3, <1>9
<1>15. ASSUME NEW i \in Used(g)
       PROVE  Chained(g, i)
  <2>1. PICK s \in StoredKeys, e \in 0..(n - 1) :
          g.slots[i].key = s /\ FirstStop(b, s, e) /\ Probe(b, s, e) = i
    <3>1. CASE i = j
      BY <1>2, <1>9, <3>1
    <3>2. CASE i # j
      <4>1. i \in Used(b) /\ i \in 1..n
        BY <1>11, <3>2 DEF Used, n
      <4>2. b.slots[i].key \in StoredKeys /\ g.slots[i].key = b.slots[i].key
        BY <1>6, <1>14, <4>1 DEF Used
      <4>3. PICK e \in 0..(n - 1) : Probe(b, b.slots[i].key, e) = i /\ FirstStop(b, b.slots[i].key, e)
        BY <4>1 DEF Sound, Chained, n
      <4> QED
        BY <4>2, <4>3
    <3> QED
      BY <3>1, <3>2
  <2>2. SameKey(s, s)
    BY SameKeys
  <2>3. FirstStop(g, s, e) /\ Probe(g, s, e) = i
    BY <1>1, <1>10, <1>14, <2>1, <2>2, KeepsStop DEF n
  <2> QED
    BY <1>10, <2>1, <2>3 DEF Chained
<1>16. Sound(g)
  BY <1>4, <1>12, <1>13, <1>15 DEF Sound
<1>17. \A i \in Used(g) : (i \in Used(b) /\ g.slots[i].key = b.slots[i].key) \/ g.slots[i].key = key
  BY <1>9, <1>10, <1>11 DEF Used
<1>18. Busy(g) \subseteq Busy(b) \cup {key}
  <2> SUFFICES ASSUME NEW i \in 1..n, g.slots[i].value # Nil
               PROVE  g.slots[i].key \in Busy(b) \cup {key}
    BY <1>10 DEF Busy
  <2>1. CASE i = j
    BY <1>9, <2>1
  <2>2. CASE i # j
    <3>1. g.slots[i] = b.slots[i]
      BY <1>8, <2>2
    <3> QED
      BY <3>1 DEF Busy, n
  <2> QED
    BY <2>1, <2>2
<1>19. /\ b.slots[j].key = NoKey /\ g.slots[j] = [key |-> key, value |-> v] /\ j \in 1..n
       /\ \A i \in 1..n : i # j => g.slots[i] = b.slots[i]
  BY <1>2, <1>3, <1>8
<1>20. Placed(b, g, key, v)
  BY <1>19 DEF Placed, n
<1> QED
  BY <1>4, <1>10, <1>16, <1>17, <1>18, <1>20 DEF g, n

\* One slot of the old block, inserted into the new one if it is live.
Inserted(b, h, n) ==
  IF Live(b.slots[n]) THEN PutNew(h, b.slots[n].key, b.slots[n].value) ELSE h

\* The blocks a growth goes through, after each of the first m slots.
Growth(b, g, m) ==
  g = [n \in 0..m |-> IF n = 0 THEN NewBlock(2 * Size(b)) ELSE Inserted(b, g[n - 1], n)]

\* The recursive definition of a growing block has a function.
LEMMA GrowthExists ==
  ASSUME NEW b, NEW m \in Nat
  PROVE  \E g : Growth(b, g, m)
<1> DEFINE T == {k \in 0..m : ~ \E g : Growth(b, g, k)}
           first == NewBlock(2 * Size(b))
           Next1(h, n) == Inserted(b, h, n)
           Is(g, k) == g = [n \in 0..k |-> IF n = 0 THEN first ELSE Next1(g[n - 1], n)]
<1>1. \A g, k : Growth(b, g, k) <=> Is(g, k)
  BY DEF Growth
<1> HIDE DEF Next1, first
<1> SUFFICES ASSUME T # {} PROVE FALSE
  OBVIOUS
<1>2. PICK x \in T : \A y \in T : x <= y
  <2>1. T \in SUBSET Nat
    OBVIOUS
  <2> QED
    BY <2>1, Least
<1>3. ~ \E g : Is(g, x)
  BY <1>1, <1>2
<1>4. x # 0
  <2>1. CASE x = 0
    <3> DEFINE h == [n \in 0..0 |-> first]
    <3>1. h = [n \in 0..0 |-> IF n = 0 THEN first ELSE Next1(h[n - 1], n)]
      OBVIOUS
    <3> QED
      BY <1>3, <2>1, <3>1
  <2> QED
    BY <2>1
<1>5. x - 1 \in 0..m /\ x - 1 \notin T
  BY <1>2, <1>4
<1>6. PICK g : Is(g, x - 1)
  BY <1>1, <1>5
<1> DEFINE h == [n \in 0..x |-> IF n = 0 THEN first ELSE Next1(g[n - 1], n)]
<1>7. \A n \in 0..(x - 1) : h[n] = g[n]
  BY <1>2, <1>6
<1>8. \A n \in 0..x : h[n] = IF n = 0 THEN first ELSE Next1(g[n - 1], n)
  OBVIOUS
<1>9. h = [n \in 0..x |-> h[n]]
  OBVIOUS
<1> HIDE DEF h
<1>10. \A n \in 0..x : n # 0 => n - 1 \in 0..(x - 1)
  BY <1>2
<1>11. \A n \in 0..x : h[n] = IF n = 0 THEN first ELSE Next1(h[n - 1], n)
  BY <1>7, <1>8, <1>10
<1>12. Is(h, x)
  BY <1>9, <1>11
<1> QED
  BY <1>3, <1>12

\* Growing ends with the last of them.
LEMMA GrowIs ==
  ASSUME NEW b, Size(b) \in Nat
  PROVE  \E g : Growth(b, g, Size(b)) /\ Grow(b) = g[Size(b)]
<1> DEFINE g == CHOOSE h : Growth(b, h, Size(b))
<1>1. Growth(b, g, Size(b))
  BY GrowthExists
<1>2. Grow(b) = g[Size(b)]
  BY DEF Grow, Growth, Inserted
<1> QED
  BY <1>1, <1>2

\* The slots of the new block are those inserted so far, each counted, and none
\* that is live is left out.
GrownSoFar(b, h, n) ==
  /\ Sound(h)
  /\ Size(h) = 2 * Size(b)
  /\ h.used <= Cardinality(Used(b) \cap 1..n)
  /\ \A j \in Used(h) : \E i \in Used(b) : i <= n /\ h.slots[j] = b.slots[i]
  /\ \A i \in Used(b) : i <= n /\ b.slots[i].value # Nil => \E j \in Used(h) : h.slots[j] = b.slots[i]
  /\ Busy(h) \subseteq Busy(b)

\* One more slot is inserted into the block twice the size.
LEMMA InsertedKeeps ==
  ASSUME NEW b, Sound(b), HalfUsed(b), NEW n \in 1..Size(b), NEW h, GrownSoFar(b, h, n - 1)
  PROVE  GrownSoFar(b, Inserted(b, h, n), n)
<1> DEFINE s == b.slots[n].key
           v == b.slots[n].value
           before == Used(b) \cap 1..(n - 1)
           now == Used(b) \cap 1..n
<1>1. Size(b) \in Nat /\ Size(b) >= 2 /\ IsBlock(b) /\ n \in Nat
  BY DEF Sound, IsBlock
<1>2. IsFiniteSet(Used(b)) /\ Used(b) \subseteq 1..Size(b)
  <2>1. IsFiniteSet(1..Size(b)) /\ Used(b) \subseteq 1..Size(b)
    BY <1>1, FS_Interval DEF Used
  <2> QED
    BY <2>1, FS_Subset
<1>3. /\ IsFiniteSet(before) /\ IsFiniteSet(now)
      /\ before \subseteq now /\ now \subseteq Used(b)
  BY <1>1, <1>2, FS_Subset
<1>4. /\ Cardinality(before) \in Nat /\ Cardinality(now) \in Nat
      /\ Cardinality(before) <= Cardinality(now)
      /\ Cardinality(now) <= Cardinality(Used(b))
      /\ b.used = Cardinality(Used(b))
  BY <1>2, <1>3, FS_Subset, FS_CardinalityType DEF Sound
<1>5. h.used \in Nat
  <2>1. Size(h) \in Nat
    BY <1>1 DEF GrownSoFar
  <2>2. IsFiniteSet(1..Size(h)) /\ Used(h) \subseteq 1..Size(h)
    BY <2>1, FS_Interval DEF Used
  <2>3. Cardinality(Used(h)) \in Nat
    BY <2>2, FS_Subset, FS_CardinalityType
  <2> QED
    BY <2>3 DEF GrownSoFar, Sound
<1>6. CASE Live(b.slots[n])
  <2>1. s # NoKey /\ n \in Used(b)
    BY <1>6 DEF Live, Used
  <2>2. s \in StoredKeys
    BY <1>1, <2>1 DEF IsBlock
  <2>3. Cardinality(now) = Cardinality(before) + 1
    <3>1. now = before \cup {n} /\ n \notin before
      BY <1>1, <2>1
    <3> QED
      BY <1>3, <3>1, FS_AddElement
  <2>4. h.used < Size(h)
    <3> DEFINE c == Cardinality(before)
               e == Cardinality(Used(b))
               z == Size(b)
    <3>1. h.used <= c /\ Size(h) = 2 * z /\ z >= 2 /\ c \in Nat /\ z \in Nat
      BY <1>1, <1>4 DEF GrownSoFar
    <3>2. e \in Nat
      BY <1>2, FS_CardinalityType
    <3>3. 2 * e <= z
      BY <1>4 DEF HalfUsed
    <3>4. c <= e
      <4> DEFINE w == Cardinality(now)
      <4>1. c <= w /\ w <= e /\ w \in Nat
        BY <1>4
      <4> HIDE DEF c, e, w
      <4> QED
        BY <3>1, <3>2, <4>1
    <3> HIDE DEF c, e, z
    <3> QED
      BY <1>5, <3>1, <3>2, <3>3, <3>4
  <2>5. ~Has(h, s)
    <3> SUFFICES ASSUME Has(h, s) PROVE FALSE
      OBVIOUS
    <3> DEFINE j == Find(h, s)
    <3>1. Sound(h)
      BY DEF GrownSoFar
    <3>2. j \in 1..Size(h) /\ h.slots[j].key # NoKey
      BY <2>2, <2>4, <3>1, FindStops DEF Has
    <3>3. SameKey(h.slots[j].key, s)
      BY <2>2, <2>4, <3>1, <3>2, FindStops DEF FirstStop, Stops
    <3>4. j \in Used(h)
      BY <3>2 DEF Used
    <3>5. PICK i \in Used(b) : i <= n - 1 /\ h.slots[j].key = b.slots[i].key
      BY <3>4 DEF GrownSoFar
    <3>6. i = n
      BY <2>1, <3>3, <3>5, Distinct
    <3> QED
      BY <1>1, <3>5, <3>6
  <2> DEFINE g == PutNew(h, s, v)
  <2>6. /\ Sound(g)
        /\ Size(g) = Size(h)
        /\ g.used = h.used + 1
        /\ \A i \in Used(g) : \/ i \in Used(h) /\ g.slots[i].key = h.slots[i].key
                              \/ g.slots[i].key = s
        /\ Busy(g) \subseteq Busy(h) \cup {s}
        /\ Placed(h, g, s, v)
    BY <2>2, <2>4, <2>5, PutNewKeeps DEF GrownSoFar
  <2>7. Inserted(b, h, n) = g
    BY <1>6 DEF Inserted
  <2> HIDE DEF g
  <2>8. g.used <= Cardinality(now)
    <3> DEFINE c == Cardinality(before)
    <3>1. c \in Nat /\ Cardinality(now) = c + 1 /\ h.used <= c
      BY <1>4, <2>3 DEF GrownSoFar
    <3> HIDE DEF c
    <3> QED
      BY <1>5, <2>6, <3>1
  <2>9. PICK f \in 1..Size(h) :
          /\ h.slots[f].key = NoKey /\ g.slots[f] = b.slots[n]
          /\ \A i \in 1..Size(h) : i # f => g.slots[i] = h.slots[i]
    <3>1. b.slots[n] = [key |-> s, value |-> v]
      BY <1>1 DEF IsBlock
    <3> QED
      BY <2>6, <3>1 DEF Placed
  <2>10. \A j \in Used(g) : \E i \in Used(b) : i <= n /\ g.slots[j] = b.slots[i]
    <3> SUFFICES ASSUME NEW j \in Used(g)
                 PROVE  \E i \in Used(b) : i <= n /\ g.slots[j] = b.slots[i]
      OBVIOUS
    <3>1. CASE j = f
      BY <1>1, <2>1, <2>9, <3>1
    <3>2. CASE j # f
      <4>1. j \in Used(h) /\ g.slots[j] = h.slots[j]
        BY <2>6, <2>9, <3>2 DEF Used
      <4>2. PICK i \in Used(b) : i <= n - 1 /\ h.slots[j] = b.slots[i]
        BY <4>1 DEF GrownSoFar
      <4>3. i \in Nat
        BY <1>2
      <4> QED
        BY <1>1, <4>1, <4>2, <4>3
    <3> QED
      BY <3>1, <3>2
  <2>11. \A i \in Used(b) : i <= n /\ b.slots[i].value # Nil =>
           \E j \in Used(g) : g.slots[j] = b.slots[i]
    <3> SUFFICES ASSUME NEW i \in Used(b), i <= n, b.slots[i].value # Nil
                 PROVE  \E j \in Used(g) : g.slots[j] = b.slots[i]
      OBVIOUS
    <3>1. CASE i = n
      BY <2>1, <2>6, <2>9, <3>1 DEF Used
    <3>2. CASE i # n
      <4>1. i <= n - 1
        BY <1>1, <1>2, <3>2
      <4>2. PICK j \in Used(h) : h.slots[j] = b.slots[i]
        BY <4>1 DEF GrownSoFar
      <4>3. j # f /\ j \in 1..Size(h)
        BY <2>9 DEF Used
      <4>4. g.slots[j] = h.slots[j] /\ j \in Used(g)
        BY <2>6, <2>9, <4>3 DEF Used
      <4> QED
        BY <4>2, <4>4
    <3> QED
      BY <3>1, <3>2
  <2>12. Busy(g) \subseteq Busy(b)
    <3>1. s \in Busy(b)
      BY <1>6 DEF Busy, Live
    <3> QED
      BY <2>6, <3>1 DEF GrownSoFar
  <2>13. GrownSoFar(b, g, n)
    <3>1. Sound(h) /\ Size(h) = 2 * Size(b)
      BY DEF GrownSoFar
    <3> QED
      BY <2>6, <2>8, <2>10, <2>11, <2>12, <3>1 DEF GrownSoFar
  <2> QED
    BY <2>7, <2>13
<1>7. CASE ~Live(b.slots[n])
  <2>1. Inserted(b, h, n) = h
    BY <1>7 DEF Inserted
  <2>2. h.used <= Cardinality(now)
    <3> DEFINE c == Cardinality(before)
               e == Cardinality(now)
    <3>1. c \in Nat /\ e \in Nat /\ c <= e /\ h.used <= c
      BY <1>4 DEF GrownSoFar
    <3> HIDE DEF c, e
    <3> QED
      BY <1>5, <3>1 DEF e
  <2>3. \A j \in Used(h) : \E i \in Used(b) : i <= n /\ h.slots[j] = b.slots[i]
    <3> SUFFICES ASSUME NEW j \in Used(h)
                 PROVE  \E i \in Used(b) : i <= n /\ h.slots[j] = b.slots[i]
      OBVIOUS
    <3>1. PICK i \in Used(b) : i <= n - 1 /\ h.slots[j] = b.slots[i]
      BY DEF GrownSoFar
    <3>2. i \in Nat
      BY <1>2
    <3> QED
      BY <1>1, <3>1, <3>2
  <2>4. \A i \in Used(b) : i <= n /\ b.slots[i].value # Nil =>
          \E j \in Used(h) : h.slots[j] = b.slots[i]
    <3> SUFFICES ASSUME NEW i \in Used(b), i <= n, b.slots[i].value # Nil
                 PROVE  \E j \in Used(h) : h.slots[j] = b.slots[i]
      OBVIOUS
    <3>1. i # n
      BY <1>7 DEF Live, Used
    <3>2. i <= n - 1
      BY <1>1, <1>2, <3>1
    <3> QED
      BY <3>2 DEF GrownSoFar
  <2> QED
    BY <2>1, <2>2, <2>3, <2>4 DEF GrownSoFar
<1> QED
  BY <1>6, <1>7

\* A block at most half full grows into one of twice its size with no more keys.
LEMMA GrowKeeps ==
  ASSUME NEW b, Sound(b), HalfUsed(b)
  PROVE  GrownSoFar(b, Grow(b), Size(b))
<1>1. Size(b) \in Nat /\ Size(b) >= 2
  BY DEF Sound, IsBlock
<1>2. PICK g : Growth(b, g, Size(b)) /\ Grow(b) = g[Size(b)]
  BY <1>1, GrowIs
<1> DEFINE m == Size(b)
           T == {k \in 0..m : ~GrownSoFar(b, g[k], k)}
<1>3. T = {}
  <2> SUFFICES ASSUME T # {} PROVE FALSE
    OBVIOUS
  <2>1. PICK x \in T : \A y \in T : x <= y
    <3>1. T \in SUBSET Nat
      BY <1>1
    <3> QED
      BY <3>1, Least
  <2>2. CASE x = 0
    <3>1. 0 \in 0..m
      BY <1>1
    <3>2. g[0] = NewBlock(2 * Size(b))
      BY <1>2, <3>1 DEF Growth
    <3>3. /\ Sound(g[0]) /\ Size(g[0]) = 2 * Size(b)
          /\ g[0].used = 0 /\ Used(g[0]) = {} /\ Busy(g[0]) = {}
      BY <1>1, <3>2, NewBlockSound
    <3>4. Cardinality(Used(b) \cap 1..0) = 0
      <4>1. Used(b) \cap 1..0 = {}
        OBVIOUS
      <4> QED
        BY <4>1, FS_EmptySet
    <3> QED
      BY <1>1, <2>1, <2>2, <3>3, <3>4 DEF GrownSoFar, Used
  <2>3. CASE x # 0
    <3>1. x - 1 \in 0..m /\ x \in 1..m /\ x - 1 \notin T
      BY <1>1, <2>1, <2>3
    <3>2. GrownSoFar(b, g[x - 1], x - 1)
      BY <3>1
    <3>3. g[x] = Inserted(b, g[x - 1], x)
      BY <1>2, <2>3, <3>1 DEF Growth
    <3>4. GrownSoFar(b, Inserted(b, g[x - 1], x), x)
      BY <3>1, <3>2, InsertedKeeps
    <3> QED
      BY <2>1, <3>3, <3>4
  <2> QED
    BY <2>2, <2>3
<1>4. GrownSoFar(b, g[m], m)
  BY <1>1, <1>3
<1> QED
  BY <1>2, <1>4

\* The count of a block's used slots is a number.
LEMMA UsedCount ==
  ASSUME NEW b, Sound(b)
  PROVE  b.used \in Nat /\ IsFiniteSet(Used(b))
<1>1. Size(b) \in Nat
  BY DEF Sound, IsBlock
<1>2. IsFiniteSet(1..Size(b)) /\ Used(b) \subseteq 1..Size(b)
  BY <1>1, FS_Interval DEF Used
<1>3. IsFiniteSet(Used(b)) /\ Cardinality(Used(b)) \in Nat
  BY <1>2, FS_Subset, FS_CardinalityType
<1> QED
  BY <1>3 DEF Sound

\* Storing a key that is there changes the value of its slot.
LEMMA Overwrites ==
  ASSUME NEW b, Sound(b), b.used < Size(b), NEW key \in StoredKeys, NEW v, Has(b, key)
  PROVE  LET g == Store(b, key, v)
             j == Find(b, key)
         IN /\ Sound(g) /\ Size(g) = Size(b) /\ g.used = b.used
            /\ j \in 1..Size(b) /\ b.slots[j].key \in StoredKeys
            /\ SameKey(b.slots[j].key, key)
            /\ \A i \in 1..Size(b) :
                 /\ g.slots[i].key = b.slots[i].key
                 /\ g.slots[i].value = IF i = j THEN v ELSE b.slots[i].value
<1> DEFINE n == Size(b)
           j == Find(b, key)
           g == [b EXCEPT !.slots[j].value = v]
<1>1. j \in 1..n
  BY FindStops
<1>2. /\ b = [used |-> b.used, slots |-> b.slots]
      /\ b.slots = [i \in 1..n |-> [key |-> b.slots[i].key, value |-> b.slots[i].value]]
  BY DEF Sound, IsBlock
<1>3. Store(b, key, v) = g
  BY DEF Store
<1> HIDE DEF j
<1>4. g = [used |-> b.used, slots |-> [b.slots EXCEPT ![j] = [b.slots[j] EXCEPT !.value = v]]]
  <2> DEFINE s == b.slots
             r == [s EXCEPT ![j].value = v]
  <2>1. g = [b EXCEPT !.slots = r]
    OBVIOUS
  <2>2. s = [i \in 1..n |-> s[i]]
    BY <1>2
  <2> HIDE DEF s
  <2>3. r = [s EXCEPT ![j] = [s[j] EXCEPT !.value = v]]
    OBVIOUS
  <2> HIDE DEF r, g
  <2>4. g = [used |-> b.used, slots |-> r]
    BY <1>2, <2>1
  <2> QED
    BY <2>3, <2>4 DEF s
<1>5. b.slots[j] = [key |-> b.slots[j].key, value |-> b.slots[j].value]
  BY <1>1, <1>2
<1>6. [b.slots[j] EXCEPT !.value = v] = [key |-> b.slots[j].key, value |-> v]
  BY <1>5
<1>7. /\ g.slots = [b.slots EXCEPT ![j] = [key |-> b.slots[j].key, value |-> v]]
      /\ g = [used |-> b.used, slots |-> g.slots]
  BY <1>4, <1>6
<1> HIDE DEF g, n
<1>8. g.slots = [i \in 1..n |-> IF i = j THEN [key |-> b.slots[i].key, value |-> v]
                               ELSE b.slots[i]]
  BY <1>1, <1>2, <1>7
<1>9. ASSUME NEW i \in 1..n
      PROVE  g.slots[i] = [key |-> b.slots[i].key, value |-> g.slots[i].value]
  <2>1. b.slots[i] = [key |-> b.slots[i].key, value |-> b.slots[i].value]
    BY <1>2
  <2>2. CASE i = j
    BY <1>8, <2>2
  <2>3. CASE i # j
    <3>1. g.slots[i] = b.slots[i]
      BY <1>8, <2>3
    <3> QED
      BY <2>1, <3>1
  <2> QED
    BY <2>2, <2>3
<1>10. g.slots = [i \in 1..n |-> [key |-> b.slots[i].key, value |-> g.slots[i].value]]
  BY <1>8, <1>9
<1>11. Sound(g) /\ Size(g) = Size(b) /\ g.used = b.used
  BY <1>7, <1>10, ValuesOnly DEF n
<1>12. b.slots[j].key \in StoredKeys /\ SameKey(b.slots[j].key, key)
  <2>1. b.slots[j].key # NoKey
    BY DEF Has, j
  <2>2. b.slots[j].key \in StoredKeys
    BY <1>1, <2>1 DEF Sound, IsBlock, n
  <2>3. SameKey(b.slots[j].key, key)
    BY <2>1, FindStops DEF FirstStop, Stops, j
  <2> QED
    BY <2>2, <2>3
<1>13. \A i \in 1..n : /\ g.slots[i].key = b.slots[i].key
                      /\ g.slots[i].value = IF i = j THEN v ELSE b.slots[i].value
  BY <1>8, <1>9
<1> QED
  BY <1>1, <1>3, <1>11, <1>12, <1>13 DEF j, n

\* A store into a sound block at most half full leaves one.
LEMMA StoreKeeps ==
  ASSUME NEW b, Sound(b), HalfUsed(b), NEW key \in StoredKeys, NEW v
  PROVE  /\ Sound(Store(b, key, v)) /\ HalfUsed(Store(b, key, v))
         /\ Busy(Store(b, key, v)) \subseteq Busy(b) \cup {s \in StoredKeys : SameKey(s, key)}
<1> DEFINE n == Size(b)
           K == {s \in StoredKeys : SameKey(s, key)}
<1> HIDE DEF K
<1>1. n \in Nat /\ n >= 2 /\ b.used \in Nat /\ 2 * b.used <= n
  BY UsedCount DEF Sound, IsBlock, HalfUsed
<1>2. b.used < Size(b)
  BY <1>1
<1>3. CASE Has(b, key)
  <2> DEFINE j == Find(b, key)
             g == Store(b, key, v)
  <2>1. /\ Sound(g) /\ Size(g) = n /\ g.used = b.used /\ j \in 1..n
        /\ b.slots[j].key \in K
        /\ \A i \in 1..n : /\ g.slots[i].key = b.slots[i].key
                           /\ g.slots[i].value = IF i = j THEN v ELSE b.slots[i].value
    BY <1>2, <1>3, Overwrites DEF K
  <2> HIDE DEF g, j, n
  <2>2. Busy(g) \subseteq Busy(b) \cup K
    <3> SUFFICES ASSUME NEW i \in 1..n, g.slots[i].value # Nil
                 PROVE  g.slots[i].key \in Busy(b) \cup K
      BY <2>1 DEF Busy
    <3>1. CASE i = j
      BY <2>1, <3>1
    <3>2. CASE i # j
      BY <2>1, <3>2 DEF Busy, n
    <3> QED
      BY <3>1, <3>2
  <2> QED
    BY <2>1, <2>2 DEF HalfUsed, K, g, n
<1>4. CASE ~Has(b, key) /\ v = Nil
  <2>1. Store(b, key, v) = b
    BY <1>4 DEF Store
  <2> QED
    BY <2>1
<1>5. CASE ~Has(b, key) /\ v # Nil /\ ~((b.used + 1) * 2 > Size(b))
  <2> DEFINE g == PutNew(b, key, v)
  <2>1. Store(b, key, v) = g
    BY <1>5 DEF Store
  <2>2. /\ Sound(g) /\ Size(g) = Size(b) /\ g.used = b.used + 1
        /\ Busy(g) \subseteq Busy(b) \cup {key}
    BY <1>2, <1>5, PutNewKeeps
  <2> HIDE DEF g
  <2>3. 2 * g.used <= Size(g)
    BY <1>1, <1>5, <2>2
  <2> QED
    BY <2>1, <2>2, <2>3, SameKeys DEF HalfUsed
<1>6. CASE ~Has(b, key) /\ v # Nil /\ (b.used + 1) * 2 > Size(b)
  <2> DEFINE h == Grow(b)
             g == PutNew(h, key, v)
  <2>1. Store(b, key, v) = g
    BY <1>6 DEF Store
  <2>2. GrownSoFar(b, h, n)
    BY GrowKeeps
  <2> HIDE DEF h
  <2>3. Sound(h) /\ Size(h) = 2 * n /\ h.used \in Nat
    BY <2>2, UsedCount DEF GrownSoFar
  <2>4. h.used <= b.used
    <3>1. Used(b) \cap 1..n = Used(b)
      BY DEF Used
    <3> QED
      BY <2>2, <3>1 DEF GrownSoFar, Sound
  <2>5. h.used < Size(h)
    BY <1>1, <2>3, <2>4
  <2>6. ~Has(h, key)
    <3> SUFFICES ASSUME Has(h, key) PROVE FALSE
      OBVIOUS
    <3> DEFINE j == Find(h, key)
    <3>1. j \in 1..Size(h) /\ h.slots[j].key # NoKey
      BY <2>3, <2>5, FindStops DEF Has
    <3>2. SameKey(h.slots[j].key, key)
      BY <2>3, <2>5, <3>1, FindStops DEF FirstStop, Stops
    <3>3. j \in Used(h)
      BY <3>1 DEF Used
    <3>4. PICK i \in Used(b) : h.slots[j].key = b.slots[i].key
      BY <2>2, <3>3 DEF GrownSoFar
    <3> QED
      BY <1>6, <3>2, <3>4, AbsentMeans
  <2>7. /\ Sound(g) /\ Size(g) = Size(h) /\ g.used = h.used + 1
        /\ Busy(g) \subseteq Busy(h) \cup {key}
    BY <2>3, <2>5, <2>6, PutNewKeeps
  <2> HIDE DEF g
  <2>8. 2 * g.used <= Size(g)
    BY <1>1, <2>3, <2>4, <2>7
  <2>9. Busy(h) \subseteq Busy(b)
    BY <2>2 DEF GrownSoFar
  <2> QED
    BY <2>1, <2>7, <2>8, <2>9, SameKeys DEF HalfUsed
<1> QED
  BY <1>3, <1>4, <1>5, <1>6

\* Migration clears values only.
LEMMA MigratedKeeps ==
  ASSUME NEW b, Sound(b), HalfUsed(b), NEW low, NEW high
  PROVE  /\ Sound(Migrated(b, low, high)) /\ HalfUsed(Migrated(b, low, high))
         /\ Busy(Migrated(b, low, high)) \subseteq
              Busy(b) \ {NumberKey(k) : k \in (low + 1)..high}
<1> DEFINE g == Migrated(b, low, high)
           n == Size(b)
           K == {NumberKey(k) : k \in (low + 1)..high}
<1>1. /\ b = [used |-> b.used, slots |-> b.slots]
      /\ b.slots = [i \in 1..n |-> [key |-> b.slots[i].key, value |-> b.slots[i].value]]
  BY DEF Sound, IsBlock
<1>2. g = [b EXCEPT !.slots = [i \in 1..n |-> IF b.slots[i].key \in K
                                              THEN [b.slots[i] EXCEPT !.value = Nil]
                                              ELSE b.slots[i]]]
  BY DEF Migrated
<1> HIDE DEF K, g, n
<1>3. /\ g.slots = [i \in 1..n |-> IF b.slots[i].key \in K THEN [b.slots[i] EXCEPT !.value = Nil]
                                   ELSE b.slots[i]]
      /\ g = [used |-> b.used, slots |-> g.slots]
  BY <1>1, <1>2
<1>4. ASSUME NEW i \in 1..n
      PROVE  g.slots[i] = [key |-> b.slots[i].key, value |-> g.slots[i].value]
  <2>1. b.slots[i] = [key |-> b.slots[i].key, value |-> b.slots[i].value]
    BY <1>1
  <2>2. CASE b.slots[i].key \in K
    <3>1. g.slots[i] = [b.slots[i] EXCEPT !.value = Nil]
      BY <1>3, <2>2
    <3> QED
      BY <2>1, <3>1
  <2>3. CASE b.slots[i].key \notin K
    <3>1. g.slots[i] = b.slots[i]
      BY <1>3, <2>3
    <3> QED
      BY <2>1, <3>1
  <2> QED
    BY <2>2, <2>3
<1>5. g.slots = [i \in 1..n |-> [key |-> b.slots[i].key, value |-> g.slots[i].value]]
  BY <1>3, <1>4
<1>6. Sound(g) /\ Size(g) = Size(b) /\ g.used = b.used
  BY <1>3, <1>5, ValuesOnly DEF n
<1>7. Busy(g) \subseteq Busy(b) \ K
  <2> SUFFICES ASSUME NEW i \in 1..n, g.slots[i].value # Nil
               PROVE  g.slots[i].key \in Busy(b) \ K
    BY <1>6 DEF Busy, n
  <2>1. CASE b.slots[i].key \in K
    <3>1. g.slots[i] = [b.slots[i] EXCEPT !.value = Nil]
      BY <1>3, <2>1
    <3>2. b.slots[i] = [key |-> b.slots[i].key, value |-> b.slots[i].value]
      BY <1>1
    <3> QED
      BY <3>1, <3>2
  <2>2. CASE b.slots[i].key \notin K
    <3>1. g.slots[i] = b.slots[i]
      BY <1>3, <2>2
    <3> QED
      BY <2>2, <3>1 DEF Busy, n
  <2> QED
    BY <2>1, <2>2
<1> QED
  BY <1>6, <1>7 DEF HalfUsed, g, K

-----------------------------------------------------------------------------
(***************************************************************************)
(* What the table operations do to the hash part.                          *)
(***************************************************************************)
LEMMA HashStoreKeeps ==
  ASSUME NEW t, IsTable(t), NEW key \in RawKeys, NEW v
  PROVE  IsTable(HashStore(t, key, v))
<1> DEFINE k == Normalised(key)
           b == IF t.block = NoBlock THEN NewBlock(MinBlock) ELSE t.block
           s == Store(b, k, v)
<1>1. k \in StoredKeys
  BY WordsStored
<1>2. Sound(b) /\ HalfUsed(b)
  <2>1. CASE t.block = NoBlock
    <3>1. MinBlock \in Nat /\ MinBlock >= 2
      BY StorageAssumption
    <3>2. LET e == NewBlock(MinBlock)
          IN Sound(e) /\ Size(e) = MinBlock /\ e.used = 0
      BY <3>1, NewBlockSound
    <3> QED
      BY <2>1, <3>1, <3>2 DEF HalfUsed
  <2>2. CASE t.block # NoBlock
    BY <2>2 DEF IsTable, GoodBlock
  <2> QED
    BY <2>1, <2>2
<1>3. Sound(s) /\ HalfUsed(s)
  BY <1>1, <1>2, StoreKeeps
<1>4. HashStore(t, key, v) = t \/ HashStore(t, key, v) = [t EXCEPT !.block = s]
  BY DEF HashStore
<1> HIDE DEF s
<1> DEFINE u == [t EXCEPT !.block = s]
<1>5. u = [capacity |-> t.capacity, length |-> t.length, array |-> t.array, block |-> s]
  BY DEF IsTable
<1>6. IsTable(u)
  BY <1>3, <1>5 DEF IsTable, GoodBlock
<1> QED
  BY <1>4, <1>6

\* A growing array leaves the block as good as it was.
LEMMA ArrayGrowKeeps ==
  ASSUME NEW t, IsTable(t), NEW k
  PROVE  IsTable(ArrayGrow(t, k))
<1> DEFINE c == NewCapacity(t, k)
           a == [i \in 1..c |-> IF i <= t.capacity THEN t.array[i]
                                ELSE IF i \in Index THEN HashLookup(t, NumberKey(i))
                                ELSE Nil]
           b == IF t.block = NoBlock THEN NoBlock ELSE Migrated(t.block, t.capacity, c)
           w == c % CapacityRange
<1>1. GoodBlock(b)
  BY MigratedKeeps DEF IsTable, GoodBlock
<1>2. ArrayGrow(t, k) = [t EXCEPT !.capacity = w, !.array = a, !.block = b]
  BY DEF ArrayGrow
<1> HIDE DEF a, b, w
<1>3. ArrayGrow(t, k) = [capacity |-> w, length |-> t.length, array |-> a, block |-> b]
  BY <1>2 DEF IsTable
<1> QED
  BY <1>1, <1>3 DEF IsTable

\* The state of the loop that extends the border.
IsRun(s) == s = [table |-> s.table, border |-> s.border] /\ IsTable(s.table) /\ s.border \in Nat

\* So does a turn of the loop that extends the border ...
LEMMA ExtendOnceKeeps ==
  ASSUME NEW s, IsRun(s)
  PROVE  IsRun(ExtendOnce(s))
<1> DEFINE next == s.border + 1
           u == ArrayGrow(s.table, next)
<1>1. IsTable(u)
  BY ArrayGrowKeeps DEF IsRun
<1>2. \/ ExtendOnce(s) = s
      \/ ExtendOnce(s) = [s EXCEPT !.border = next]
      \/ ExtendOnce(s) = [s EXCEPT !.table = u]
  BY DEF ExtendOnce
<1> HIDE DEF u
<1>3. next \in Nat
  BY DEF IsRun
<1> HIDE DEF next
<1>4. /\ [s EXCEPT !.border = next] = [table |-> s.table, border |-> next]
      /\ [s EXCEPT !.table = u] = [table |-> u, border |-> s.border]
  BY DEF IsRun
<1>5. IsRun([s EXCEPT !.border = next]) /\ IsRun([s EXCEPT !.table = u])
  BY <1>1, <1>3, <1>4 DEF IsRun
<1> QED
  BY <1>2, <1>5

\* The turns of that loop.
Turns(t, k, g, m) ==
  g = [n \in 0..m |-> IF n = 0 THEN [table |-> t, border |-> k] ELSE ExtendOnce(g[n - 1])]

\* The recursive definition of that loop has a function.
LEMMA TurnsExist ==
  ASSUME NEW t, NEW k, NEW m \in Nat
  PROVE  \E g : Turns(t, k, g, m)
<1> DEFINE T == {l \in 0..m : ~ \E g : Turns(t, k, g, l)}
           first == [table |-> t, border |-> k]
           Next1(h) == ExtendOnce(h)
           Is(g, l) == g = [n \in 0..l |-> IF n = 0 THEN first ELSE Next1(g[n - 1])]
<1>1. \A g, l : Turns(t, k, g, l) <=> Is(g, l)
  BY DEF Turns
<1> HIDE DEF Next1, first
<1> SUFFICES ASSUME T # {} PROVE FALSE
  OBVIOUS
<1>2. PICK x \in T : \A y \in T : x <= y
  <2>1. T \in SUBSET Nat
    OBVIOUS
  <2> QED
    BY <2>1, Least
<1>3. ~ \E g : Is(g, x)
  BY <1>1, <1>2
<1>4. x # 0
  <2>1. CASE x = 0
    <3> DEFINE h == [n \in 0..0 |-> first]
    <3>1. h = [n \in 0..0 |-> IF n = 0 THEN first ELSE Next1(h[n - 1])]
      OBVIOUS
    <3> QED
      BY <1>3, <2>1, <3>1
  <2> QED
    BY <2>1
<1>5. x - 1 \in 0..m /\ x - 1 \notin T
  BY <1>2, <1>4
<1>6. PICK g : Is(g, x - 1)
  BY <1>1, <1>5
<1> DEFINE h == [n \in 0..x |-> IF n = 0 THEN first ELSE Next1(g[n - 1])]
<1>7. \A n \in 0..(x - 1) : h[n] = g[n]
  BY <1>2, <1>6
<1>8. \A n \in 0..x : h[n] = IF n = 0 THEN first ELSE Next1(g[n - 1])
  OBVIOUS
<1>9. h = [n \in 0..x |-> h[n]]
  OBVIOUS
<1> HIDE DEF h
<1>10. \A n \in 0..x : n # 0 => n - 1 \in 0..(x - 1)
  BY <1>2
<1>11. \A n \in 0..x : h[n] = IF n = 0 THEN first ELSE Next1(h[n - 1])
  BY <1>7, <1>8, <1>10
<1>12. Is(h, x)
  BY <1>9, <1>11
<1> QED
  BY <1>3, <1>12

\* ... and so does the loop ...
LEMMA ExtendBorderKeeps ==
  ASSUME NEW t, IsTable(t), NEW k \in Nat
  PROVE  IsTable(ExtendBorder(t, k))
<1> DEFINE m == 2 * MaxIndex
           g == CHOOSE h : Turns(t, k, h, m)
           last == g[m]
<1>1. m \in Nat
  BY StorageAssumption
<1>2. Turns(t, k, g, m)
  BY <1>1, TurnsExist
<1>3. ExtendBorder(t, k) = [last.table EXCEPT !.length = last.border]
  BY DEF ExtendBorder, Turns
<1> HIDE DEF g, m
<1> DEFINE T == {n \in 0..m : ~IsRun(g[n])}
<1>4. T = {}
  <2> SUFFICES ASSUME T # {} PROVE FALSE
    OBVIOUS
  <2>1. PICK x \in T : \A y \in T : x <= y
    <3>1. T \in SUBSET Nat
      BY <1>1
    <3> QED
      BY <3>1, Least
  <2>2. CASE x = 0
    <3>1. g[0] = [table |-> t, border |-> k]
      BY <1>1, <1>2 DEF Turns
    <3> QED
      BY <2>1, <2>2, <3>1 DEF IsRun
  <2>3. CASE x # 0
    <3>1. x - 1 \in 0..m /\ x - 1 \notin T
      BY <1>1, <2>1, <2>3
    <3>2. IsRun(g[x - 1])
      BY <3>1
    <3>3. g[x] = ExtendOnce(g[x - 1])
      BY <1>2, <2>1, <2>3 DEF Turns
    <3> QED
      BY <2>1, <3>2, <3>3, ExtendOnceKeeps
  <2> QED
    BY <2>2, <2>3
<1>5. IsRun(last)
  BY <1>1, <1>4
<1> HIDE DEF last
<1> DEFINE u == last.table
           n == last.border
<1>6. IsTable(u) /\ n \in Nat
  BY <1>5 DEF IsRun
<1>7. ExtendBorder(t, k) = [u EXCEPT !.length = n]
  BY <1>3
<1> HIDE DEF u, n
<1>8. ExtendBorder(t, k) = [capacity |-> u.capacity, length |-> n, array |-> u.array,
                            block |-> u.block]
  BY <1>6, <1>7 DEF IsTable
<1> QED
  BY <1>6, <1>8 DEF IsTable

\* ... the store into the array part that runs it ...
LEMMA ArrayStoreKeeps ==
  ASSUME NEW t, IsTable(t), NEW k \in Nat, k >= 1, NEW v
  PROVE  IsTable(ArrayStore(t, k, v))
<1> DEFINE stored == [t EXCEPT !.array[k] = v]
           a == [t.array EXCEPT ![k] = v]
<1>1. stored = [t EXCEPT !.array = a]
  OBVIOUS
<1> HIDE DEF a
<1>2. stored = [capacity |-> t.capacity, length |-> t.length, array |-> a, block |-> t.block]
  BY <1>1 DEF IsTable
<1>3. \/ ArrayStore(t, k, v) = stored
      \/ ArrayStore(t, k, v) = [stored EXCEPT !.length = k - 1]
      \/ ArrayStore(t, k, v) = ExtendBorder(stored, k)
  BY DEF ArrayStore
<1> HIDE DEF stored
<1>4. IsTable(stored)
  BY <1>2 DEF IsTable
<1>5. k - 1 \in Nat
  OBVIOUS
<1> DEFINE n == k - 1
           u == [stored EXCEPT !.length = n]
<1> HIDE DEF n
<1>6. u = [capacity |-> t.capacity, length |-> n, array |-> a, block |-> t.block]
  BY <1>2
<1>7. IsTable(u)
  BY <1>5, <1>6 DEF IsTable, n
<1>8. IsTable(ExtendBorder(stored, k))
  BY <1>4, ExtendBorderKeeps
<1> QED
  BY <1>3, <1>4, <1>7, <1>8 DEF n

\* ... and the whole of __builtin_table_set.
LEMMA SetInKeeps ==
  ASSUME NEW t, IsTable(t), NEW key \in RawKeys, NEW v
  PROVE  IsTable(SetIn(t, key, v))
<1> DEFINE k == IndexOf(key)
           g == ArrayGrow(t, k)
<1>1. k \in Nat
  <2>1. CASE key \in Numbers
    <3>1. PICK i \in 1..MaxIndex : key = <<"num", i, "-">>
      BY <2>1 DEF Numbers, Index
    <3>2. k = i
      BY <3>1 DEF IndexOf
    <3> QED
      BY <3>2, StorageAssumption
  <2>2. CASE key \in RawNames
    BY <2>2, StorageAssumption DEF IndexOf
  <2> QED
    BY <2>1, <2>2 DEF RawKeys
<1>2. \/ k \in 1..t.capacity /\ SetIn(t, key, v) = ArrayStore(t, k, v)
      \/ k >= 1 /\ SetIn(t, key, v) = ArrayStore(g, k, v)
      \/ SetIn(t, key, v) = HashStore(t, key, v)
  BY DEF SetIn, InArray
<1>3. IsTable(g)
  BY ArrayGrowKeeps
<1> HIDE DEF g, k
<1>4. CASE k \in 1..t.capacity /\ SetIn(t, key, v) = ArrayStore(t, k, v)
  <2>1. k >= 1
    BY <1>4
  <2> QED
    BY <1>1, <1>4, <2>1, ArrayStoreKeeps
<1>5. CASE k >= 1 /\ SetIn(t, key, v) = ArrayStore(g, k, v)
  BY <1>1, <1>3, <1>5, ArrayStoreKeeps
<1>6. CASE SetIn(t, key, v) = HashStore(t, key, v)
  BY <1>6, HashStoreKeeps
<1> QED
  BY <1>2, <1>4, <1>5, <1>6

\* The numbers that are keys.
LEMMA NumberKeys ==
  ASSUME NEW i \in Index
  PROVE  NumberKey(i) \in RawKeys
  BY DEF NumberKey, RawKeys, Numbers

\* One turn of the loop that shifts the elements up, and its turns.
Shift1(h, n) ==
  LET at == length + 1 - n
  IN SetIn(h, NumberKey(at + 1), Get(h, NumberKey(at)))

Shifts(g, m) == g = [n \in 0..m |-> IF n = 0 THEN Table ELSE Shift1(g[n - 1], n)]

\* The recursive definition of the shift of table.insert has a function.
LEMMA ShiftsExist ==
  ASSUME NEW m \in Nat
  PROVE  \E g : Shifts(g, m)
<1> DEFINE T == {k \in 0..m : ~ \E g : Shifts(g, k)}
           first == Table
           Next1(h, n) == Shift1(h, n)
           Is(g, k) == g = [n \in 0..k |-> IF n = 0 THEN first ELSE Next1(g[n - 1], n)]
<1>1. \A g, k : Shifts(g, k) <=> Is(g, k)
  BY DEF Shifts
<1> HIDE DEF Next1, first
<1> SUFFICES ASSUME T # {} PROVE FALSE
  OBVIOUS
<1>2. PICK x \in T : \A y \in T : x <= y
  <2>1. T \in SUBSET Nat
    OBVIOUS
  <2> QED
    BY <2>1, Least
<1>3. ~ \E g : Is(g, x)
  BY <1>1, <1>2
<1>4. x # 0
  <2>1. CASE x = 0
    <3> DEFINE h == [n \in 0..0 |-> first]
    <3>1. h = [n \in 0..0 |-> IF n = 0 THEN first ELSE Next1(h[n - 1], n)]
      OBVIOUS
    <3> QED
      BY <1>3, <2>1, <3>1
  <2> QED
    BY <2>1
<1>5. x - 1 \in 0..m /\ x - 1 \notin T
  BY <1>2, <1>4
<1>6. PICK g : Is(g, x - 1)
  BY <1>1, <1>5
<1> DEFINE h == [n \in 0..x |-> IF n = 0 THEN first ELSE Next1(g[n - 1], n)]
<1>7. \A n \in 0..(x - 1) : h[n] = g[n]
  BY <1>2, <1>6
<1>8. \A n \in 0..x : h[n] = IF n = 0 THEN first ELSE Next1(g[n - 1], n)
  OBVIOUS
<1>9. h = [n \in 0..x |-> h[n]]
  OBVIOUS
<1> HIDE DEF h
<1>10. \A n \in 0..x : n # 0 => n - 1 \in 0..(x - 1)
  BY <1>2
<1>11. \A n \in 0..x : h[n] = IF n = 0 THEN first ELSE Next1(h[n - 1], n)
  BY <1>7, <1>8, <1>10
<1>12. Is(h, x)
  BY <1>9, <1>11
<1> QED
  BY <1>3, <1>12

\* Shifting up stores keys from the position to the length and one.
LEMMA ShiftUpKeeps ==
  ASSUME IsTable(Table), length \in Nat, length + 1 \in Index, NEW p \in Index
  PROVE  IsTable(ShiftUp(p))
<1> DEFINE g == CHOOSE h : Shifts(h, MaxIndex)
           m == IF p <= length THEN length + 1 - p ELSE 0
<1>1. MaxIndex \in Nat
  BY StorageAssumption
<1>2. Shifts(g, MaxIndex)
  BY <1>1, ShiftsExist
<1>3. ShiftUp(p) = g[m]
  BY DEF ShiftUp, Shifts, Shift1
<1> HIDE DEF g
<1>4. m \in 0..MaxIndex /\ \A n \in 1..m : length + 1 - n + 1 \in Index
  BY <1>1 DEF Index
<1> HIDE DEF m
<1> DEFINE T == {n \in 0..m : ~IsTable(g[n])}
<1>5. T = {}
  <2> SUFFICES ASSUME T # {} PROVE FALSE
    OBVIOUS
  <2>1. PICK x \in T : \A y \in T : x <= y
    <3>1. T \in SUBSET Nat
      BY <1>4
    <3> QED
      BY <3>1, Least
  <2>2. x \in 0..MaxIndex
    BY <1>1, <1>4, <2>1
  <2>3. CASE x = 0
    <3>1. g[0] = Table
      BY <1>2, <2>2, <2>3 DEF Shifts
    <3> QED
      BY <2>1, <2>3, <3>1
  <2>4. CASE x # 0
    <3>1. x - 1 \in 0..m /\ x \in 1..m /\ x - 1 \notin T
      BY <1>4, <2>1, <2>4
    <3>2. IsTable(g[x - 1])
      BY <3>1
    <3>3. g[x] = Shift1(g[x - 1], x)
      BY <1>2, <2>2, <2>4 DEF Shifts
    <3>4. NumberKey(length + 1 - x + 1) \in RawKeys
      BY <1>4, <3>1, NumberKeys
    <3>5. IsTable(Shift1(g[x - 1], x))
      BY <3>2, <3>4, SetInKeeps DEF Shift1
    <3> QED
      BY <2>1, <3>3, <3>5
  <2> QED
    BY <2>3, <2>4
<1>6. m \in 0..m
  BY <1>4
<1> QED
  BY <1>3, <1>5, <1>6

-----------------------------------------------------------------------------
(***************************************************************************)
(* The invariant.                                                          *)
(***************************************************************************)
\* The header words of a state are those of its table.
LEMMA TableOf == IsTable(Table) <=> BlockInv
  BY DEF IsTable, Table, BlockInv

\* The words of a table are those of its record.
LEMMA BecomeKeeps ==
  ASSUME NEW t, IsTable(t), Become(t)
  PROVE  BlockInv'
  BY DEF IsTable, Become, BlockInv, GoodBlock, Sound, IsBlock, HalfUsed

\* table.remove leaves the block alone.
LEMMA RemoveKeeps ==
  ASSUME BlockInv, NEW pos, Remove(pos)
  PROVE  BlockInv'
<1> DEFINE p == RemovePosition(pos)
<1>1. block' = block
  BY DEF Remove, RemoveAt
<1>2. CASE p = 0 /\ UNCHANGED length
  BY <1>1, <1>2 DEF BlockInv
<1>3. CASE p > 0 /\ RemoveAt(p)
  <2>1. length >= 1
    BY <1>3 DEF RemovePosition, BlockInv
  <2>2. length' = length - 1
    BY <1>3 DEF RemoveAt
  <2> QED
    BY <1>1, <2>1, <2>2 DEF BlockInv
<1> QED
  BY <1>2, <1>3 DEF Remove

\* A new table has no block.
LEMMA Initial == Init => BlockInv
  BY DEF Init, BlockInv, GoodBlock

\* Every call keeps the block.
LEMMA Inductive == BlockInv /\ [Next]_vars => BlockInv'
<1> SUFFICES ASSUME BlockInv, [Next]_vars PROVE BlockInv'
  OBVIOUS
<1>1. IsTable(Table)
  BY TableOf
<1>2. ASSUME NEW key \in RawKeys, NEW v \in Cells, Set(key, v)
      PROVE  BlockInv'
  <2>1. IsTable(SetIn(Table, key, v))
    BY <1>1, SetInKeeps
  <2> QED
    BY <1>2, <2>1, BecomeKeeps DEF Set
<1>3. ASSUME NEW pos \in Positions, Remove(pos)
      PROVE  BlockInv'
  BY <1>3, RemoveKeeps
<1>4. ASSUME NEW pos \in Positions, NEW v \in Cells, Insert(pos, v)
      PROVE  BlockInv'
  <2> DEFINE p == InsertPosition(pos)
  <2>1. length + 1 \in Index /\ p \in Index
    BY <1>4 DEF Insert
  <2>2. Become(SetIn(ShiftUp(p), NumberKey(p), v))
    BY <1>4 DEF Insert
  <2> HIDE DEF p
  <2>3. IsTable(ShiftUp(p))
    BY <1>1, <2>1, ShiftUpKeeps DEF BlockInv
  <2>4. IsTable(SetIn(ShiftUp(p), NumberKey(p), v))
    BY <2>1, <2>3, SetInKeeps, NumberKeys
  <2> QED
    BY <2>2, <2>4, BecomeKeeps
<1>5. CASE UNCHANGED vars
  BY <1>5 DEF vars, BlockInv
<1> QED
  BY <1>2, <1>3, <1>4, <1>5 DEF Next

\* So it is kept always.
LEMMA Invariance == Spec => []BlockInv
  BY Initial, Inductive, PTL DEF Spec

-----------------------------------------------------------------------------
(***************************************************************************)
(* What it gives.                                                          *)
(***************************************************************************)
\* A search in a block at most half full ends.
LEMMA HalfEmpty ==
  ASSUME NEW b, Sound(b), HalfUsed(b)
  PROVE  b.used < Size(b)
  BY UsedCount DEF Sound, IsBlock, HalfUsed

\* A block with a right count that is half full has room to end every probe.
LEMMA StaysHalfFull == BlockInv => HalfFull
<1> SUFFICES ASSUME BlockInv, block # NoBlock PROVE HalfFull
  BY DEF HalfFull
<1>1. Sound(block) /\ HalfUsed(block)
  BY DEF BlockInv, GoodBlock
<1>2. {i \in Slots : block.slots[i].key # NoKey} = Used(block)
  BY DEF Slots, Used
<1>3. \A key \in RawKeys : ProbeEnds(block, Normalised(key))
  BY <1>1, HalfEmpty, WordsStored, EmptyEnds DEF Sound
<1> QED
  BY <1>1, <1>2, <1>3 DEF HalfFull, Sound, HalfUsed

\* A key that is chained to its slot is found there.
LEMMA StaysReachable == BlockInv => Reachable
<1> SUFFICES ASSUME BlockInv, NEW i \in Slots, block.slots[i].key # NoKey
             PROVE  Find(block, block.slots[i].key) = i
  BY DEF Reachable
<1>1. block # NoBlock /\ i \in Used(block)
  BY DEF Slots, Used
<1>2. Sound(block)
  BY <1>1 DEF BlockInv, GoodBlock
<1>3. block.slots[i].key \in StoredKeys
  BY <1>1, <1>2 DEF Sound, IsBlock, Used
<1> QED
  BY <1>1, <1>2, <1>3, SameKeys, FoundAt

\* A pooled literal is the only word of its text that its lookup may stop at
\* without comparing characters.
LEMMA GetkReads ==
  ASSUME NEW b, Sound(b), b.used < Size(b),
         NEW key \in StoredKeys, key[1] = "str", key[3] = "pool"
  PROVE  Getk(b, key) = Lookup(b, key)
<1> DEFINE n == Size(b)
           P(i) == GetkStops(b, key, i) /\ \A j \in 0..(i - 1) : ~GetkStops(b, key, j)
           e == CHOOSE i \in 0..(n - 1) : P(i)
<1>1. n \in Nat /\ n >= 2 /\ \A i \in 1..n : b.slots[i].key \in StoredKeys \cup {NoKey}
  BY DEF Sound, IsBlock
<1>2. PICK d \in 0..(n - 1) : FirstStop(b, key, d) /\ Find(b, key) = Probe(b, key, d)
  BY FindStops
<1>3. GetkStops(b, key, d)
  <2> DEFINE s == b.slots[Probe(b, key, d)].key
  <2>1. s \in StoredKeys \cup {NoKey}
    BY <1>1, <1>2, ProbeIn
  <2>2. s = NoKey \/ SameKey(s, key)
    BY <1>2 DEF FirstStop, Stops
  <2> HIDE DEF s
  <2>3. CASE s # NoKey /\ s # key
    <3>1. s[1] = "str" /\ s[2] = key[2]
      BY <2>2, <2>3 DEF SameKey, Seen
    <3>2. s = <<s[1], s[2], s[3]>> /\ key = <<key[1], key[2], key[3]>>
      BY <2>1, <2>3, KeysAre
    <3>3. s[3] # "pool"
      BY <2>3, <3>1, <3>2
    <3>4. NotPooled(s)
      BY <2>3, <3>1, <3>3 DEF NotPooled
    <3> QED
      BY <3>4 DEF GetkStops, s
  <2> QED
    BY <2>3 DEF GetkStops, s
<1>4. \E i \in 0..(n - 1) : P(i)
  <2> DEFINE T == {i \in 0..(n - 1) : GetkStops(b, key, i)}
  <2>1. T \in SUBSET Nat /\ T # {}
    BY <1>1, <1>3
  <2>2. PICK x \in T : \A y \in T : x <= y
    BY <2>1, Least
  <2>3. \A j \in 0..(x - 1) : ~GetkStops(b, key, j)
    BY <1>1, <2>2
  <2> QED
    BY <2>2, <2>3
<1>5. e \in 0..(n - 1) /\ P(e)
  BY <1>4
<1> DEFINE slot == b.slots[Probe(b, key, e)]
<1>6. Getk(b, key) = IF NotPooled(slot.key) THEN Lookup(b, key) ELSE slot.value
  BY DEF Getk
<1> HIDE DEF e
<1>7. CASE NotPooled(slot.key)
  BY <1>6, <1>7
<1>8. CASE ~NotPooled(slot.key)
  <2>1. slot.key = NoKey \/ slot.key = key
    BY <1>5, <1>8 DEF GetkStops
  <2>2. Stops(b, key, e)
    BY <2>1, SameKeys DEF Stops
  <2>3. e = d
    <3>1. ~(e < d)
      BY <1>1, <1>2, <1>5, <2>2 DEF FirstStop
    <3>2. ~(d < e)
      BY <1>1, <1>2, <1>3, <1>5
    <3> QED
      BY <1>1, <1>2, <1>5, <3>1, <3>2
  <2> QED
    BY <1>2, <1>6, <1>8, <2>3 DEF Lookup
<1> QED
  BY <1>7, <1>8

\* The lookup of a pooled word, first probe inline, reads as the general one.
LEMMA InlineGetkReads ==
  ASSUME NEW b, Sound(b), b.used < Size(b),
         NEW key \in StoredKeys, key[1] = "str", key[3] = "pool"
  PROVE  InlineGetk(b, key) = Lookup(b, key)
<1> DEFINE first == b.slots[Probe(b, key, 0)]
<1>1. CASE first.key = key
  <2>1. Size(b) \in Nat /\ Size(b) >= 2
    BY DEF Sound, IsBlock
  <2>2. FirstStop(b, key, 0)
    BY <1>1, SameKeys DEF FirstStop, Stops
  <2>3. Find(b, key) = Probe(b, key, 0)
    BY <2>1, <2>2, FindIs
  <2> QED
    BY <1>1, <2>3 DEF InlineGetk, Lookup
<1>2. CASE first.key # key
  BY <1>2, GetkReads DEF InlineGetk
<1> QED
  BY <1>1, <1>2

\* So every field read of a good block agrees.
LEMMA FieldsAgree == BlockInv => FieldReadAgrees
<1> SUFFICES ASSUME BlockInv, NEW key \in RawNames, block # NoBlock,
                    key[1] = "str", key[3] = "pool"
             PROVE  InlineGetk(block, key) = Lookup(block, key)
  BY DEF FieldReadAgrees
<1>1. Sound(block) /\ block.used < Size(block)
  BY HalfEmpty DEF BlockInv, GoodBlock
<1>2. Normalised(key) = key
  BY DEF Normalised
<1>3. key \in StoredKeys
  BY <1>2, WordsStored DEF RawKeys
<1> QED
  BY <1>1, <1>3, InlineGetkReads

\* At most half of the slots of the hash part are ever used, deleted keys
\* counted, so every probe ends, whatever is stored, deleted, grown or migrated
\* (comment table.s:408-411; __table_hash_store grows at half full).
THEOREM HalfFullCorrect == Spec => []HalfFull
  BY Invariance, StaysHalfFull, PTL

\* Every key in the hash part is found by the probe from its own hash, and in
\* one slot only: deleting (__table_hash_store), growing (__table_hash_grow) and
\* migrating (__table_array_grow) cut no probe chain.
THEOREM ReachableCorrect == Spec => []Reachable
  BY Invariance, StaysReachable, PTL

\* The lookup the compiler emits for t.field (emit_getk_lookup and
\* __builtin_table_getk), which compares words, reads what the general lookup
\* reads, which compares characters.
THEOREM FieldReadCorrect == Spec => []FieldReadAgrees
  BY Invariance, FieldsAgree, PTL

-----------------------------------------------------------------------------
(***************************************************************************)
(* The places a loop visits in a table: array cells, then slots.           *)
(***************************************************************************)
SlotCount(t) == IF t.block = NoBlock THEN 0 ELSE Size(t.block)

Places(t) == 1..(t.capacity + SlotCount(t))

KeyAt(t, p) == IF p <= t.capacity THEN NumberKey(p) ELSE t.block.slots[p - t.capacity].key

ValueAt(t, p) == IF p <= t.capacity THEN t.array[p] ELSE t.block.slots[p - t.capacity].value

LiveAt(t, p) == p \in Places(t) /\ ValueAt(t, p) # Nil

\* The array part has its cells, the number keys only, and the hash part holds
\* a value for no key of the array part, nor in an empty slot.
WholeTable(t) ==
  /\ IsTable(t)
  /\ t.capacity \in Nat
  /\ t.array = [i \in 1..t.capacity |-> t.array[i]]
  /\ \A i \in 1..t.capacity : i \notin Index => t.array[i] = Nil
  /\ t.block # NoBlock =>
       Busy(t.block) \cap ({NoKey} \cup {NumberKey(k) : k \in 1..t.capacity}) = {}

\* A loop at place q of a table: everything live up to q was visited once,
\* nothing past it was, and those kept are live.
Passed(t, q, seen, stay) ==
  /\ seen \in [Seens -> 0..1]
  /\ \A p \in Places(t) : LiveAt(t, p) =>
       seen[Seen(KeyAt(t, p))] = IF p <= q THEN 1 ELSE 0
  /\ \A k \in stay : \E p \in Places(t) : LiveAt(t, p) /\ Seen(KeyAt(t, p)) = k

\* The key at place q leads back to it.
Stands(t, q, key) ==
  /\ q \in Places(t) /\ key = KeyAt(t, q) /\ key \in StoredKeys
  /\ q > t.capacity => ~InArray(t, key)

\* The key false ends a loop as nil does: nothing is missed if there is none.
NoFalse == <<"bool", False, "-">> \notin RawNames

\* What every step of the program and its loops keeps.
LoopInv ==
  /\ WholeTable(Table)
  /\ visits \in [Seens -> 0..2]
  /\ \/ phase = "outside" /\ cursor = Start /\ visits = [k \in Seens |-> 0] /\ kept = {}
     \/ /\ phase = "body" /\ began \in Nat /\ began <= capacity
        /\ began = capacity =>
             \E q \in Places(Table) : Passed(Table, q, visits, kept) /\ Stands(Table, q, cursor)
     \/ /\ phase = "ended" /\ began \in Nat /\ began <= capacity
        /\ began = capacity =>
             /\ \A k \in Seens : visits[k] <= 1
             /\ NoFalse => \A k \in kept : visits[k] = 1

-----------------------------------------------------------------------------
(***************************************************************************)
(* What a store does to the places of a table.                             *)
(***************************************************************************)
\* A block is there.
LEMMA BlockThere ==
  ASSUME NEW b, IsBlock(b)
  PROVE  b # NoBlock
<1>1. b = [used |-> b.used, slots |-> b.slots]
  BY DEF IsBlock
<1>2. "used" \in DOMAIN b
  BY <1>1
<1>3. DOMAIN NoBlock = {}
  BY DEF NoBlock
<1> QED
  BY <1>2, <1>3

\* A number key in the array part, and what any other key is stored as.
LEMMA ArrayKeys ==
  ASSUME NEW key \in RawKeys, NEW t, t.capacity \in Nat
  PROVE  /\ InArray(t, key) => /\ IndexOf(key) \in Index /\ IndexOf(key) \in 1..t.capacity
                               /\ key = NumberKey(IndexOf(key))
         /\ ~InArray(t, key) => Normalised(key) \notin {NumberKey(k) : k \in 1..t.capacity}
         /\ IndexOf(key) \in Nat
         /\ IndexOf(key) >= 1 => IndexOf(key) \in Index
<1>1. CASE key \in Numbers
  <2>1. PICK i \in Index : key = <<"num", i, "-">>
    BY <1>1 DEF Numbers
  <2>2. IndexOf(key) = i /\ key = NumberKey(i) /\ i \in Nat /\ Normalised(key) = key
    BY <2>1, StorageAssumption DEF IndexOf, NumberKey, Index, Normalised
  <2>3. ASSUME ~InArray(t, key), NEW k \in 1..t.capacity, key = NumberKey(k) PROVE FALSE
    <3>1. k = i
      BY <2>1, <2>3 DEF NumberKey
    <3> QED
      BY <2>2, <2>3, <3>1 DEF InArray
  <2> QED
    BY <2>2, <2>3 DEF InArray
<1>2. CASE key \in RawNames
  <2>1. key[1] # "num" /\ IndexOf(key) = 0
    BY <1>2, StorageAssumption DEF IndexOf
  <2>2. Normalised(key)[1] # "num"
    BY <2>1 DEF Normalised
  <2>3. \A k : NumberKey(k)[1] = "num"
    BY DEF NumberKey
  <2> QED
    BY <2>1, <2>2, <2>3 DEF InArray
<1> QED
  BY <1>1, <1>2 DEF RawKeys

\* A key outside the array part is stored in the hash part.
LEMMA HashStoreWhole ==
  ASSUME NEW t, WholeTable(t), NEW key \in RawKeys, ~InArray(t, key), NEW v
  PROVE  LET u == HashStore(t, key, v)
         IN WholeTable(u) /\ u.capacity = t.capacity /\ u.array = t.array
<1> DEFINE k == Normalised(key)
           b == IF t.block = NoBlock THEN NewBlock(MinBlock) ELSE t.block
           s == Store(b, k, v)
           K == {NoKey} \cup {NumberKey(i) : i \in 1..t.capacity}
           u == [t EXCEPT !.block = s]
<1>1. k \in StoredKeys /\ t.capacity \in Nat
  BY WordsStored DEF WholeTable
<1>2. Sound(b) /\ HalfUsed(b) /\ Busy(b) \cap K = {}
  <2>1. CASE t.block = NoBlock
    <3>1. MinBlock \in Nat /\ MinBlock >= 2
      BY StorageAssumption
    <3>2. LET e == NewBlock(MinBlock)
          IN Sound(e) /\ Size(e) = MinBlock /\ e.used = 0 /\ Busy(e) = {}
      BY <3>1, NewBlockSound
    <3> QED
      BY <2>1, <3>1, <3>2 DEF HalfUsed
  <2>2. CASE t.block # NoBlock
    BY <2>2 DEF WholeTable, IsTable, GoodBlock
  <2> QED
    BY <2>1, <2>2
<1>3. Busy(s) \subseteq Busy(b) \cup {x \in StoredKeys : SameKey(x, k)}
  BY <1>1, <1>2, StoreKeeps
<1>4. HashStore(t, key, v) = t \/ HashStore(t, key, v) = u
  BY DEF HashStore
<1>5. ASSUME NEW x \in StoredKeys, SameKey(x, k), x \in K PROVE FALSE
  <2>1. x # NoKey
    BY <1>5, KeysAre
  <2>2. PICK i \in 1..t.capacity : x = NumberKey(i)
    BY <1>5, <2>1
  <2>3. x[1] = "num"
    BY <2>2 DEF NumberKey
  <2>4. x = k
    BY <1>5, <2>3 DEF SameKey
  <2> QED
    BY <1>1, <2>2, <2>4, ArrayKeys
<1> HIDE DEF s, K, k, b
<1>6. Busy(s) \cap K = {}
  BY <1>2, <1>3, <1>5
<1>7. u = [capacity |-> t.capacity, length |-> t.length, array |-> t.array, block |-> s]
  BY DEF WholeTable, IsTable
<1>8. IsTable(HashStore(t, key, v))
  BY HashStoreKeeps DEF WholeTable
<1>9. u.capacity = t.capacity /\ u.array = t.array /\ u.block = s
  BY <1>7
<1> HIDE DEF u
<1>10. ASSUME HashStore(t, key, v) = u PROVE WholeTable(u)
  BY <1>6, <1>8, <1>9, <1>10 DEF WholeTable, K
<1> QED
  BY <1>4, <1>9, <1>10

\* The array part grows beyond the key, and its size fits the capacity word.
LEMMA GrownSize ==
  ASSUME NEW t, t.capacity \in Nat, NEW k \in Index, k > t.capacity, k <= GrowLimit(t)
  PROVE  LET c == NewCapacity(t, k)
         IN c \in Nat /\ k <= c /\ c > t.capacity /\ c % CapacityRange = c /\ c = GrowLimit(t)
<1> DEFINE limit == GrowLimit(t)
           sizes == {c \in limit..(limit + 2 * k) : \E i \in 0..k : c = limit * 2^i}
           P(c) == k <= c /\ \A d \in sizes : k <= d => c <= d
           e == CHOOSE c \in sizes : P(c)
<1>1. /\ MaxIndex \in Nat /\ MinCapacity \in Nat /\ CapacityRange \in Nat /\ CapacityRange > 0
      /\ k \in Nat /\ k <= MaxIndex
      /\ MinCapacity < CapacityRange /\ 2 * MaxIndex < CapacityRange
  BY StorageAssumption, CapacityFits DEF Index
<1>2. limit \in Nat /\ limit < CapacityRange
  BY <1>1 DEF GrowLimit
<1>3. e = NewCapacity(t, k)
  BY DEF NewCapacity
<1> HIDE DEF limit
<1>4. limit \in sizes
  <2>1. limit = limit * 2^0 /\ 0 \in 0..k /\ limit \in limit..(limit + 2 * k)
    BY <1>1, <1>2
  <2> QED
    BY <2>1
<1>5. sizes \subseteq limit..(limit + 2 * k)
  OBVIOUS
<1> HIDE DEF sizes
<1>6. \A c \in sizes : c \in Nat /\ limit <= c
  BY <1>1, <1>2, <1>5
<1>7. P(limit)
  BY <1>6 DEF limit
<1>8. e \in sizes /\ P(e)
  BY <1>4, <1>7
<1> HIDE DEF e
<1>9. e \in Nat /\ k <= e /\ e <= limit /\ e = limit
  BY <1>2, <1>4, <1>6, <1>8 DEF limit
<1>10. e \in 0..(CapacityRange - 1)
  BY <1>1, <1>2, <1>9
<1>11. e % CapacityRange = e
  BY <1>1, <1>10, RemainderIs
<1> QED
  BY <1>1, <1>3, <1>9, <1>11 DEF limit

\* Growing keeps the table whole: what the array part takes over is no longer
\* in the hash part.
LEMMA ArrayGrowWhole ==
  ASSUME NEW t, WholeTable(t), NEW k \in Index, k > t.capacity, k <= GrowLimit(t)
  PROVE  LET u == ArrayGrow(t, k)
         IN WholeTable(u) /\ u.capacity > t.capacity /\ k <= u.capacity
<1> DEFINE c == NewCapacity(t, k)
           a == [i \in 1..c |-> IF i <= t.capacity THEN t.array[i]
                                ELSE IF i \in Index THEN HashLookup(t, NumberKey(i))
                                ELSE Nil]
           b == IF t.block = NoBlock THEN NoBlock ELSE Migrated(t.block, t.capacity, c)
           u == ArrayGrow(t, k)
<1>1. t.capacity \in Nat
  BY DEF WholeTable
<1>2. c \in Nat /\ k <= c /\ c > t.capacity /\ c % CapacityRange = c
  BY <1>1, GrownSize
<1>3. u = [t EXCEPT !.capacity = c % CapacityRange, !.array = a, !.block = b]
  BY DEF ArrayGrow
<1>4. IsTable(u)
  BY ArrayGrowKeeps DEF WholeTable
<1>5. \A i \in 1..c : i \notin Index => a[i] = Nil
  <2> SUFFICES ASSUME NEW i \in 1..c, i \notin Index PROVE a[i] = Nil
    OBVIOUS
  <2>1. CASE i <= t.capacity
    BY <1>1, <1>2, <2>1 DEF WholeTable
  <2>2. CASE ~(i <= t.capacity)
    BY <2>2
  <2> QED
    BY <2>1, <2>2
<1>6. a = [i \in 1..c |-> a[i]]
  OBVIOUS
<1>7. b # NoBlock => Busy(b) \cap ({NoKey} \cup {NumberKey(i) : i \in 1..c}) = {}
  <2> SUFFICES ASSUME t.block # NoBlock
               PROVE  Busy(b) \cap ({NoKey} \cup {NumberKey(i) : i \in 1..c}) = {}
    OBVIOUS
  <2>1. Sound(t.block) /\ HalfUsed(t.block)
    BY DEF WholeTable, IsTable, GoodBlock
  <2>2. Busy(b) \subseteq Busy(t.block) \ {NumberKey(i) : i \in (t.capacity + 1)..c}
    BY <2>1, MigratedKeeps
  <2>3. Busy(t.block) \cap ({NoKey} \cup {NumberKey(i) : i \in 1..t.capacity}) = {}
    BY DEF WholeTable
  <2>4. \A i \in 1..c : i \in 1..t.capacity \/ i \in (t.capacity + 1)..c
    BY <1>1, <1>2
  <2> HIDE DEF b, c
  <2> QED
    BY <2>2, <2>3, <2>4
<1> HIDE DEF a, b, c
<1>8. u = [capacity |-> c, length |-> t.length, array |-> a, block |-> b]
  BY <1>2, <1>3 DEF WholeTable, IsTable
<1>9. u.capacity = c /\ u.array = a /\ u.block = b
  BY <1>8
<1> HIDE DEF u
<1>10. WholeTable(u)
  BY <1>2, <1>4, <1>5, <1>6, <1>7, <1>9 DEF WholeTable
<1> QED
  BY <1>2, <1>9, <1>10 DEF u

\* The loop that extends the border of t, in the array part it stores to.
Extending(t, s) ==
  /\ IsRun(s) /\ WholeTable(s.table)
  /\ s.border \in 1..s.table.capacity
  /\ s.table = t \/ s.table.capacity > t.capacity

\* A turn of the loop that extends the border keeps the table whole ...
LEMMA ExtendOnceWhole ==
  ASSUME NEW t, t.capacity \in Nat, NEW s, Extending(t, s)
  PROVE  Extending(t, ExtendOnce(s))
<1> DEFINE a == s.table
           n == s.border
           next == n + 1
           u == ArrayGrow(a, next)
<1>1. /\ WholeTable(a) /\ a.capacity \in Nat /\ n \in Nat /\ n >= 1 /\ n <= a.capacity
      /\ a.capacity >= t.capacity
      /\ s = [table |-> a, border |-> n]
  <2>1. WholeTable(a) /\ n \in 1..a.capacity /\ (a = t \/ a.capacity > t.capacity)
    BY DEF Extending
  <2>2. s = [table |-> a, border |-> n]
    BY DEF Extending, IsRun
  <2>3. a.capacity \in Nat
    BY <2>1 DEF WholeTable
  <2>4. a.capacity >= t.capacity
    BY <2>1, <2>3
  <2> HIDE DEF a, n
  <2> QED
    BY <2>1, <2>2, <2>3, <2>4
<1>2. IsRun(ExtendOnce(s))
  BY ExtendOnceKeeps DEF Extending
<1>3. CASE ExtendOnce(s) = s
  BY <1>3
<1>4. CASE n < a.capacity /\ ExtendOnce(s) = [s EXCEPT !.border = next]
  <2>1. ExtendOnce(s) = [table |-> a, border |-> next]
    BY <1>1, <1>4
  <2>2. next \in 1..a.capacity
    BY <1>1, <1>4
  <2> QED
    BY <1>2, <2>1, <2>2 DEF Extending
<1>5. CASE ~(n < a.capacity) /\ next \in Index /\ ExtendOnce(s) = [s EXCEPT !.table = u]
  <2>1. n = a.capacity /\ next > a.capacity
    BY <1>1, <1>5
  <2>2. next <= GrowLimit(a)
    <3>1. MinCapacity \in Nat
      BY StorageAssumption
    <3> QED
      BY <1>1, <2>1, <3>1 DEF GrowLimit
  <2>3. WholeTable(u) /\ u.capacity > a.capacity
    BY <1>1, <1>5, <2>1, <2>2, ArrayGrowWhole
  <2>4. u.capacity \in Nat
    BY <2>3 DEF WholeTable
  <2> HIDE DEF u
  <2>5. ExtendOnce(s) = [table |-> u, border |-> n]
    BY <1>1, <1>5
  <2>6. n \in 1..u.capacity /\ u.capacity > t.capacity
    BY <1>1, <2>1, <2>3, <2>4
  <2>7. ExtendOnce(s).table = u /\ ExtendOnce(s).border = n
    BY <2>5
  <2> QED
    BY <1>2, <2>3, <2>6, <2>7 DEF Extending
<1>6. \/ ExtendOnce(s) = s
      \/ n < a.capacity /\ ExtendOnce(s) = [s EXCEPT !.border = next]
      \/ ~(n < a.capacity) /\ next \in Index /\ ExtendOnce(s) = [s EXCEPT !.table = u]
  BY DEF ExtendOnce
<1> QED
  BY <1>3, <1>4, <1>5, <1>6

\* ... and the loop changes no place, unless the array grows.
LEMMA ExtendBorderWhole ==
  ASSUME NEW t, WholeTable(t), NEW k \in 1..t.capacity
  PROVE  LET u == ExtendBorder(t, k)
         IN /\ WholeTable(u)
            /\ \/ u.capacity > t.capacity
               \/ u.capacity = t.capacity /\ u.array = t.array /\ u.block = t.block
<1> DEFINE m == 2 * MaxIndex
           g == CHOOSE h : Turns(t, k, h, m)
           last == g[m]
           u == ExtendBorder(t, k)
<1>1. m \in Nat /\ t.capacity \in Nat /\ k \in Nat
  BY StorageAssumption DEF WholeTable
<1>2. Turns(t, k, g, m)
  BY <1>1, TurnsExist
<1>3. u = [last.table EXCEPT !.length = last.border]
  BY DEF ExtendBorder, Turns
<1>4. IsTable(u)
  BY <1>1, ExtendBorderKeeps DEF WholeTable
<1> HIDE DEF g, m, u
<1> DEFINE T == {n \in 0..m : ~Extending(t, g[n])}
<1>5. T = {}
  <2> SUFFICES ASSUME T # {} PROVE FALSE
    OBVIOUS
  <2>1. PICK x \in T : \A y \in T : x <= y
    <3>1. T \in SUBSET Nat
      BY <1>1
    <3> QED
      BY <3>1, Least
  <2>2. CASE x = 0
    <3>1. g[0] = [table |-> t, border |-> k]
      BY <1>1, <1>2 DEF Turns
    <3>2. IsRun(g[0])
      BY <1>1, <3>1 DEF IsRun, WholeTable
    <3> QED
      BY <2>1, <2>2, <3>1, <3>2 DEF Extending
  <2>3. CASE x # 0
    <3>1. x - 1 \in 0..m /\ x - 1 \notin T
      BY <1>1, <2>1, <2>3
    <3>2. Extending(t, g[x - 1])
      BY <3>1
    <3>3. g[x] = ExtendOnce(g[x - 1])
      BY <1>2, <2>1, <2>3 DEF Turns
    <3> QED
      BY <1>1, <2>1, <3>2, <3>3, ExtendOnceWhole
  <2> QED
    BY <2>2, <2>3
<1>6. Extending(t, last)
  BY <1>1, <1>5
<1> HIDE DEF last
<1> DEFINE a == last.table
           n == last.border
<1>7. WholeTable(a) /\ (a = t \/ a.capacity > t.capacity)
  BY <1>6 DEF Extending
<1>8. u = [a EXCEPT !.length = n]
  BY <1>3
<1> HIDE DEF a, n
<1>9. u = [capacity |-> a.capacity, length |-> n, array |-> a.array, block |-> a.block]
  BY <1>7, <1>8 DEF WholeTable, IsTable
<1>10. u.capacity = a.capacity /\ u.array = a.array /\ u.block = a.block
  BY <1>9
<1>11. WholeTable(u)
  BY <1>4, <1>7, <1>10 DEF WholeTable
<1> QED
  BY <1>7, <1>10, <1>11 DEF u

\* A store into the array part changes one place, unless the array grows.
LEMMA ArrayStoreWhole ==
  ASSUME NEW t, WholeTable(t), NEW k \in 1..t.capacity, k \in Index, NEW v
  PROVE  LET u == ArrayStore(t, k, v)
         IN /\ WholeTable(u)
            /\ \/ u.capacity > t.capacity
               \/ /\ u.capacity = t.capacity /\ u.block = t.block
                  /\ u.array = [t.array EXCEPT ![k] = v]
<1> DEFINE stored == [t EXCEPT !.array[k] = v]
           a == [t.array EXCEPT ![k] = v]
           n == k - 1
           r == [stored EXCEPT !.length = n]
<1>1. /\ IsTable(t) /\ t.capacity \in Nat /\ t.array = [i \in 1..t.capacity |-> t.array[i]]
      /\ k \in Nat /\ k >= 1
  BY DEF WholeTable
<1>2. \/ ArrayStore(t, k, v) = stored
      \/ ArrayStore(t, k, v) = r
      \/ ArrayStore(t, k, v) = ExtendBorder(stored, k)
  BY DEF ArrayStore
<1>3. stored = [t EXCEPT !.array = a]
  OBVIOUS
<1>4. a = [i \in 1..t.capacity |-> IF i = k THEN v ELSE t.array[i]]
  BY <1>1
<1> HIDE DEF a
<1>5. stored = [capacity |-> t.capacity, length |-> t.length, array |-> a, block |-> t.block]
  BY <1>1, <1>3 DEF IsTable
<1> HIDE DEF stored
<1>6. n \in Nat
  BY <1>1
<1> HIDE DEF n
<1>7. r = [capacity |-> t.capacity, length |-> n, array |-> a, block |-> t.block]
  BY <1>5
<1> HIDE DEF r
<1>8. /\ a = [i \in 1..t.capacity |-> a[i]]
      /\ \A i \in 1..t.capacity : i \notin Index => a[i] = Nil
  BY <1>4 DEF WholeTable
<1>9. \A x : x = stored \/ x = r =>
        /\ WholeTable(x) /\ x.capacity = t.capacity /\ x.block = t.block /\ x.array = a
  <2> SUFFICES ASSUME NEW x, x = stored \/ x = r
               PROVE  WholeTable(x) /\ x.capacity = t.capacity /\ x.block = t.block /\ x.array = a
    OBVIOUS
  <2>1. /\ x.capacity = t.capacity /\ x.block = t.block /\ x.array = a /\ x.length \in Nat
        /\ x = [capacity |-> x.capacity, length |-> x.length, array |-> x.array,
                block |-> x.block]
    BY <1>1, <1>5, <1>6, <1>7 DEF IsTable
  <2>2. IsTable(x)
    BY <1>1, <2>1 DEF IsTable
  <2> QED
    BY <1>1, <1>8, <2>1, <2>2 DEF WholeTable
<1>10. CASE ArrayStore(t, k, v) = stored \/ ArrayStore(t, k, v) = r
  BY <1>9, <1>10 DEF a
<1>11. CASE ArrayStore(t, k, v) = ExtendBorder(stored, k)
  <2>1. WholeTable(stored) /\ stored.capacity = t.capacity /\ stored.block = t.block
        /\ stored.array = a
    BY <1>9
  <2>2. LET u == ExtendBorder(stored, k)
        IN /\ WholeTable(u)
           /\ \/ u.capacity > stored.capacity
              \/ /\ u.capacity = stored.capacity /\ u.array = stored.array
                 /\ u.block = stored.block
    BY <2>1, ExtendBorderWhole
  <2> QED
    BY <1>11, <2>1, <2>2 DEF a
<1> QED
  BY <1>2, <1>10, <1>11

\* Unless the array part grows, a store writes one array cell or the hash part.
LEMMA SetWhole ==
  ASSUME NEW t, WholeTable(t), NEW key \in RawKeys, NEW v
  PROVE  LET u == SetIn(t, key, v)
         IN /\ WholeTable(u)
            /\ \/ u.capacity > t.capacity
               \/ /\ u.capacity = t.capacity /\ InArray(t, key) /\ u.block = t.block
                  /\ u.array = [t.array EXCEPT ![IndexOf(key)] = v]
               \/ /\ u.capacity = t.capacity /\ ~InArray(t, key) /\ u.array = t.array
                  /\ u = HashStore(t, key, v)
<1> DEFINE k == IndexOf(key)
           g == ArrayGrow(t, k)
           u == SetIn(t, key, v)
<1>1. t.capacity \in Nat
  BY DEF WholeTable
<1>2. /\ InArray(t, key) => k \in Index /\ k \in 1..t.capacity
      /\ k \in Nat /\ (k >= 1 => k \in Index)
      /\ ~InArray(t, key) /\ k >= 1 => k > t.capacity
  <2>1. ~InArray(t, key) => k \notin 1..t.capacity
    BY DEF InArray
  <2>2. k \in Nat /\ (k >= 1 => k \in Index) /\ (InArray(t, key) => k \in Index /\ k \in 1..t.capacity)
    BY <1>1, ArrayKeys
  <2> HIDE DEF k
  <2> QED
    BY <1>1, <2>1, <2>2
<1>3. \/ InArray(t, key) /\ u = ArrayStore(t, k, v)
      \/ ~InArray(t, key) /\ k >= 1 /\ k <= GrowLimit(t) /\ u = ArrayStore(g, k, v)
      \/ ~InArray(t, key) /\ u = HashStore(t, key, v)
  BY DEF SetIn
<1>4. CASE InArray(t, key) /\ u = ArrayStore(t, k, v)
  <2> HIDE DEF k
  <2>1. LET x == ArrayStore(t, k, v)
        IN /\ WholeTable(x)
           /\ \/ x.capacity > t.capacity
              \/ /\ x.capacity = t.capacity /\ x.block = t.block
                 /\ x.array = [t.array EXCEPT ![k] = v]
    BY <1>2, <1>4, ArrayStoreWhole
  <2> QED
    BY <1>4, <2>1 DEF k
<1>5. CASE ~InArray(t, key) /\ k >= 1 /\ k <= GrowLimit(t) /\ u = ArrayStore(g, k, v)
  <2>1. k \in Index /\ k > t.capacity
    BY <1>2, <1>5
  <2> HIDE DEF k
  <2>2. WholeTable(g) /\ g.capacity > t.capacity /\ k <= g.capacity
    BY <1>5, <2>1, ArrayGrowWhole
  <2>3. g.capacity \in Nat
    BY <2>2 DEF WholeTable
  <2> HIDE DEF g
  <2>4. k \in 1..g.capacity
    BY <1>2, <1>5, <2>2, <2>3
  <2>5. LET x == ArrayStore(g, k, v)
        IN WholeTable(x) /\ (x.capacity > g.capacity \/ x.capacity = g.capacity)
    BY <2>1, <2>2, <2>4, ArrayStoreWhole
  <2>6. WholeTable(u) /\ (u.capacity > g.capacity \/ u.capacity = g.capacity)
    BY <1>5, <2>5
  <2>7. u.capacity \in Nat
    BY <2>6 DEF WholeTable
  <2> HIDE DEF u
  <2>8. u.capacity > t.capacity
    BY <1>1, <2>2, <2>3, <2>6, <2>7
  <2> QED
    BY <2>6, <2>8 DEF u
<1>6. CASE ~InArray(t, key) /\ u = HashStore(t, key, v)
  BY <1>6, HashStoreWhole
<1> QED
  BY <1>3, <1>4, <1>5, <1>6

-----------------------------------------------------------------------------
(***************************************************************************)
(* The places of a table, and the key that comes next.                     *)
(***************************************************************************)
\* Stored keys are normalised, and those Lua sees as one are the same key.
LEMMA SeenSame ==
  ASSUME NEW s \in StoredKeys, NEW key \in StoredKeys
  PROVE  /\ Normalised(s) = s /\ Seen(s) \in Seens
         /\ Seen(s) = Seen(key) => SameKey(s, key)
         /\ Seen(s) \in Int => s = NumberKey(Seen(s))
<1>1. ASSUME NEW x \in Numbers
      PROVE  Normalised(x) = x /\ Seen(x) \in Index /\ Seen(x) \in Int /\ x = NumberKey(Seen(x))
  <2>1. PICK i \in Index : x = <<"num", i, "-">>
    BY DEF Numbers
  <2> QED
    BY <2>1, StorageAssumption DEF Normalised, Seen, NumberKey, Index
<1>2. ASSUME NEW j \in RawNames
      PROVE  /\ Normalised(Normalised(j)) = Normalised(j)
             /\ Seen(Normalised(j)) = Seen(j) /\ Seen(j) \in Names /\ Seen(j) \notin Int
  BY StorageAssumption, LoopAssumption DEF Normalised, Seen
<1>3. \A x \in StoredKeys : x \in Numbers \/ \E j \in RawNames : x = Normalised(j)
  BY DEF StoredKeys
<1>4. \A j, k \in RawNames : Seen(j) = Seen(k) => SameKey(Normalised(j), Normalised(k))
  BY StorageAssumption, LoopAssumption
<1>5. CASE s \in Numbers
  <2>1. Normalised(s) = s /\ Seen(s) \in Seens /\ s = NumberKey(Seen(s)) /\ Seen(s) \in Int
    BY <1>1, <1>5 DEF Seens
  <2>2. CASE key \in Numbers
    <3>1. key = NumberKey(Seen(key))
      BY <1>1, <2>2
    <3> QED
      BY <2>1, <3>1 DEF SameKey
  <2>3. CASE key \notin Numbers
    BY <1>2, <1>3, <2>1, <2>3
  <2> QED
    BY <2>1, <2>2, <2>3
<1>6. CASE s \notin Numbers
  <2>1. PICK j \in RawNames : s = Normalised(j)
    BY <1>3, <1>6
  <2>2. Normalised(s) = s /\ Seen(s) \in Seens /\ Seen(s) \notin Int /\ Seen(s) = Seen(j)
    BY <1>2, <2>1 DEF Seens
  <2>3. CASE key \in Numbers
    BY <1>1, <2>2, <2>3
  <2>4. CASE key \notin Numbers
    <3>1. PICK k \in RawNames : key = Normalised(k)
      BY <1>3, <2>4
    <3>2. Seen(key) = Seen(k)
      BY <1>2, <3>1
    <3> QED
      BY <1>4, <2>1, <2>2, <3>1, <3>2
  <2> QED
    BY <2>2, <2>3, <2>4
<1> QED
  BY <1>5, <1>6

\* A place past the array part is a slot.
LEMMA SlotPlace ==
  ASSUME NEW t, WholeTable(t), NEW p \in Places(t), p > t.capacity
  PROVE  /\ t.block # NoBlock /\ Sound(t.block) /\ t.block.used < Size(t.block)
         /\ p - t.capacity \in 1..Size(t.block) /\ p \in Nat /\ t.capacity \in Nat
         /\ KeyAt(t, p) = t.block.slots[p - t.capacity].key
         /\ ValueAt(t, p) = t.block.slots[p - t.capacity].value
<1>1. t.capacity \in Nat
  BY DEF WholeTable
<1>2. SlotCount(t) \in Nat
  BY DEF SlotCount, WholeTable, IsTable, GoodBlock, Sound, IsBlock
<1>3. p \in Nat /\ p <= t.capacity + SlotCount(t)
  BY <1>1, <1>2 DEF Places
<1>4. SlotCount(t) # 0 /\ p - t.capacity \in 1..SlotCount(t)
  BY <1>1, <1>2, <1>3
<1>5. t.block # NoBlock /\ SlotCount(t) = Size(t.block)
  BY <1>4 DEF SlotCount
<1>6. Sound(t.block) /\ t.block.used < Size(t.block)
  BY <1>5, HalfEmpty DEF WholeTable, IsTable, GoodBlock
<1>7. ~(p <= t.capacity)
  BY <1>1, <1>3
<1> QED
  BY <1>1, <1>3, <1>4, <1>5, <1>6, <1>7 DEF KeyAt, ValueAt

\* The key of a live place.
LEMMA LivePlace ==
  ASSUME NEW t, WholeTable(t), NEW p, LiveAt(t, p)
  PROVE  /\ p \in Places(t) /\ p \in Nat /\ p >= 1
         /\ KeyAt(t, p) \in StoredKeys /\ Seen(KeyAt(t, p)) \in Seens
         /\ p <= t.capacity => Seen(KeyAt(t, p)) = p /\ p \in Index
         /\ p > t.capacity => /\ ~InArray(t, KeyAt(t, p))
                              /\ Seen(KeyAt(t, p)) \notin 1..t.capacity
                              /\ p - t.capacity \in Used(t.block)
<1>1. t.capacity \in Nat /\ p \in Places(t) /\ ValueAt(t, p) # Nil
  BY DEF WholeTable, LiveAt
<1>2. SlotCount(t) \in Nat
  BY DEF SlotCount, WholeTable, IsTable, GoodBlock, Sound, IsBlock
<1>3. p \in Nat /\ p >= 1
  BY <1>1, <1>2 DEF Places
<1>4. CASE p <= t.capacity
  <2>1. KeyAt(t, p) = NumberKey(p) /\ ValueAt(t, p) = t.array[p] /\ p \in 1..t.capacity
    BY <1>1, <1>3, <1>4 DEF KeyAt, ValueAt
  <2>2. p \in Index
    BY <1>1, <2>1 DEF WholeTable
  <2>3. NumberKey(p) \in StoredKeys /\ Seen(NumberKey(p)) = p
    BY <2>2 DEF NumberKey, StoredKeys, Numbers, Seen
  <2> QED
    BY <1>1, <1>3, <1>4, <2>1, <2>2, <2>3 DEF Seens
<1>5. CASE p > t.capacity
  <2> DEFINE b == t.block
             i == p - t.capacity
             s == b.slots[i].key
  <2>1. b # NoBlock /\ Sound(b) /\ i \in 1..Size(b) /\ KeyAt(t, p) = s /\ b.slots[i].value # Nil
    BY <1>1, <1>5, SlotPlace
  <2>2. s \in Busy(b)
    BY <2>1 DEF Busy
  <2>3. s # NoKey /\ \A k \in 1..t.capacity : s # NumberKey(k)
    BY <2>1, <2>2 DEF WholeTable
  <2>4. s \in StoredKeys /\ i \in Used(b)
    BY <2>1, <2>3 DEF Sound, IsBlock, Used
  <2> HIDE DEF s, i, b
  <2>5. Seen(s) \notin 1..t.capacity
    <3> SUFFICES ASSUME Seen(s) \in 1..t.capacity PROVE FALSE
      OBVIOUS
    <3>1. s = NumberKey(Seen(s))
      BY <1>1, <2>4, SeenSame
    <3> QED
      BY <2>3, <3>1
  <2>6. ~InArray(t, s)
    <3> SUFFICES ASSUME IndexOf(s) \in 1..t.capacity PROVE FALSE
      BY DEF InArray
    <3>1. Seen(s) = IndexOf(s)
      BY DEF IndexOf, Seen
    <3> QED
      BY <2>5, <3>1
  <2> QED
    BY <1>1, <1>3, <1>5, <2>1, <2>4, <2>5, <2>6, SeenSame DEF b, i
<1> QED
  BY <1>1, <1>3, <1>4, <1>5

\* A key is live at one place.
LEMMA OnePlace ==
  ASSUME NEW t, WholeTable(t), NEW p, NEW q, LiveAt(t, p), LiveAt(t, q),
         Seen(KeyAt(t, p)) = Seen(KeyAt(t, q))
  PROVE  p = q
<1>1. t.capacity \in Nat
  BY DEF WholeTable
<1>2. \A r : r = p \/ r = q =>
        /\ r \in Nat /\ r >= 1 /\ r \in Places(t) /\ KeyAt(t, r) \in StoredKeys
        /\ r <= t.capacity => Seen(KeyAt(t, r)) = r
        /\ r > t.capacity => /\ Seen(KeyAt(t, r)) \notin 1..t.capacity
                             /\ r - t.capacity \in Used(t.block)
  BY LivePlace
<1>3. CASE p <= t.capacity /\ q <= t.capacity
  BY <1>2, <1>3
<1>4. CASE p <= t.capacity /\ q > t.capacity
  <2>1. p \in 1..t.capacity /\ Seen(KeyAt(t, p)) = p
    BY <1>1, <1>2, <1>4
  <2> QED
    BY <1>2, <1>4, <2>1
<1>5. CASE p > t.capacity /\ q <= t.capacity
  <2>1. q \in 1..t.capacity /\ Seen(KeyAt(t, q)) = q
    BY <1>1, <1>2, <1>5
  <2> QED
    BY <1>2, <1>5, <2>1
<1>6. CASE p > t.capacity /\ q > t.capacity
  <2> DEFINE i == p - t.capacity
             j == q - t.capacity
  <2>1. /\ Sound(t.block) /\ i \in Used(t.block) /\ j \in Used(t.block)
        /\ KeyAt(t, p) = t.block.slots[i].key /\ KeyAt(t, q) = t.block.slots[j].key
    BY <1>2, <1>6, SlotPlace
  <2>2. SameKey(KeyAt(t, p), KeyAt(t, q))
    BY <1>2, SeenSame
  <2> HIDE DEF i, j
  <2>3. i = j
    BY <2>1, <2>2, Distinct
  <2> QED
    BY <1>1, <1>2, <2>3 DEF i, j
<1> QED
  BY <1>1, <1>2, <1>3, <1>4, <1>5, <1>6

\* key is that of the first live place past q, if there is one.
NextPlace(t, q, key) ==
  \/ key = Done /\ \A p \in Places(t) : LiveAt(t, p) => p <= q
  \/ \E p \in Places(t) :
       /\ LiveAt(t, p) /\ p > q /\ key = KeyAt(t, p)
       /\ \A r \in Places(t) : LiveAt(t, r) /\ r > q => p <= r

\* Any key a loop goes on to is that of a live place.
SomePlace(t, key) == key = Done \/ \E p \in Places(t) : LiveAt(t, p) /\ key = KeyAt(t, p)

\* The words of the table.
LEMMA TableFields ==
  /\ Table.capacity = capacity /\ Table.length = length
  /\ Table.array = array /\ Table.block = block
  BY DEF Table

\* The live slots are the live places past the array part.
LEMMA LiveSlots ==
  ASSUME WholeTable(Table)
  PROVE  /\ \A i \in Slots : Live(block.slots[i]) =>
              /\ i \in Nat /\ i >= 1 /\ LiveAt(Table, capacity + i)
              /\ KeyAt(Table, capacity + i) = block.slots[i].key
         /\ \A p \in Places(Table) : LiveAt(Table, p) /\ p > capacity =>
              /\ p - capacity \in Slots /\ Live(block.slots[p - capacity])
<1>1. capacity \in Nat
  BY TableFields DEF WholeTable
<1>2. ASSUME NEW i \in Slots, Live(block.slots[i])
      PROVE  /\ i \in Nat /\ i >= 1 /\ LiveAt(Table, capacity + i)
             /\ KeyAt(Table, capacity + i) = block.slots[i].key
  <2>1. block # NoBlock /\ Slots = 1..Size(block)
    BY DEF Slots
  <2>2. Size(block) \in Nat
    BY <2>1, TableFields DEF WholeTable, IsTable, GoodBlock, Sound, IsBlock
  <2>3. SlotCount(Table) = Size(block)
    BY <2>1, TableFields DEF SlotCount
  <2>4. i \in Nat /\ i >= 1 /\ capacity + i \in Places(Table) /\ ~(capacity + i <= capacity)
        /\ capacity + i - capacity = i
    BY <1>1, <2>1, <2>2, <2>3, TableFields DEF Places
  <2>5. /\ KeyAt(Table, capacity + i) = block.slots[i].key
        /\ ValueAt(Table, capacity + i) = block.slots[i].value
    <3> DEFINE p == capacity + i
    <3>1. /\ KeyAt(Table, p) = IF p <= capacity THEN NumberKey(p) ELSE block.slots[p - capacity].key
          /\ ValueAt(Table, p) = IF p <= capacity THEN array[p] ELSE block.slots[p - capacity].value
      BY TableFields DEF KeyAt, ValueAt
    <3>2. ~(p <= capacity) /\ p - capacity = i
      BY <1>1, <2>4
    <3> HIDE DEF p
    <3> QED
      BY <3>1, <3>2 DEF p
  <2> QED
    BY <1>2, <2>4, <2>5 DEF LiveAt, Live
<1>3. ASSUME NEW p \in Places(Table), LiveAt(Table, p), p > capacity
      PROVE  p - capacity \in Slots /\ Live(block.slots[p - capacity])
  <2>1. /\ block # NoBlock /\ p - capacity \in 1..Size(block)
        /\ ValueAt(Table, p) = block.slots[p - capacity].value
    BY <1>3, SlotPlace, TableFields
  <2>2. p - capacity \in Used(block)
    BY <1>3, LivePlace, TableFields
  <2> QED
    BY <1>3, <2>1, <2>2 DEF LiveAt, Live, Used, Slots
<1> QED
  BY <1>2, <1>3

\* A scan of the slots comes to a place of the table or ends.
LEMMA FromSlotAny ==
  ASSUME WholeTable(Table), NEW s
  PROVE  SomePlace(Table, FromSlot(s))
<1> DEFINE live == {i \in Slots : i >= s /\ Live(block.slots[i])}
           first == CHOOSE i \in live : \A j \in live : i <= j
<1>1. CASE live = {}
  BY <1>1 DEF FromSlot, SomePlace
<1>2. CASE live # {}
  <2>1. live \in SUBSET Nat
    BY LiveSlots
  <2>2. first \in live
    BY <1>2, <2>1, Least
  <2>3. FromSlot(s) = block.slots[first].key
    BY <1>2 DEF FromSlot
  <2>4. LiveAt(Table, capacity + first) /\ KeyAt(Table, capacity + first) = block.slots[first].key
    BY <2>2, LiveSlots
  <2> QED
    BY <2>3, <2>4 DEF SomePlace, LiveAt
<1> QED
  BY <1>1, <1>2

\* It comes to the next live place.
LEMMA FromSlotIs ==
  ASSUME WholeTable(Table), NEW s \in Nat, s >= 1
  PROVE  NextPlace(Table, capacity + s - 1, FromSlot(s))
<1> DEFINE live == {i \in Slots : i >= s /\ Live(block.slots[i])}
           first == CHOOSE i \in live : \A j \in live : i <= j
<1>1. capacity \in Nat
  BY TableFields DEF WholeTable
<1>2. ASSUME NEW p \in Places(Table), LiveAt(Table, p), p > capacity + s - 1
      PROVE  p - capacity \in live /\ p \in Nat
  <2>1. p \in Nat
    BY <1>2, LivePlace
  <2>2. p > capacity /\ p - capacity >= s
    BY <1>1, <1>2, <2>1
  <2> QED
    BY <1>2, <2>1, <2>2, LiveSlots
<1>3. CASE live = {}
  <2>1. FromSlot(s) = Done
    BY <1>3 DEF FromSlot
  <2>2. ASSUME NEW p \in Places(Table), LiveAt(Table, p) PROVE p <= capacity + s - 1
    <3>1. p \in Nat
      BY <2>2, LivePlace
    <3> QED
      BY <1>1, <1>2, <1>3, <2>2, <3>1
  <2> QED
    BY <2>1, <2>2 DEF NextPlace
<1>4. CASE live # {}
  <2>1. live \in SUBSET Nat
    BY LiveSlots
  <2>2. first \in live /\ \A j \in live : first <= j
    BY <1>4, <2>1, Least
  <2>3. FromSlot(s) = block.slots[first].key
    BY <1>4 DEF FromSlot
  <2>4. /\ LiveAt(Table, capacity + first)
        /\ KeyAt(Table, capacity + first) = block.slots[first].key
        /\ first \in Nat /\ first >= s
    BY <2>2, LiveSlots
  <2> HIDE DEF first, live
  <2>5. capacity + first > capacity + s - 1
    BY <1>1, <2>4
  <2>6. ASSUME NEW r \in Places(Table), LiveAt(Table, r), r > capacity + s - 1
        PROVE  capacity + first <= r
    <3>1. r - capacity \in live /\ r \in Nat
      BY <1>2, <2>6
    <3>2. first <= r - capacity
      BY <2>2, <3>1
    <3> QED
      BY <1>1, <2>4, <3>1, <3>2
  <2> QED
    BY <2>3, <2>4, <2>5, <2>6 DEF NextPlace, LiveAt
<1> QED
  BY <1>3, <1>4

\* The cells that hold a value are live places.
LEMMA LiveCells ==
  ASSUME WholeTable(Table), NEW j \in 1..capacity
  PROVE  /\ j \in Places(Table) /\ KeyAt(Table, j) = NumberKey(j)
         /\ LiveAt(Table, j) <=> array[j] # Nil
<1>1. capacity \in Nat /\ j <= capacity
  BY TableFields DEF WholeTable
<1>2. SlotCount(Table) \in Nat
  BY DEF SlotCount, WholeTable, IsTable, GoodBlock, Sound, IsBlock
<1>3. j \in Places(Table)
  BY <1>1, <1>2, TableFields DEF Places
<1>4. KeyAt(Table, j) = NumberKey(j) /\ ValueAt(Table, j) = array[j]
  BY <1>1, TableFields DEF KeyAt, ValueAt
<1> QED
  BY <1>3, <1>4 DEF LiveAt

\* So does a scan of the array part, which goes on into the slots.
LEMMA FromCellIs ==
  ASSUME WholeTable(Table), NEW i \in 0..capacity
  PROVE  NextPlace(Table, i, FromCell(i))
<1> DEFINE live == {j \in (i + 1)..capacity : array[j] # Nil}
           first == CHOOSE j \in live : \A h \in live : j <= h
<1>1. capacity \in Nat /\ i \in Nat /\ i <= capacity
  BY TableFields DEF WholeTable
<1>2. ASSUME NEW p \in Places(Table), LiveAt(Table, p), p > i, p <= capacity
      PROVE  p \in live
  <2>1. p \in Nat
    BY <1>2, LivePlace
  <2>2. p \in 1..capacity /\ p \in (i + 1)..capacity
    BY <1>1, <1>2, <2>1
  <2> QED
    BY <1>2, <2>2, LiveCells
<1>3. CASE live = {}
  <2>1. FromCell(i) = FromSlot(1)
    BY <1>3 DEF FromCell
  <2>2. NextPlace(Table, capacity, FromSlot(1))
    <3>1. capacity + 1 - 1 = capacity
      BY <1>1
    <3>2. NextPlace(Table, capacity + 1 - 1, FromSlot(1))
      BY FromSlotIs
    <3> QED
      BY <3>1, <3>2
  <2>3. ASSUME NEW p \in Places(Table), LiveAt(Table, p) PROVE p \in Nat /\ (p > i => p > capacity)
    <3>1. p \in Nat
      BY <2>3, LivePlace
    <3> QED
      BY <1>1, <1>2, <1>3, <2>3, <3>1
  <2>4. CASE FromSlot(1) = Done /\ \A p \in Places(Table) : LiveAt(Table, p) => p <= capacity
    <3>1. ASSUME NEW p \in Places(Table), LiveAt(Table, p) PROVE p <= i
      BY <1>1, <2>3, <2>4, <3>1
    <3> QED
      BY <2>1, <2>4, <3>1 DEF NextPlace
  <2>5. ASSUME NEW p \in Places(Table), LiveAt(Table, p), p > capacity,
               FromSlot(1) = KeyAt(Table, p),
               \A r \in Places(Table) : LiveAt(Table, r) /\ r > capacity => p <= r
        PROVE  NextPlace(Table, i, FromCell(i))
    <3>1. p > i
      BY <1>1, <2>3, <2>5
    <3>2. \A r \in Places(Table) : LiveAt(Table, r) /\ r > i => p <= r
      BY <2>3, <2>5
    <3> QED
      BY <2>1, <2>5, <3>1, <3>2 DEF NextPlace
  <2> QED
    BY <2>2, <2>4, <2>5 DEF NextPlace
<1>4. CASE live # {}
  <2>1. live \in SUBSET Nat
    BY <1>1
  <2>2. first \in live /\ \A h \in live : first <= h
    BY <1>4, <2>1, Least
  <2>3. FromCell(i) = NumberKey(first)
    BY <1>4 DEF FromCell
  <2>4. first \in 1..capacity /\ array[first] # Nil /\ first > i
    BY <1>1, <2>2
  <2> HIDE DEF first, live
  <2>5. LiveAt(Table, first) /\ KeyAt(Table, first) = NumberKey(first) /\ first \in Places(Table)
    BY <2>4, LiveCells
  <2>6. ASSUME NEW r \in Places(Table), LiveAt(Table, r), r > i
        PROVE  first <= r
    <3>1. r \in Nat
      BY <2>6, LivePlace
    <3>2. CASE r <= capacity
      BY <1>2, <2>2, <2>6, <3>2
    <3>3. CASE r > capacity
      BY <1>1, <2>4, <3>1, <3>3
    <3> QED
      BY <1>1, <3>1, <3>2, <3>3
  <2> QED
    BY <2>3, <2>4, <2>5, <2>6 DEF NextPlace
<1> QED
  BY <1>3, <1>4

\* Whatever key it is given, next() answers the key of a live place, or nil.
LEMMA NextKeyAny ==
  ASSUME WholeTable(Table), NEW key
  PROVE  SomePlace(Table, NextKey(key))
<1>1. \A i \in 0..capacity : SomePlace(Table, FromCell(i))
  BY FromCellIs DEF NextPlace, SomePlace
<1>2. capacity \in Nat
  BY TableFields DEF WholeTable
<1>3. InArray(Table, key) => IndexOf(key) \in 0..capacity
  BY <1>2, TableFields DEF InArray
<1>4. \A s : SomePlace(Table, FromSlot(s))
  BY FromSlotAny
<1>5. SomePlace(Table, Done)
  BY DEF SomePlace
<1>6. \/ NextKey(key) = FromCell(0)
      \/ InArray(Table, key) /\ NextKey(key) = FromCell(IndexOf(key))
      \/ NextKey(key) = Done
      \/ NextKey(key) = FromSlot(Find(block, Normalised(key)) + 1)
  BY DEF NextKey
<1>7. 0 \in 0..capacity
  BY <1>2
<1> QED
  BY <1>1, <1>3, <1>4, <1>5, <1>6, <1>7

\* A loop begins at the first live place.
LEMMA NextKeyFirst ==
  ASSUME WholeTable(Table)
  PROVE  NextPlace(Table, 0, NextKey(Start))
<1>1. capacity \in Nat
  BY TableFields DEF WholeTable
<1>2. NextKey(Start) = FromCell(0) /\ 0 \in 0..capacity
  BY <1>1 DEF NextKey
<1> QED
  BY <1>2, FromCellIs

\* Given the key of its place, a loop goes on to the next live one.
LEMMA NextKeyIs ==
  ASSUME WholeTable(Table), NEW q, NEW key, Stands(Table, q, key)
  PROVE  NextPlace(Table, q, NextKey(key)) /\ q \in Nat
<1>1. capacity \in Nat /\ q \in Places(Table) /\ key = KeyAt(Table, q)
  BY TableFields DEF WholeTable, Stands
<1>2. SlotCount(Table) \in Nat
  BY DEF SlotCount, WholeTable, IsTable, GoodBlock, Sound, IsBlock
<1>3. q \in Nat /\ q >= 1
  BY <1>1, <1>2, TableFields DEF Places
<1>4. CASE q <= capacity
  <2>1. q \in 1..capacity /\ q \in 0..capacity
    BY <1>1, <1>3, <1>4
  <2>2. key = NumberKey(q)
    BY <1>1, <2>1, LiveCells
  <2>3. IndexOf(key) = q
    BY <2>2 DEF IndexOf, NumberKey
  <2>4. InArray(Table, key)
    BY <2>1, <2>3, TableFields DEF InArray
  <2>5. key # Start
    BY StorageAssumption, LoopAssumption DEF Stands, StoredKeys
  <2>6. NextKey(key) = FromCell(q)
    BY <2>3, <2>4, <2>5 DEF NextKey
  <2> QED
    BY <1>3, <2>1, <2>6, FromCellIs
<1>5. CASE q > capacity
  <2> DEFINE i == q - capacity
  <2>1. key \in StoredKeys /\ ~InArray(Table, key)
    BY <1>5, TableFields DEF Stands
  <2>2. /\ block # NoBlock /\ Sound(block) /\ i \in 1..Size(block)
        /\ key = block.slots[i].key
    BY <1>1, <1>5, SlotPlace, TableFields
  <2>3. key # Start /\ key # NoKey /\ Normalised(key) = key /\ SameKey(key, key)
    BY <2>1, SeenSame, SameKeys, KeysAre, StorageAssumption, LoopAssumption DEF StoredKeys
  <2>4. i \in Used(block)
    BY <2>2, <2>3 DEF Used
  <2>5. Find(block, key) = i
    BY <2>1, <2>2, <2>3, <2>4, FoundAt
  <2>6. Has(block, key)
    BY <2>2, <2>3, <2>5 DEF Has
  <2>7. NextKey(key) = FromSlot(i + 1)
    BY <2>1, <2>2, <2>3, <2>5, <2>6 DEF NextKey
  <2>8. i + 1 \in Nat /\ i + 1 >= 1 /\ capacity + (i + 1) - 1 = q
    BY <1>1, <1>3, <1>5
  <2> HIDE DEF i
  <2>9. NextPlace(Table, capacity + (i + 1) - 1, FromSlot(i + 1))
    BY <2>8, FromSlotIs
  <2> QED
    BY <1>3, <2>7, <2>8, <2>9
<1> QED
  BY <1>1, <1>3, <1>4, <1>5

\* A slot is a place past the array part.
LEMMA PlaceOfSlot ==
  ASSUME NEW t, t.capacity \in Nat, t.block # NoBlock, Size(t.block) \in Nat,
         NEW i \in 1..Size(t.block)
  PROVE  /\ t.capacity + i \in Places(t)
         /\ KeyAt(t, t.capacity + i) = t.block.slots[i].key
         /\ ValueAt(t, t.capacity + i) = t.block.slots[i].value
<1> DEFINE p == t.capacity + i
<1>1. ~(p <= t.capacity) /\ p - t.capacity = i /\ i \in Nat
  OBVIOUS
<1>2. SlotCount(t) = Size(t.block)
  BY DEF SlotCount
<1>3. p \in Places(t)
  BY <1>2 DEF Places
<1> HIDE DEF p
<1>4. KeyAt(t, p) = t.block.slots[i].key /\ ValueAt(t, p) = t.block.slots[i].value
  BY <1>1 DEF KeyAt, ValueAt
<1> QED
  BY <1>3, <1>4 DEF p

\* Where a key that is there is.
LEMMA PresentAt ==
  ASSUME NEW t, WholeTable(t), NEW key \in Stored, Get(t, key) # Nil
  PROVE  /\ key \in RawKeys /\ key \in StoredKeys /\ Normalised(key) = key
         /\ \/ /\ InArray(t, key) /\ IndexOf(key) \in 1..t.capacity
               /\ LiveAt(t, IndexOf(key)) /\ KeyAt(t, IndexOf(key)) = key
               /\ Seen(key) = IndexOf(key)
            \/ /\ ~InArray(t, key) /\ t.block # NoBlock /\ Has(t.block, key)
               /\ Find(t.block, key) \in 1..Size(t.block)
               /\ LiveAt(t, t.capacity + Find(t.block, key))
               /\ Seen(KeyAt(t, t.capacity + Find(t.block, key))) = Seen(key)
<1>1. key \in RawKeys /\ key \in StoredKeys /\ t.capacity \in Nat
  BY DEF Stored, RawKeys, StoredKeys, WholeTable
<1>2. Normalised(key) = key
  BY <1>1, SeenSame
<1>3. SlotCount(t) \in Nat
  BY DEF SlotCount, WholeTable, IsTable, GoodBlock, Sound, IsBlock
<1>4. CASE InArray(t, key)
  <2> DEFINE k == IndexOf(key)
  <2>1. k \in 1..t.capacity /\ key = NumberKey(k) /\ t.array[k] # Nil
    BY <1>1, <1>4, ArrayKeys DEF Get
  <2> HIDE DEF k
  <2>2. k \in Places(t) /\ k <= t.capacity
    BY <1>1, <1>3, <2>1 DEF Places
  <2>3. KeyAt(t, k) = key /\ ValueAt(t, k) # Nil /\ Seen(key) = k
    BY <2>1, <2>2 DEF KeyAt, ValueAt, NumberKey, Seen
  <2> QED
    BY <1>1, <1>2, <1>4, <2>1, <2>2, <2>3 DEF LiveAt, k
<1>5. CASE ~InArray(t, key)
  <2> DEFINE b == t.block
             j == Find(b, key)
  <2>1. b # NoBlock /\ b.slots[j].value # Nil
    BY <1>2, <1>5 DEF Get, HashLookup, Lookup
  <2>2. Sound(b) /\ b.used < Size(b) /\ Size(b) \in Nat
    BY <2>1, HalfEmpty DEF WholeTable, IsTable, GoodBlock, Sound, IsBlock
  <2>3. j \in 1..Size(b)
    BY <1>1, <2>2, FindStops
  <2>4. b.slots[j].key # NoKey
    <3>1. b.slots[j].key \in Busy(b)
      BY <2>1, <2>3 DEF Busy
    <3> QED
      BY <2>1, <3>1 DEF WholeTable
  <2>5. Has(b, key)
    BY <2>4 DEF Has
  <2>6. SameKey(b.slots[j].key, key) /\ b.slots[j].key \in StoredKeys
    BY <1>1, <2>2, <2>5, Overwrites
  <2>7. Seen(b.slots[j].key) = Seen(key)
    BY <1>1, <2>6, SameKeys
  <2>8. /\ t.capacity + j \in Places(t)
        /\ KeyAt(t, t.capacity + j) = b.slots[j].key
        /\ ValueAt(t, t.capacity + j) = b.slots[j].value
    BY <1>1, <2>1, <2>2, <2>3, PlaceOfSlot
  <2>9. LiveAt(t, t.capacity + j)
    BY <2>1, <2>8 DEF LiveAt
  <2> QED
    BY <1>1, <1>2, <1>5, <2>1, <2>3, <2>5, <2>7, <2>8, <2>9
<1> QED
  BY <1>4, <1>5

\* u has the places of t and their keys; key k, if cleared, is live no more.
SamePlaces(t, u, k, v) ==
  /\ u.capacity = t.capacity /\ Places(u) = Places(t)
  /\ \A p \in Places(t) :
       /\ KeyAt(u, p) = KeyAt(t, p)
       /\ LiveAt(u, p) => LiveAt(t, p)
       /\ LiveAt(t, p) /\ (v # Nil \/ Seen(KeyAt(t, p)) # k) => LiveAt(u, p)

\* Storing a field the table has keeps every place, unless the array part grows.
LEMMA PresentSet ==
  ASSUME NEW t, WholeTable(t), NEW key \in Stored, Get(t, key) # Nil, NEW v
  PROVE  LET u == SetIn(t, key, v)
         IN /\ WholeTable(u)
            /\ u.capacity > t.capacity \/ SamePlaces(t, u, Seen(key), v)
<1> DEFINE u == SetIn(t, key, v)
<1>1. key \in RawKeys /\ key \in StoredKeys /\ Normalised(key) = key /\ t.capacity \in Nat
  BY PresentAt DEF WholeTable
<1>2. /\ WholeTable(u)
      /\ \/ u.capacity > t.capacity
         \/ /\ u.capacity = t.capacity /\ InArray(t, key) /\ u.block = t.block
            /\ u.array = [t.array EXCEPT ![IndexOf(key)] = v]
         \/ /\ u.capacity = t.capacity /\ ~InArray(t, key) /\ u.array = t.array
            /\ u = HashStore(t, key, v)
  BY <1>1, SetWhole
<1> HIDE DEF u
<1>3. ASSUME u.capacity = t.capacity, InArray(t, key), u.block = t.block,
             u.array = [t.array EXCEPT ![IndexOf(key)] = v]
      PROVE  SamePlaces(t, u, Seen(key), v)
  <2> DEFINE k == IndexOf(key)
  <2>1. k \in 1..t.capacity /\ LiveAt(t, k) /\ Seen(key) = k /\ KeyAt(t, k) = key
    BY <1>3, PresentAt
  <2>2. Places(u) = Places(t)
    BY <1>3 DEF Places, SlotCount
  <2>3. t.array = [i \in 1..t.capacity |-> t.array[i]]
    BY DEF WholeTable
  <2> HIDE DEF k
  <2>4. \A i \in 1..t.capacity : u.array[i] = IF i = k THEN v ELSE t.array[i]
    BY <1>3, <2>1, <2>3 DEF k
  <2>5. ASSUME NEW p \in Places(t)
        PROVE  /\ KeyAt(u, p) = KeyAt(t, p)
               /\ LiveAt(u, p) => LiveAt(t, p)
               /\ LiveAt(t, p) /\ (v # Nil \/ Seen(KeyAt(t, p)) # k) => LiveAt(u, p)
    <3>1. KeyAt(u, p) = KeyAt(t, p)
      BY <1>3 DEF KeyAt
    <3>2. CASE p = k
      <4>1. ValueAt(u, p) = v
        BY <1>1, <1>3, <2>1, <2>4, <3>2 DEF ValueAt
      <4> QED
        BY <2>1, <2>2, <3>1, <3>2, <4>1 DEF LiveAt
    <3>3. CASE p # k
      <4>1. ValueAt(u, p) = ValueAt(t, p)
        <5>1. CASE p <= t.capacity
          <6>1. SlotCount(t) \in Nat
            BY DEF SlotCount, WholeTable, IsTable, GoodBlock, Sound, IsBlock
          <6>2. p \in 1..t.capacity
            BY <1>1, <5>1, <6>1 DEF Places
          <6> QED
            BY <1>3, <2>4, <3>3, <5>1, <6>2 DEF ValueAt
        <5>2. CASE ~(p <= t.capacity)
          BY <1>3, <5>2 DEF ValueAt
        <5> QED
          BY <5>1, <5>2
      <4> QED
        BY <2>2, <3>1, <4>1 DEF LiveAt
    <3> QED
      BY <3>2, <3>3
  <2> QED
    BY <1>3, <2>1, <2>2, <2>5 DEF SamePlaces
<1>4. ASSUME u.capacity = t.capacity, ~InArray(t, key), u.array = t.array,
             u = HashStore(t, key, v)
      PROVE  SamePlaces(t, u, Seen(key), v)
  <2> DEFINE b == t.block
             g == Store(b, key, v)
             j == Find(b, key)
             x == t.capacity + j
  <2>1. /\ b # NoBlock /\ Has(b, key) /\ j \in 1..Size(b) /\ LiveAt(t, x)
        /\ Seen(KeyAt(t, x)) = Seen(key)
    BY <1>4, PresentAt
  <2>2. Sound(b) /\ b.used < Size(b) /\ Size(b) \in Nat
    BY <2>1, HalfEmpty DEF WholeTable, IsTable, GoodBlock, Sound, IsBlock
  <2>3. /\ Sound(g) /\ Size(g) = Size(b)
        /\ \A i \in 1..Size(b) :
             /\ g.slots[i].key = b.slots[i].key
             /\ g.slots[i].value = IF i = j THEN v ELSE b.slots[i].value
    BY <1>1, <2>1, <2>2, Overwrites
  <2>4. g # NoBlock
    BY <2>3, BlockThere DEF Sound
  <2>5. u = [t EXCEPT !.block = g]
    BY <1>1, <1>4, <2>1 DEF HashStore
  <2> HIDE DEF g, j
  <2>6. u.block = g
    BY <2>5 DEF WholeTable, IsTable
  <2>7. SlotCount(u) = SlotCount(t)
    BY <2>1, <2>3, <2>4, <2>6 DEF SlotCount
  <2>8. Places(u) = Places(t)
    BY <1>4, <2>7 DEF Places
  <2>9. ASSUME NEW p \in Places(t)
        PROVE  /\ KeyAt(u, p) = KeyAt(t, p)
               /\ LiveAt(u, p) => LiveAt(t, p)
               /\ LiveAt(t, p) /\ (v # Nil \/ Seen(KeyAt(t, p)) # Seen(key)) => LiveAt(u, p)
    <3>1. p \in Nat
      <4>1. SlotCount(t) \in Nat
        BY DEF SlotCount, WholeTable, IsTable, GoodBlock, Sound, IsBlock
      <4> QED
        BY <1>1, <4>1 DEF Places
    <3>2. CASE p <= t.capacity
      <4>1. KeyAt(u, p) = KeyAt(t, p) /\ ValueAt(u, p) = ValueAt(t, p)
        BY <1>4, <3>2 DEF KeyAt, ValueAt
      <4> QED
        BY <2>8, <4>1 DEF LiveAt
    <3>3. CASE p > t.capacity
      <4> DEFINE i == p - t.capacity
      <4>1. i \in 1..Size(b) /\ KeyAt(t, p) = b.slots[i].key /\ ValueAt(t, p) = b.slots[i].value
        BY <3>3, SlotPlace
      <4>2. KeyAt(u, p) = g.slots[i].key /\ ValueAt(u, p) = g.slots[i].value
        BY <1>1, <1>4, <2>6, <3>1, <3>3 DEF KeyAt, ValueAt
      <4> HIDE DEF i
      <4>3. KeyAt(u, p) = KeyAt(t, p)
        BY <2>3, <4>1, <4>2
      <4>4. CASE i = j
        <5>1. p = x
          BY <1>1, <2>2, <3>1, <4>1, <4>4 DEF i
        <5>2. ValueAt(u, p) = v
          BY <2>3, <4>1, <4>2, <4>4
        <5> QED
          BY <2>1, <2>8, <4>3, <5>1, <5>2 DEF LiveAt
      <4>5. CASE i # j
        <5>1. ValueAt(u, p) = ValueAt(t, p)
          BY <2>3, <4>1, <4>2, <4>5
        <5> QED
          BY <2>8, <4>3, <5>1 DEF LiveAt
      <4> QED
        BY <4>4, <4>5
    <3> QED
      BY <1>1, <3>1, <3>2, <3>3
  <2> QED
    BY <1>4, <2>8, <2>9 DEF SamePlaces
<1> QED
  BY <1>2, <1>3, <1>4 DEF u

-----------------------------------------------------------------------------
(***************************************************************************)
(* The loop.                                                               *)
(***************************************************************************)
\* Going on to the next live place, which was not visited yet.
LEMMA PassesOn ==
  ASSUME NEW t, WholeTable(t), NEW q \in Nat, NEW seen, NEW stay, Passed(t, q, seen, stay),
         NEW p \in Places(t), LiveAt(t, p), p > q,
         \A r \in Places(t) : LiveAt(t, r) /\ r > q => p <= r
  PROVE  LET k == Seen(KeyAt(t, p))
         IN /\ k \in Seens /\ seen[k] = 0
            /\ Passed(t, p, [seen EXCEPT ![k] = 1], stay)
            /\ Stands(t, p, KeyAt(t, p))
<1> DEFINE k == Seen(KeyAt(t, p))
           now == [seen EXCEPT ![k] = 1]
<1>1. p \in Nat /\ k \in Seens /\ KeyAt(t, p) \in StoredKeys
      /\ (p > t.capacity => ~InArray(t, KeyAt(t, p)))
  BY LivePlace
<1>2. /\ seen \in [Seens -> 0..1]
      /\ \A r \in Places(t) : LiveAt(t, r) => seen[Seen(KeyAt(t, r))] = IF r <= q THEN 1 ELSE 0
      /\ \A x \in stay : \E r \in Places(t) : LiveAt(t, r) /\ Seen(KeyAt(t, r)) = x
  BY DEF Passed
<1>3. ~(p <= q)
  BY <1>1
<1>4. seen[k] = 0
  BY <1>2, <1>3
<1>5. ASSUME NEW r \in Places(t), LiveAt(t, r)
      PROVE  now[Seen(KeyAt(t, r))] = IF r <= p THEN 1 ELSE 0
  <2>1. r \in Nat /\ Seen(KeyAt(t, r)) \in Seens
    BY <1>5, LivePlace
  <2>2. CASE r = p
    BY <1>1, <1>2, <2>2
  <2>3. CASE r # p
    <3>1. Seen(KeyAt(t, r)) # k
      BY <1>5, <2>3, OnePlace
    <3>2. now[Seen(KeyAt(t, r))] = IF r <= q THEN 1 ELSE 0
      BY <1>2, <1>5, <2>1, <3>1
    <3>3. (r <= q) <=> (r <= p)
      BY <1>1, <1>5, <2>1, <2>3
    <3> QED
      BY <3>2, <3>3
  <2> QED
    BY <2>2, <2>3
<1>6. now \in [Seens -> 0..1]
  BY <1>1, <1>2
<1> HIDE DEF now
<1>7. Passed(t, p, now, stay)
  BY <1>2, <1>5, <1>6 DEF Passed
<1> QED
  BY <1>1, <1>4, <1>7 DEF Stands, now

\* At the end everything kept was visited.
LEMMA AllPassed ==
  ASSUME NEW t, NEW q, NEW seen, NEW stay, Passed(t, q, seen, stay),
         \A p \in Places(t) : LiveAt(t, p) => p <= q
  PROVE  \A k \in stay : seen[k] = 1
  BY DEF Passed

\* A field assigned or cleared does not move the loop.
LEMMA PassedStays ==
  ASSUME NEW t, NEW u, NEW k, NEW v, SamePlaces(t, u, k, v), NEW q, NEW seen, NEW stay,
         Passed(t, q, seen, stay), NEW rest, rest \subseteq stay, v # Nil \/ k \notin rest
  PROVE  Passed(u, q, seen, rest)
<1>1. ASSUME NEW p \in Places(u), LiveAt(u, p)
      PROVE  seen[Seen(KeyAt(u, p))] = IF p <= q THEN 1 ELSE 0
  BY <1>1 DEF SamePlaces, Passed
<1>2. ASSUME NEW x \in rest
      PROVE  \E p \in Places(u) : LiveAt(u, p) /\ Seen(KeyAt(u, p)) = x
  <2>1. PICK p \in Places(t) : LiveAt(t, p) /\ Seen(KeyAt(t, p)) = x
    BY DEF Passed
  <2>2. v # Nil \/ Seen(KeyAt(t, p)) # k
    BY <2>1
  <2> QED
    BY <2>1, <2>2 DEF SamePlaces
<1> QED
  BY <1>1, <1>2 DEF Passed

\* A loop stands where it stood while places keep their keys.
LEMMA StandsStays ==
  ASSUME NEW t, NEW u, NEW k, NEW v, SamePlaces(t, u, k, v), NEW q, NEW key, Stands(t, q, key)
  PROVE  Stands(u, q, key)
  BY DEF SamePlaces, Stands, InArray

\* The table a step leaves.
LEMMA BecomeIs ==
  ASSUME NEW u, IsTable(u), Become(u)
  PROVE  Table' = u /\ capacity' = u.capacity
  BY DEF IsTable, Become, Table

\* The table is what its words are.
LEMMA TableStays ==
  ASSUME UNCHANGED vars
  PROVE  Table' = Table /\ capacity' = capacity
  BY DEF vars, Table

\* The keys of a table are none of the values that end a loop, but for false.
LEMMA FalsyKeys ==
  ASSUME NEW key \in StoredKeys
  PROVE  key # Done /\ (NoFalse => ~Falsy(key))
<1>1. key # Done
  BY StorageAssumption, LoopAssumption DEF StoredKeys
<1>2. ASSUME NoFalse, key = <<"bool", False, "-">> PROVE FALSE
  <2>1. key[1] = "bool"
    BY <1>2
  <2>2. key \notin Numbers
    BY <2>1 DEF Numbers
  <2>3. PICK j \in RawNames : key = Normalised(j)
    BY <2>2 DEF StoredKeys
  <2>4. j = key
    BY <2>1, <2>3 DEF Normalised
  <2> QED
    BY <1>2, <2>4 DEF NoFalse
<1> QED
  BY <1>1, <1>2 DEF Falsy

\* Asking for the next key, from a place whose successor it is.
LEMMA AdvanceKeeps ==
  ASSUME WholeTable(Table), visits \in [Seens -> 0..2], NEW key, Advance(key),
         began' \in Nat, began' <= capacity,
         began' = capacity =>
           \E q \in Nat : Passed(Table, q, visits, kept') /\ NextPlace(Table, q, NextKey(key))
  PROVE  LoopInv'
<1> DEFINE c == NextKey(key)
           k == Seen(c)
<1>1. Table' = Table /\ capacity' = capacity
  BY TableStays DEF Advance
<1>2. /\ cursor' = c
      /\ phase' = IF Falsy(c) THEN "ended" ELSE "body"
      /\ visits' = IF Falsy(c) \/ visits[k] = 2 THEN visits
                   ELSE [visits EXCEPT ![k] = visits[k] + 1]
  BY DEF Advance
<1>3. SomePlace(Table, c)
  BY NextKeyAny
<1> HIDE DEF c
<1>4. Falsy(Done)
  BY DEF Falsy
<1>5. visits' \in [Seens -> 0..2]
  <2>1. CASE Falsy(c) \/ visits[k] = 2
    BY <1>2, <2>1
  <2>2. CASE ~(Falsy(c) \/ visits[k] = 2)
    <3>1. PICK p \in Places(Table) : LiveAt(Table, p) /\ c = KeyAt(Table, p)
      BY <1>3, <1>4, <2>2 DEF SomePlace
    <3>2. k \in Seens
      BY <3>1, LivePlace
    <3>3. visits[k] + 1 \in 0..2
      BY <2>2, <3>2
    <3> QED
      BY <1>2, <2>2, <3>2, <3>3
  <2> QED
    BY <2>1, <2>2
<1>6. CASE Falsy(c)
  <2>1. phase' = "ended" /\ visits' = visits
    BY <1>2, <1>6
  <2>2. ASSUME began' = capacity
        PROVE  /\ \A x \in Seens : visits[x] <= 1
               /\ NoFalse => \A x \in kept' : visits[x] = 1
    <3>1. PICK q \in Nat : Passed(Table, q, visits, kept') /\ NextPlace(Table, q, c)
      BY <2>2 DEF c
    <3>2. \A x \in Seens : visits[x] <= 1
      BY <3>1 DEF Passed
    <3>3. ASSUME NoFalse PROVE \A p \in Places(Table) : LiveAt(Table, p) => p <= q
      <4> SUFFICES ASSUME NEW p \in Places(Table), LiveAt(Table, p), c = KeyAt(Table, p)
                   PROVE  FALSE
        BY <3>1 DEF NextPlace
      <4>1. c \in StoredKeys
        BY LivePlace
      <4> QED
        BY <1>6, <3>3, <4>1, FalsyKeys
    <3> QED
      BY <3>1, <3>2, <3>3, AllPassed
  <2> QED
    BY <1>1, <1>5, <2>1, <2>2 DEF LoopInv
<1>7. CASE ~Falsy(c)
  <2>1. phase' = "body"
    BY <1>2, <1>7
  <2>2. ASSUME began' = capacity
        PROVE  \E q \in Places(Table) : Passed(Table, q, visits', kept') /\ Stands(Table, q, c)
    <3>1. PICK q \in Nat : Passed(Table, q, visits, kept') /\ NextPlace(Table, q, c)
      BY <2>2 DEF c
    <3>2. PICK p \in Places(Table) :
            /\ LiveAt(Table, p) /\ p > q /\ c = KeyAt(Table, p)
            /\ \A r \in Places(Table) : LiveAt(Table, r) /\ r > q => p <= r
      BY <1>4, <1>7, <3>1 DEF NextPlace
    <3>3. /\ k \in Seens /\ visits[k] = 0
          /\ Passed(Table, p, [visits EXCEPT ![k] = 1], kept')
          /\ Stands(Table, p, c)
      BY <3>1, <3>2, PassesOn
    <3>4. visits' = [visits EXCEPT ![k] = 1]
      <4>1. visits[k] # 2 /\ visits[k] + 1 = 1
        BY <3>3
      <4> QED
        BY <1>2, <1>7, <4>1
    <3> QED
      BY <3>3, <3>4
  <2> QED
    BY <1>1, <1>2, <1>5, <2>1, <2>2 DEF LoopInv
<1> QED
  BY <1>6, <1>7

\* A loop begins before the first place.
LEMMA BeginKeeps ==
  ASSUME LoopInv, Begin
  PROVE  LoopInv'
<1>1. /\ WholeTable(Table) /\ visits \in [Seens -> 0..2] /\ visits = [k \in Seens |-> 0]
      /\ kept' = {Seen(key) : key \in {s \in Stored : Present(s)}}
      /\ began' = capacity /\ Advance(Start)
  BY DEF LoopInv, Begin
<1>2. capacity \in Nat
  BY <1>1, TableFields DEF WholeTable
<1>3. Passed(Table, 0, visits, kept')
  <2>1. ASSUME NEW p \in Places(Table), LiveAt(Table, p)
        PROVE  visits[Seen(KeyAt(Table, p))] = IF p <= 0 THEN 1 ELSE 0
    <3>1. p \in Nat /\ p >= 1 /\ Seen(KeyAt(Table, p)) \in Seens
      BY <1>1, <2>1, LivePlace
    <3> QED
      BY <1>1, <3>1
  <2>2. ASSUME NEW x \in kept'
        PROVE  \E p \in Places(Table) : LiveAt(Table, p) /\ Seen(KeyAt(Table, p)) = x
    <3>1. PICK key \in Stored : Get(Table, key) # Nil /\ x = Seen(key)
      BY <1>1 DEF Present
    <3>2. \E p : LiveAt(Table, p) /\ Seen(KeyAt(Table, p)) = Seen(key)
      BY <1>1, <3>1, PresentAt
    <3> QED
      BY <3>1, <3>2 DEF LiveAt
  <2>3. visits \in [Seens -> 0..1]
    BY <1>1
  <2> QED
    BY <2>1, <2>2, <2>3 DEF Passed
<1>4. NextPlace(Table, 0, NextKey(Start))
  BY <1>1, NextKeyFirst
<1>5. 0 \in Nat /\ began' \in Nat /\ began' <= capacity
  BY <1>1, <1>2
<1> QED
  BY <1>1, <1>3, <1>4, <1>5, AdvanceKeeps

\* A turn goes on to the next live place, or ends the loop past the last.
LEMMA TurnKeeps ==
  ASSUME LoopInv, Turn
  PROVE  LoopInv'
<1>1. /\ WholeTable(Table) /\ visits \in [Seens -> 0..2] /\ began \in Nat /\ began <= capacity
      /\ began = capacity =>
           \E q \in Places(Table) : Passed(Table, q, visits, kept) /\ Stands(Table, q, cursor)
      /\ began' = began /\ kept' = kept /\ Advance(cursor)
  BY DEF LoopInv, Turn
<1>2. ASSUME began' = capacity
      PROVE  \E q \in Nat : Passed(Table, q, visits, kept')
                            /\ NextPlace(Table, q, NextKey(cursor))
  <2>1. PICK q \in Places(Table) : Passed(Table, q, visits, kept) /\ Stands(Table, q, cursor)
    BY <1>1, <1>2
  <2>2. NextPlace(Table, q, NextKey(cursor)) /\ q \in Nat
    BY <1>1, <2>1, NextKeyIs
  <2> QED
    BY <1>1, <2>1, <2>2
<1>3. began' \in Nat /\ began' <= capacity
  BY <1>1
<1> QED
  BY <1>1, <1>2, <1>3, AdvanceKeeps

\* The body stores a field the table has.
LEMMA BodyKeeps ==
  ASSUME LoopInv, phase = "body", NEW key \in Stored, NEW v, Present(key), Set(key, v),
         UNCHANGED <<phase, cursor, visits, began>>,
         kept' \subseteq kept, v # Nil \/ Seen(key) \notin kept'
  PROVE  LoopInv'
<1> DEFINE u == SetIn(Table, key, v)
<1>1. /\ WholeTable(Table) /\ visits \in [Seens -> 0..2] /\ began \in Nat /\ began <= capacity
      /\ began = capacity =>
           \E q \in Places(Table) : Passed(Table, q, visits, kept) /\ Stands(Table, q, cursor)
      /\ capacity \in Nat
  BY TableFields DEF LoopInv, WholeTable
<1>2. /\ WholeTable(u)
      /\ u.capacity > capacity \/ SamePlaces(Table, u, Seen(key), v)
  BY <1>1, PresentSet, TableFields DEF Present
<1>3. Become(u)
  BY DEF Set
<1> HIDE DEF u
<1>4. Table' = u /\ capacity' = u.capacity /\ u.capacity \in Nat
  BY <1>2, <1>3, BecomeIs DEF WholeTable
<1>5. phase' = "body" /\ cursor' = cursor /\ visits' = visits /\ began' = began
  OBVIOUS
<1>6. CASE u.capacity > capacity
  <2>1. began' <= capacity' /\ began' # capacity'
    BY <1>1, <1>4, <1>5, <1>6
  <2> QED
    BY <1>1, <1>2, <1>4, <1>5, <2>1 DEF LoopInv
<1>7. CASE SamePlaces(Table, u, Seen(key), v)
  <2>1. u.capacity = capacity /\ Places(u) = Places(Table)
    BY <1>7, TableFields DEF SamePlaces
  <2>2. ASSUME began' = capacity'
        PROVE  \E q \in Places(u) : Passed(u, q, visits', kept') /\ Stands(u, q, cursor')
    <3>1. PICK q \in Places(Table) : Passed(Table, q, visits, kept) /\ Stands(Table, q, cursor)
      BY <1>1, <1>4, <1>5, <2>1, <2>2
    <3>2. Passed(u, q, visits, kept')
      BY <1>7, <3>1, PassedStays
    <3>3. Stands(u, q, cursor)
      BY <1>7, <3>1, StandsStays
    <3> QED
      BY <1>5, <2>1, <3>2, <3>3
  <2> QED
    BY <1>1, <1>2, <1>4, <1>5, <2>1, <2>2 DEF LoopInv
<1> QED
  BY <1>2, <1>6, <1>7

\* Outside of a loop the table may become any other.
LEMMA BuildKeeps ==
  ASSUME LoopInv, Build
  PROVE  LoopInv'
<1>1. PICK key \in Stored, v \in Cells : Set(key, v)
  BY DEF Build
<1> DEFINE u == SetIn(Table, key, v)
<1>2. key \in RawKeys /\ WholeTable(Table)
  BY DEF Stored, RawKeys, LoopInv
<1>3. WholeTable(u)
  BY <1>2, SetWhole
<1>4. Become(u)
  BY <1>1 DEF Set
<1> HIDE DEF u
<1>5. Table' = u
  BY <1>3, <1>4, BecomeIs DEF WholeTable
<1>6. UNCHANGED loopVars /\ phase = "outside"
  BY DEF Build
<1> QED
  BY <1>3, <1>5, <1>6 DEF LoopInv, loopVars

\* The loop begins outside, over a new table.
LEMMA LoopInitial == LoopInit => LoopInv
<1> SUFFICES ASSUME LoopInit PROVE LoopInv
  OBVIOUS
<1>1. /\ capacity = 0 /\ length = 0 /\ array = <<>> /\ block = NoBlock
      /\ phase = "outside" /\ cursor = Start /\ visits = [k \in Seens |-> 0] /\ kept = {}
  BY DEF LoopInit, Init
<1>2. IsTable(Table)
  BY <1>1, TableOf DEF BlockInv, GoodBlock
<1>3. WholeTable(Table)
  <2>1. array = [i \in 1..capacity |-> array[i]]
    BY <1>1
  <2> QED
    BY <1>1, <1>2, <2>1, TableFields DEF WholeTable
<1>4. visits \in [Seens -> 0..2]
  BY <1>1
<1> QED
  BY <1>1, <1>3, <1>4 DEF LoopInv

\* Every step of the program and its loop keeps the invariant.
LEMMA LoopInductive == LoopInv /\ [LoopNext]_allVars => LoopInv'
<1> SUFFICES ASSUME LoopInv, [LoopNext]_allVars PROVE LoopInv'
  OBVIOUS
<1>1. CASE ClearField
  <2>1. PICK key \in Stored : Present(key) /\ Set(key, Nil) /\ kept' = kept \ {Seen(key)}
    BY <1>1 DEF ClearField
  <2>2. phase = "body" /\ UNCHANGED <<phase, cursor, visits, began>>
    BY <1>1 DEF ClearField
  <2> QED
    BY <2>1, <2>2, BodyKeeps
<1>2. CASE AssignField
  <2>1. PICK key \in Stored, v \in Values : Present(key) /\ Set(key, v)
    BY <1>2 DEF AssignField
  <2>2. phase = "body" /\ UNCHANGED <<phase, cursor, visits, began>> /\ kept' = kept
    BY <1>2 DEF AssignField, loopVars
  <2>3. v # Nil
    BY StorageAssumption, LoopAssumption
  <2> QED
    BY <2>1, <2>2, <2>3, BodyKeeps
<1>3. CASE Leave
  <2>1. Table' = Table
    BY <1>3, TableStays DEF Leave
  <2>2. phase' = "outside" /\ cursor' = Start /\ visits' = [k \in Seens |-> 0] /\ kept' = {}
    BY <1>3 DEF Leave
  <2>3. visits' \in [Seens -> 0..2]
    BY <2>2
  <2> QED
    BY <2>1, <2>2, <2>3 DEF LoopInv
<1>4. CASE UNCHANGED allVars
  <2>1. Table' = Table /\ capacity' = capacity
    BY <1>4, TableStays DEF allVars
  <2> QED
    BY <1>4, <2>1 DEF LoopInv, allVars, loopVars
<1> QED
  BY <1>1, <1>2, <1>3, <1>4, BuildKeeps, BeginKeeps, TurnKeeps DEF LoopNext

\* So it holds always.
LEMMA LoopInvariance == LoopSpec => []LoopInv
  BY LoopInitial, LoopInductive, PTL DEF LoopSpec

\* A loop hands no key to its body twice, whatever fields the body clears and
\* assigns, the current one included, unless that makes the array part grow
\* (__builtin_next, src/runtime/iters.s).
THEOREM OnceCorrect == LoopSpec => []VisitedOnceUngrown
<1>1. LoopInv => VisitedOnceUngrown
  <2> SUFFICES ASSUME LoopInv, began = capacity, NEW k \in Seens PROVE visits[k] <= 1
    BY DEF VisitedOnceUngrown, VisitedOnce
  <2>1. CASE phase = "outside"
    BY <2>1 DEF LoopInv
  <2>2. CASE phase = "body"
    BY <2>2 DEF LoopInv, Passed
  <2>3. CASE phase = "ended"
    BY <2>3 DEF LoopInv
  <2> QED
    BY <2>1, <2>2, <2>3 DEF LoopInv
<1> QED
  BY <1>1, LoopInvariance, PTL

\* Nor does it leave out a key that was there all along, if false is none of
\* the keys, which ends the loop as nil does (emit_falsy_jump, src/emit.c).
THEOREM NoneMissedCorrect ==
  ASSUME NoFalse
  PROVE  LoopSpec => []NoneMissedUngrown
<1>1. NoFalse => (LoopInv => NoneMissedUngrown)
  BY DEF LoopInv, NoneMissedUngrown, NoneMissed
<1>2. LoopInv => NoneMissedUngrown
  BY <1>1
<1> QED
  BY <1>2, LoopInvariance, PTL

-----------------------------------------------------------------------------
(***************************************************************************)
(* What the hash part answers, for any word a key comes as.                *)
(***************************************************************************)
\* A word that comes as what Lua sees as k.
WordFor(k) == IF k \in Index THEN NumberKey(k) ELSE CHOOSE key \in RawNames : key[2] = k

\* The key stored for what Lua sees as k.
KeyFor(k) == Normalised(WordFor(k))

\* What the hash part of a table maps.
MapOf(t) == [k \in Seens |-> HashLookup(t, WordFor(k))]

\* Every key Lua sees comes as a word, and is stored as one.
LEMMA WordIs ==
  ASSUME NEW k \in Seens
  PROVE  /\ WordFor(k) \in RawKeys /\ KeyFor(k) \in StoredKeys /\ Seen(KeyFor(k)) = k
         /\ k \in Index => WordFor(k) = NumberKey(k) /\ KeyFor(k) = NumberKey(k)
<1>1. CASE k \in Index
  <2>1. WordFor(k) = NumberKey(k) /\ NumberKey(k) \in RawKeys
    BY <1>1, NumberKeys DEF WordFor
  <2>2. Normalised(NumberKey(k)) = NumberKey(k) /\ Seen(NumberKey(k)) = k
    BY DEF NumberKey, Normalised, Seen
  <2> QED
    BY <2>1, <2>2, WordsStored DEF KeyFor
<1>2. CASE k \notin Index
  <2>1. k \in Names
    BY <1>2 DEF Seens
  <2>2. WordFor(k) \in RawNames /\ Seen(WordFor(k)) = k
    BY <1>2, <2>1, StorageAssumption DEF WordFor, Seen
  <2>3. Seen(KeyFor(k)) = k
    BY <2>2 DEF KeyFor, Normalised, Seen
  <2> QED
    BY <1>2, <2>2, <2>3, WordsStored DEF KeyFor, RawKeys
<1> QED
  BY <1>1, <1>2

\* A word is stored as the key it is seen as, whatever word that is.
LEMMA SeenWord ==
  ASSUME NEW key \in RawKeys
  PROVE  Seen(key) \in Seens /\ Seen(Normalised(key)) = Seen(key)
<1>1. Seen(Normalised(key)) = Seen(key)
  BY DEF Normalised, Seen
<1>2. Seen(Normalised(key)) \in Seens
  BY WordsStored, SeenSame
<1> QED
  BY <1>1, <1>2

-----------------------------------------------------------------------------
\* What a search answers: the value of the slot with the key, if there is one.
LEMMA LookupIs ==
  ASSUME NEW b, Sound(b), b.used < Size(b), NoKey \notin Busy(b), NEW key \in StoredKeys
  PROVE  /\ \A i \in Used(b) : Seen(b.slots[i].key) = Seen(key) => Lookup(b, key) = b.slots[i].value
         /\ (\A i \in Used(b) : Seen(b.slots[i].key) # Seen(key)) => Lookup(b, key) = Nil
<1>1. \A i \in Used(b) : b.slots[i].key \in StoredKeys
  BY DEF Sound, IsBlock, Used
<1>2. ASSUME NEW i \in Used(b), Seen(b.slots[i].key) = Seen(key)
      PROVE  Lookup(b, key) = b.slots[i].value
  BY <1>1, <1>2, SeenSame, FoundAt DEF Lookup
<1>3. ASSUME \A i \in Used(b) : Seen(b.slots[i].key) # Seen(key)
      PROVE  Lookup(b, key) = Nil
  <2> DEFINE f == Find(b, key)
  <2>1. PICK d \in 0..(Size(b) - 1) :
          FirstStop(b, key, d) /\ f = Probe(b, key, d) /\ f \in 1..Size(b)
    BY FindStops
  <2>2. b.slots[f].key = NoKey \/ SameKey(b.slots[f].key, key)
    BY <2>1 DEF FirstStop, Stops
  <2> HIDE DEF f
  <2>3. b.slots[f].key = NoKey
    <3> SUFFICES ASSUME b.slots[f].key # NoKey PROVE FALSE
      OBVIOUS
    <3>1. f \in Used(b) /\ SameKey(b.slots[f].key, key)
      BY <2>1, <2>2 DEF Used
    <3>2. Seen(b.slots[f].key) = Seen(key)
      BY <1>1, <3>1, SameKeys
    <3> QED
      BY <1>3, <3>1, <3>2
  <2>4. b.slots[f].value = Nil
    BY <2>1, <2>3 DEF Busy
  <2> QED
    BY <2>4 DEF Lookup, f
<1> QED
  BY <1>2, <1>3

\* Blocks with the same live slots answer the same.
LEMMA SameReads ==
  ASSUME NEW b, Sound(b), b.used < Size(b), NoKey \notin Busy(b),
         NEW g, Sound(g), g.used < Size(g), NoKey \notin Busy(g),
         \A i \in Used(b) : b.slots[i].value # Nil => \E j \in Used(g) : g.slots[j] = b.slots[i],
         \A j \in Used(g) : g.slots[j].value # Nil => \E i \in Used(b) : g.slots[j] = b.slots[i],
         NEW key \in StoredKeys
  PROVE  Lookup(g, key) = Lookup(b, key)
<1>1. CASE \E i \in Used(b) : Seen(b.slots[i].key) = Seen(key) /\ b.slots[i].value # Nil
  <2>1. PICK i \in Used(b) : Seen(b.slots[i].key) = Seen(key) /\ b.slots[i].value # Nil
    BY <1>1
  <2>2. PICK j \in Used(g) : g.slots[j] = b.slots[i]
    BY <2>1
  <2>3. Lookup(b, key) = b.slots[i].value
    BY <2>1, LookupIs
  <2>4. Lookup(g, key) = g.slots[j].value
    BY <2>1, <2>2, LookupIs
  <2> QED
    BY <2>2, <2>3, <2>4
<1>2. CASE ~\E i \in Used(b) : Seen(b.slots[i].key) = Seen(key) /\ b.slots[i].value # Nil
  <2>1. Lookup(b, key) = Nil
    BY <1>2, LookupIs
  <2>2. \A j \in Used(g) : Seen(g.slots[j].key) = Seen(key) => g.slots[j].value = Nil
    BY <1>2
  <2>3. Lookup(g, key) = Nil
    BY <2>2, LookupIs
  <2> QED
    BY <2>1, <2>3
<1> QED
  BY <1>1, <1>2

\* A grown block answers what the old one did.
LEMMA GrowReads ==
  ASSUME NEW b, Sound(b), HalfUsed(b), NoKey \notin Busy(b)
  PROVE  /\ Sound(Grow(b)) /\ Grow(b).used <= b.used /\ Size(Grow(b)) = 2 * Size(b)
         /\ NoKey \notin Busy(Grow(b))
         /\ \A key \in StoredKeys : Lookup(Grow(b), key) = Lookup(b, key)
<1> DEFINE h == Grow(b)
           n == Size(b)
<1>1. GrownSoFar(b, h, n)
  BY GrowKeeps
<1>2. n \in Nat /\ n >= 2 /\ b.used \in Nat /\ 2 * b.used <= n
  BY UsedCount DEF Sound, IsBlock, HalfUsed
<1> HIDE DEF h
<1>3. Sound(h) /\ Size(h) = 2 * n /\ h.used \in Nat /\ NoKey \notin Busy(h)
  BY <1>1, UsedCount DEF GrownSoFar
<1>4. h.used <= b.used
  <2>1. Used(b) \cap 1..n = Used(b)
    BY DEF Used
  <2> QED
    BY <1>1, <2>1 DEF GrownSoFar, Sound
<1>5. h.used < Size(h) /\ b.used < Size(b)
  BY <1>2, <1>3, <1>4
<1>6. \A i \in Used(b) : i <= n
  BY <1>2 DEF Used
<1>7. /\ \A i \in Used(b) : b.slots[i].value # Nil => \E j \in Used(h) : h.slots[j] = b.slots[i]
      /\ \A j \in Used(h) : \E i \in Used(b) : h.slots[j] = b.slots[i]
  BY <1>1, <1>6 DEF GrownSoFar
<1>8. ASSUME NEW key \in StoredKeys
      PROVE  Lookup(h, key) = Lookup(b, key)
  BY <1>3, <1>5, <1>7, SameReads
<1> QED
  BY <1>3, <1>4, <1>8 DEF h

\* A key put in an empty slot is read there, and the others as before.
LEMMA PutNewReads ==
  ASSUME NEW b, Sound(b), b.used < Size(b), NoKey \notin Busy(b), NEW key \in StoredKeys, NEW v,
         ~Has(b, key), PutNew(b, key, v).used < Size(b), NEW k \in StoredKeys
  PROVE  Lookup(PutNew(b, key, v), k) = IF Seen(k) = Seen(key) THEN v ELSE Lookup(b, k)
<1> DEFINE g == PutNew(b, key, v)
<1>1. Sound(g) /\ Size(g) = Size(b) /\ Busy(g) \subseteq Busy(b) \cup {key} /\ Placed(b, g, key, v)
  BY PutNewKeeps
<1>2. PICK f \in 1..Size(b) :
        /\ b.slots[f].key = NoKey /\ g.slots[f] = [key |-> key, value |-> v]
        /\ \A i \in 1..Size(b) : i # f => g.slots[i] = b.slots[i]
  BY <1>1 DEF Placed
<1>3. g.used < Size(g) /\ NoKey \notin Busy(g) /\ key # NoKey
  BY <1>1, KeysAre
<1> HIDE DEF g
<1>4. f \in Used(g) /\ g.slots[f].key = key /\ g.slots[f].value = v
  BY <1>1, <1>2, <1>3 DEF Used
<1>5. \A i \in Used(b) : i # f /\ i \in Used(g) /\ g.slots[i] = b.slots[i]
  BY <1>1, <1>2 DEF Used
<1>6. \A i \in Used(g) : i # f => i \in Used(b) /\ g.slots[i] = b.slots[i]
  BY <1>1, <1>2 DEF Used
<1>7. CASE Seen(k) = Seen(key)
  <2>1. Lookup(g, k) = g.slots[f].value
    BY <1>1, <1>3, <1>4, <1>7, LookupIs
  <2> QED
    BY <1>4, <1>7, <2>1 DEF g
<1>8. CASE Seen(k) # Seen(key) /\ \E i \in Used(b) : Seen(b.slots[i].key) = Seen(k)
  <2>1. PICK i \in Used(b) : Seen(b.slots[i].key) = Seen(k)
    BY <1>8
  <2>2. Lookup(b, k) = b.slots[i].value
    BY <2>1, LookupIs
  <2>3. Lookup(g, k) = g.slots[i].value
    BY <1>1, <1>3, <1>5, <2>1, LookupIs
  <2> QED
    BY <1>5, <1>8, <2>2, <2>3 DEF g
<1>9. CASE Seen(k) # Seen(key) /\ ~\E i \in Used(b) : Seen(b.slots[i].key) = Seen(k)
  <2>1. Lookup(b, k) = Nil
    BY <1>9, LookupIs
  <2>2. \A i \in Used(g) : Seen(g.slots[i].key) # Seen(k)
    BY <1>4, <1>6, <1>9
  <2>3. Lookup(g, k) = Nil
    BY <1>1, <1>3, <2>2, LookupIs
  <2> QED
    BY <1>9, <2>1, <2>3 DEF g
<1> QED
  BY <1>7, <1>8, <1>9

\* A store changes what is read for its key, as Lua sees it, and for no other.
LEMMA StoreReads ==
  ASSUME NEW b, Sound(b), HalfUsed(b), NoKey \notin Busy(b), NEW key \in StoredKeys, NEW v,
         NEW k \in StoredKeys
  PROVE  Lookup(Store(b, key, v), k) = IF Seen(k) = Seen(key) THEN v ELSE Lookup(b, k)
<1> DEFINE n == Size(b)
<1>1. n \in Nat /\ n >= 2 /\ b.used \in Nat /\ 2 * b.used <= n
  BY UsedCount DEF Sound, IsBlock, HalfUsed
<1>2. b.used < Size(b)
  BY <1>1
<1>3. CASE Has(b, key)
  <2> DEFINE j == Find(b, key)
             g == Store(b, key, v)
  <2>1. /\ Sound(g) /\ Size(g) = n /\ g.used = b.used /\ j \in 1..n
        /\ b.slots[j].key \in StoredKeys /\ SameKey(b.slots[j].key, key)
        /\ \A i \in 1..n : /\ g.slots[i].key = b.slots[i].key
                           /\ g.slots[i].value = IF i = j THEN v ELSE b.slots[i].value
    BY <1>2, <1>3, Overwrites
  <2> HIDE DEF g, j
  <2>2. Seen(b.slots[j].key) = Seen(key) /\ b.slots[j].key # NoKey
    BY <2>1, SameKeys, KeysAre
  <2>3. Used(g) = Used(b) /\ j \in Used(b)
    BY <2>1, <2>2 DEF Used
  <2>4. NoKey \notin Busy(g)
    <3> SUFFICES ASSUME NEW i \in 1..n, g.slots[i].value # Nil, g.slots[i].key = NoKey
                 PROVE  FALSE
      BY <2>1 DEF Busy
    <3>1. i # j
      BY <2>1, <2>2
    <3> QED
      BY <2>1, <3>1 DEF Busy
  <2>5. g.used < Size(g)
    BY <1>2, <2>1
  <2>6. CASE Seen(k) = Seen(key)
    <3>1. Lookup(g, k) = g.slots[j].value
      BY <2>1, <2>2, <2>3, <2>4, <2>5, <2>6, LookupIs
    <3> QED
      BY <2>1, <2>6, <3>1 DEF g
  <2>7. CASE Seen(k) # Seen(key) /\ \E i \in Used(b) : Seen(b.slots[i].key) = Seen(k)
    <3>1. PICK i \in Used(b) : Seen(b.slots[i].key) = Seen(k)
      BY <2>7
    <3>2. Lookup(b, k) = b.slots[i].value
      BY <1>2, <3>1, LookupIs
    <3>3. i \in 1..n /\ i # j /\ g.slots[i].key = b.slots[i].key
          /\ g.slots[i].value = b.slots[i].value
      BY <2>1, <2>2, <2>7, <3>1 DEF Used
    <3>4. Lookup(g, k) = g.slots[i].value
      BY <2>1, <2>3, <2>4, <2>5, <3>1, <3>3, LookupIs
    <3> QED
      BY <2>7, <3>2, <3>3, <3>4 DEF g
  <2>8. CASE Seen(k) # Seen(key) /\ ~\E i \in Used(b) : Seen(b.slots[i].key) = Seen(k)
    <3>1. Lookup(b, k) = Nil
      BY <1>2, <2>8, LookupIs
    <3>2. \A i \in Used(g) : Seen(g.slots[i].key) # Seen(k)
      BY <2>1, <2>3, <2>8 DEF Used
    <3>3. Lookup(g, k) = Nil
      BY <2>1, <2>4, <2>5, <3>2, LookupIs
    <3> QED
      BY <2>8, <3>1, <3>3 DEF g
  <2> QED
    BY <2>6, <2>7, <2>8
<1>4. CASE ~Has(b, key) /\ v = Nil
  <2>1. Store(b, key, v) = b
    BY <1>4 DEF Store
  <2>2. ASSUME Seen(k) = Seen(key) PROVE Lookup(b, k) = Nil
    <3>1. \A i \in Used(b) : Seen(b.slots[i].key) # Seen(k)
      <4> SUFFICES ASSUME NEW i \in Used(b), Seen(b.slots[i].key) = Seen(k) PROVE FALSE
        OBVIOUS
      <4>1. b.slots[i].key \in StoredKeys
        BY DEF Sound, IsBlock, Used
      <4>2. SameKey(b.slots[i].key, key)
        BY <2>2, <4>1, SeenSame
      <4> QED
        BY <1>4, <4>2, AbsentMeans
    <3> QED
      BY <1>2, <3>1, LookupIs
  <2> QED
    BY <1>4, <2>1, <2>2
<1>5. CASE ~Has(b, key) /\ v # Nil /\ ~((b.used + 1) * 2 > Size(b))
  <2>1. Store(b, key, v) = PutNew(b, key, v)
    BY <1>5 DEF Store
  <2>2. PutNew(b, key, v).used = b.used + 1
    BY DEF PutNew
  <2>3. PutNew(b, key, v).used < Size(b)
    BY <1>1, <1>5, <2>2
  <2> QED
    BY <1>2, <1>5, <2>1, <2>3, PutNewReads
<1>6. CASE ~Has(b, key) /\ v # Nil /\ (b.used + 1) * 2 > Size(b)
  <2> DEFINE h == Grow(b)
  <2>1. Store(b, key, v) = PutNew(h, key, v)
    BY <1>6 DEF Store
  <2>2. /\ Sound(h) /\ h.used <= b.used /\ Size(h) = 2 * n /\ NoKey \notin Busy(h)
        /\ Lookup(h, k) = Lookup(b, k)
    BY GrowReads
  <2>3. GrownSoFar(b, h, n)
    BY GrowKeeps
  <2> HIDE DEF h
  <2>4. h.used \in Nat
    BY <2>2, UsedCount
  <2>5. h.used < Size(h) /\ h.used + 1 < Size(h)
    BY <1>1, <2>2, <2>4
  <2>6. ~Has(h, key)
    <3> SUFFICES ASSUME Has(h, key) PROVE FALSE
      OBVIOUS
    <3> DEFINE j == Find(h, key)
    <3>1. j \in 1..Size(h) /\ h.slots[j].key # NoKey
      BY <2>2, <2>5, FindStops DEF Has
    <3>2. SameKey(h.slots[j].key, key)
      BY <2>2, <2>5, <3>1, FindStops DEF FirstStop, Stops
    <3>3. j \in Used(h)
      BY <3>1 DEF Used
    <3>4. PICK i \in Used(b) : h.slots[j] = b.slots[i]
      BY <2>3, <3>3 DEF GrownSoFar
    <3> QED
      BY <1>6, <3>2, <3>4, AbsentMeans
  <2>7. PutNew(h, key, v).used = h.used + 1
    BY DEF PutNew
  <2>8. Lookup(PutNew(h, key, v), k) = IF Seen(k) = Seen(key) THEN v ELSE Lookup(h, k)
    BY <2>2, <2>5, <2>6, <2>7, PutNewReads
  <2> QED
    BY <2>1, <2>2, <2>8
<1> QED
  BY <1>3, <1>4, <1>5, <1>6

\* A migration takes away what is read for the keys that move, and for no other.
LEMMA MigratedReads ==
  ASSUME NEW b, Sound(b), HalfUsed(b), NoKey \notin Busy(b), NEW low, NEW high, NEW k \in StoredKeys
  PROVE  Lookup(Migrated(b, low, high), k) =
           IF k \in {NumberKey(i) : i \in (low + 1)..high} THEN Nil ELSE Lookup(b, k)
<1> DEFINE g == Migrated(b, low, high)
           n == Size(b)
           K == {NumberKey(i) : i \in (low + 1)..high}
<1>1. n \in Nat /\ n >= 2 /\ b.used \in Nat /\ 2 * b.used <= n
  BY UsedCount DEF Sound, IsBlock, HalfUsed
<1>2. /\ Sound(g) /\ Busy(g) \subseteq Busy(b) \ K
  BY MigratedKeeps
<1>3. g = [b EXCEPT !.slots = [i \in 1..n |-> IF b.slots[i].key \in K
                                              THEN [b.slots[i] EXCEPT !.value = Nil]
                                              ELSE b.slots[i]]]
  BY DEF Migrated
<1>4. /\ b = [used |-> b.used, slots |-> b.slots]
      /\ b.slots = [i \in 1..n |-> [key |-> b.slots[i].key, value |-> b.slots[i].value]]
  BY DEF Sound, IsBlock
<1> HIDE DEF K, g, n
<1>5. /\ g.slots = [i \in 1..n |-> IF b.slots[i].key \in K THEN [b.slots[i] EXCEPT !.value = Nil]
                                   ELSE b.slots[i]]
      /\ g = [used |-> b.used, slots |-> g.slots]
  BY <1>3, <1>4
<1>6. ASSUME NEW i \in 1..n
      PROVE  /\ g.slots[i].key = b.slots[i].key
             /\ g.slots[i].value = IF b.slots[i].key \in K THEN Nil ELSE b.slots[i].value
  <2>1. b.slots[i] = [key |-> b.slots[i].key, value |-> b.slots[i].value]
    BY <1>4
  <2>2. CASE b.slots[i].key \in K
    <3>1. g.slots[i] = [b.slots[i] EXCEPT !.value = Nil]
      BY <1>5, <2>2
    <3> QED
      BY <2>1, <2>2, <3>1
  <2>3. CASE b.slots[i].key \notin K
    <3>1. g.slots[i] = b.slots[i]
      BY <1>5, <2>3
    <3> QED
      BY <2>3, <3>1
  <2> QED
    BY <2>2, <2>3
<1>7. g.slots = [i \in 1..n |-> [key |-> b.slots[i].key, value |-> g.slots[i].value]]
  <2>1. ASSUME NEW i \in 1..n
        PROVE  g.slots[i] = [key |-> b.slots[i].key, value |-> g.slots[i].value]
    <3>1. b.slots[i] = [key |-> b.slots[i].key, value |-> b.slots[i].value]
      BY <1>4
    <3>2. g.slots[i] = [b.slots[i] EXCEPT !.value = Nil] \/ g.slots[i] = b.slots[i]
      BY <1>5
    <3> QED
      BY <3>1, <3>2
  <2> QED
    BY <1>5, <2>1
<1>8. Size(g) = n /\ Used(g) = Used(b) /\ g.used = b.used
  BY <1>5, <1>7, ValuesOnly DEF n
<1>9. g.used < Size(g) /\ b.used < Size(b) /\ NoKey \notin Busy(g)
  BY <1>1, <1>2, <1>8 DEF n
<1>10. ASSUME NEW s \in StoredKeys, Seen(s) = Seen(k)
       PROVE  s \in K <=> k \in K
  <2>1. \A x \in K : Seen(x) \in Int /\ x = NumberKey(Seen(x))
    BY DEF K, NumberKey, Seen
  <2>2. \A x \in StoredKeys : Seen(x) \in Int => x = NumberKey(Seen(x))
    BY SeenSame
  <2> QED
    BY <1>10, <2>1, <2>2
<1>11. \A i \in Used(b) : i \in 1..n /\ b.slots[i].key \in StoredKeys
  BY DEF Used, Sound, IsBlock, n
<1>12. CASE \E i \in Used(b) : Seen(b.slots[i].key) = Seen(k)
  <2>1. PICK i \in Used(b) : Seen(b.slots[i].key) = Seen(k)
    BY <1>12
  <2>2. Lookup(b, k) = b.slots[i].value
    BY <1>9, <2>1, LookupIs
  <2>3. Seen(g.slots[i].key) = Seen(k)
    BY <1>6, <1>11, <2>1
  <2>4. Lookup(g, k) = g.slots[i].value
    BY <1>2, <1>8, <1>9, <2>1, <2>3, LookupIs
  <2>5. b.slots[i].key \in K <=> k \in K
    BY <1>10, <1>11, <2>1
  <2> QED
    BY <1>6, <1>11, <2>1, <2>2, <2>4, <2>5 DEF g, K
<1>13. CASE ~\E i \in Used(b) : Seen(b.slots[i].key) = Seen(k)
  <2>1. Lookup(b, k) = Nil
    BY <1>9, <1>13, LookupIs
  <2>2. \A i \in Used(g) : Seen(g.slots[i].key) # Seen(k)
    BY <1>6, <1>8, <1>11, <1>13
  <2>3. Lookup(g, k) = Nil
    BY <1>2, <1>9, <2>2, LookupIs
  <2> QED
    BY <2>1, <2>3 DEF g
<1> QED
  BY <1>12, <1>13

-----------------------------------------------------------------------------
\* What the hash part maps: its block's answers, nothing without a block.
LEMMA MapIs ==
  ASSUME NEW t, NEW k \in Seens
  PROVE  MapOf(t)[k] = IF t.block = NoBlock THEN Nil ELSE Lookup(t.block, KeyFor(k))
BY DEF MapOf, HashLookup, KeyFor

\* A store in the hash part changes what it maps at the key, and nowhere else.
LEMMA HashStoreMaps ==
  ASSUME NEW t, WholeTable(t), NEW key \in RawKeys, NEW v
  PROVE  LET u == HashStore(t, key, v)
         IN /\ MapOf(u) = [MapOf(t) EXCEPT ![Seen(key)] = v]
            /\ u.capacity = t.capacity /\ u.array = t.array /\ u.length = t.length
<1> DEFINE s == Normalised(key)
           b == IF t.block = NoBlock THEN NewBlock(MinBlock) ELSE t.block
           g == Store(b, s, v)
           u == HashStore(t, key, v)
<1>1. s \in StoredKeys /\ Seen(key) \in Seens /\ Seen(s) = Seen(key)
  BY WordsStored, SeenWord
<1>2. /\ Sound(b) /\ HalfUsed(b) /\ NoKey \notin Busy(b)
      /\ t.block = NoBlock => Used(b) = {} /\ b.used < Size(b)
  <2>1. CASE t.block = NoBlock
    <3>1. MinBlock \in Nat /\ MinBlock >= 2
      BY StorageAssumption
    <3>2. LET e == NewBlock(MinBlock)
          IN Sound(e) /\ Size(e) = MinBlock /\ e.used = 0 /\ Used(e) = {} /\ Busy(e) = {}
      BY <3>1, NewBlockSound
    <3> QED
      BY <2>1, <3>1, <3>2 DEF HalfUsed
  <2>2. CASE t.block # NoBlock
    BY <2>2 DEF WholeTable, IsTable, GoodBlock
  <2> QED
    BY <2>1, <2>2
<1>3. u = IF t.block = NoBlock /\ v = Nil THEN t ELSE [t EXCEPT !.block = g]
  BY DEF HashStore
<1>4. g # NoBlock
  <2>1. Sound(g)
    BY <1>1, <1>2, StoreKeeps
  <2> QED
    BY <2>1, BlockThere DEF Sound
<1> HIDE DEF s, b
<1>5. ASSUME NEW k \in Seens
      PROVE  Lookup(g, KeyFor(k)) = IF k = Seen(key) THEN v ELSE MapOf(t)[k]
  <2>1. KeyFor(k) \in StoredKeys /\ Seen(KeyFor(k)) = k
    BY WordIs
  <2>2. Lookup(g, KeyFor(k)) = IF k = Seen(key) THEN v ELSE Lookup(b, KeyFor(k))
    BY <1>1, <1>2, <2>1, StoreReads
  <2>3. Lookup(b, KeyFor(k)) = MapOf(t)[k]
    <3>1. CASE t.block = NoBlock
      <4>1. Lookup(b, KeyFor(k)) = Nil
        BY <1>2, <2>1, <3>1, LookupIs
      <4> QED
        BY <3>1, <4>1, MapIs
    <3>2. CASE t.block # NoBlock
      BY <3>2, MapIs DEF b
    <3> QED
      BY <3>1, <3>2
  <2> QED
    BY <2>2, <2>3
<1> HIDE DEF g, u
<1>6. t = [capacity |-> t.capacity, length |-> t.length, array |-> t.array, block |-> t.block]
  BY DEF WholeTable, IsTable
<1>7. u.capacity = t.capacity /\ u.array = t.array /\ u.length = t.length
  BY <1>3, <1>6
<1>8. ASSUME NEW k \in Seens
      PROVE  MapOf(u)[k] = IF k = Seen(key) THEN v ELSE MapOf(t)[k]
  <2>1. CASE t.block = NoBlock /\ v = Nil
    BY <1>3, <2>1, MapIs
  <2>2. CASE ~(t.block = NoBlock /\ v = Nil)
    <3>1. u.block = g
      BY <1>3, <1>6, <2>2
    <3> QED
      BY <1>4, <1>5, <3>1, MapIs
  <2> QED
    BY <2>1, <2>2
<1>9. MapOf(u) = [MapOf(t) EXCEPT ![Seen(key)] = v]
  BY <1>8 DEF MapOf
<1> QED
  BY <1>7, <1>9 DEF u

\* A growing array takes its new cells out of what the hash part maps.
LEMMA ArrayGrowMaps ==
  ASSUME NEW t, WholeTable(t), NEW k \in Index, k > t.capacity, k <= GrowLimit(t)
  PROVE  LET u == ArrayGrow(t, k)
             c == GrowLimit(t)
         IN /\ u.capacity = c /\ c > t.capacity /\ u.length = t.length
            /\ u.array = [i \in 1..c |-> IF i <= t.capacity THEN t.array[i]
                                         ELSE IF i \in Index THEN MapOf(t)[i] ELSE Nil]
            /\ MapOf(u) = [j \in Seens |-> IF j \in (t.capacity + 1)..c THEN Nil ELSE MapOf(t)[j]]
<1> DEFINE c == GrowLimit(t)
           a == [i \in 1..c |-> IF i <= t.capacity THEN t.array[i]
                                ELSE IF i \in Index THEN HashLookup(t, NumberKey(i))
                                ELSE Nil]
           b == IF t.block = NoBlock THEN NoBlock ELSE Migrated(t.block, t.capacity, c)
           u == ArrayGrow(t, k)
           K == {NumberKey(i) : i \in (t.capacity + 1)..c}
<1>1. t.capacity \in Nat
  BY DEF WholeTable
<1>2. c \in Nat /\ c > t.capacity /\ c % CapacityRange = c /\ c = NewCapacity(t, k)
  BY <1>1, GrownSize
<1> HIDE DEF c
<1>3. u = [t EXCEPT !.capacity = c % CapacityRange, !.array = a, !.block = b]
  BY <1>2 DEF ArrayGrow
<1>4. \A i \in Index : HashLookup(t, NumberKey(i)) = MapOf(t)[i]
  <2> SUFFICES ASSUME NEW i \in Index PROVE HashLookup(t, NumberKey(i)) = MapOf(t)[i]
    OBVIOUS
  <2>1. i \in Seens
    BY DEF Seens
  <2> QED
    BY <2>1, WordIs DEF MapOf
<1>5. a = [i \in 1..c |-> IF i <= t.capacity THEN t.array[i]
                          ELSE IF i \in Index THEN MapOf(t)[i] ELSE Nil]
  BY <1>4
<1>6. ASSUME NEW j \in Seens
      PROVE  KeyFor(j) \in K <=> j \in (t.capacity + 1)..c
  <2>1. /\ KeyFor(j) \in StoredKeys /\ Seen(KeyFor(j)) = j
        /\ j \in Index => KeyFor(j) = NumberKey(j)
    BY WordIs
  <2>2. \A i : Seen(NumberKey(i)) = i
    BY DEF NumberKey, Seen
  <2>3. j \in Int => j \in Index
    BY StorageAssumption DEF Seens
  <2>4. j \in (t.capacity + 1)..c => j \in Int
    OBVIOUS
  <2> QED
    BY <2>1, <2>2, <2>3, <2>4
<1>7. ASSUME NEW j \in Seens
      PROVE  (IF b = NoBlock THEN Nil ELSE Lookup(b, KeyFor(j))) =
                IF j \in (t.capacity + 1)..c THEN Nil ELSE MapOf(t)[j]
  <2>1. CASE t.block = NoBlock
    BY <2>1, MapIs
  <2>2. CASE t.block # NoBlock
    <3>1. Sound(t.block) /\ HalfUsed(t.block) /\ NoKey \notin Busy(t.block)
      BY <2>2 DEF WholeTable, IsTable, GoodBlock
    <3>2. KeyFor(j) \in StoredKeys
      BY WordIs
    <3>3. Lookup(b, KeyFor(j)) = IF KeyFor(j) \in K THEN Nil ELSE Lookup(t.block, KeyFor(j))
      BY <2>2, <3>1, <3>2, MigratedReads
    <3>4. b # NoBlock
      <4>1. Sound(b)
        BY <2>2, <3>1, MigratedKeeps
      <4> QED
        BY <4>1, BlockThere DEF Sound
    <3> HIDE DEF b, K
    <3> QED
      BY <1>6, <2>2, <3>3, <3>4, MapIs
  <2> QED
    BY <2>1, <2>2
<1> HIDE DEF a, b, u
<1>8. u = [capacity |-> c, length |-> t.length, array |-> a, block |-> b]
  BY <1>2, <1>3 DEF WholeTable, IsTable
<1>9. u.capacity = c /\ u.length = t.length /\ u.array = a /\ u.block = b
  BY <1>8
<1>10. ASSUME NEW j \in Seens
       PROVE  MapOf(u)[j] = IF j \in (t.capacity + 1)..c THEN Nil ELSE MapOf(t)[j]
  BY <1>7, <1>9, MapIs
<1>11. MapOf(u) = [j \in Seens |-> IF j \in (t.capacity + 1)..c THEN Nil ELSE MapOf(t)[j]]
  BY <1>10 DEF MapOf
<1> QED
  BY <1>2, <1>5, <1>9, <1>11 DEF c, u

-----------------------------------------------------------------------------
(***************************************************************************)
(* The sizes the array part doubles through.                               *)
(***************************************************************************)
\* The sizes an array part doubles through, from size l on.
Doubling(f, l, m) == f = [i \in 0..m |-> IF i = 0 THEN l ELSE 2 * f[i - 1]]

\* The recursive definition of those sizes has a function.
LEMMA DoublingExists ==
  ASSUME NEW l, NEW m \in Nat
  PROVE  \E f : Doubling(f, l, m)
<1> DEFINE T == {k \in 0..m : ~ \E f : Doubling(f, l, k)}
           Next1(n) == 2 * n
           Is(f, k) == f = [i \in 0..k |-> IF i = 0 THEN l ELSE Next1(f[i - 1])]
<1>1. \A f, k : Doubling(f, l, k) <=> Is(f, k)
  BY DEF Doubling
<1> HIDE DEF Next1
<1> SUFFICES ASSUME T # {} PROVE FALSE
  OBVIOUS
<1>2. PICK x \in T : \A y \in T : x <= y
  <2>1. T \in SUBSET Nat
    OBVIOUS
  <2> QED
    BY <2>1, Least
<1>3. ~ \E f : Is(f, x)
  BY <1>1, <1>2
<1>4. x # 0
  <2>1. CASE x = 0
    <3> DEFINE h == [i \in 0..0 |-> l]
    <3>1. h = [i \in 0..0 |-> IF i = 0 THEN l ELSE Next1(h[i - 1])]
      OBVIOUS
    <3> QED
      BY <1>3, <2>1, <3>1
  <2> QED
    BY <2>1
<1>5. x - 1 \in 0..m /\ x - 1 \notin T
  BY <1>2, <1>4
<1>6. PICK f : Is(f, x - 1)
  BY <1>1, <1>5
<1> DEFINE h == [i \in 0..x |-> IF i = 0 THEN l ELSE Next1(f[i - 1])]
<1>7. \A i \in 0..(x - 1) : h[i] = f[i]
  BY <1>2, <1>6
<1>8. \A i \in 0..x : h[i] = IF i = 0 THEN l ELSE Next1(f[i - 1])
  OBVIOUS
<1>9. h = [i \in 0..x |-> h[i]]
  OBVIOUS
<1> HIDE DEF h
<1>10. \A i \in 0..x : i # 0 => i - 1 \in 0..(x - 1)
  BY <1>2
<1>11. \A i \in 0..x : h[i] = IF i = 0 THEN l ELSE Next1(h[i - 1])
  BY <1>7, <1>8, <1>10
<1>12. Is(h, x)
  BY <1>9, <1>11
<1> QED
  BY <1>3, <1>12

\* Each is at least twice the ones before it, and so outruns its place.
LEMMA DoublingGrows ==
  ASSUME NEW l \in Nat, l > 0, NEW m \in Nat, NEW f, Doubling(f, l, m)
  PROVE  /\ f[0] = l
         /\ \A i \in 0..m : f[i] \in Nat /\ f[i] >= l /\ f[i] > i
         /\ \A i \in 0..m : i < m => f[i + 1] = 2 * f[i]
         /\ \A i, j \in 0..m : i < j => 2 * f[i] <= f[j]
<1>1. \A i \in 0..m : f[i] = IF i = 0 THEN l ELSE 2 * f[i - 1]
  BY DEF Doubling
<1>2. f[0] = l
  BY <1>1
<1>3. \A i \in 0..m : i < m => f[i + 1] = 2 * f[i]
  <2> SUFFICES ASSUME NEW i \in 0..m, i < m PROVE f[i + 1] = 2 * f[i]
    OBVIOUS
  <2>1. i + 1 \in 0..m /\ i + 1 # 0 /\ i + 1 - 1 = i
    OBVIOUS
  <2> QED
    BY <1>1, <2>1
<1>4. \A i \in 0..m : i # 0 => i - 1 \in 0..m /\ f[i] = 2 * f[i - 1]
  BY <1>1
<1>5. \A i \in 0..m : f[i] \in Nat /\ f[i] >= l /\ f[i] > i
  <2> DEFINE T == {i \in 0..m : ~(f[i] \in Nat /\ f[i] >= l /\ f[i] > i)}
  <2> SUFFICES ASSUME T # {} PROVE FALSE
    OBVIOUS
  <2>1. PICK x \in T : \A y \in T : x <= y
    <3>1. T \in SUBSET Nat
      OBVIOUS
    <3> QED
      BY <3>1, Least
  <2>2. CASE x = 0
    BY <1>2, <2>1, <2>2
  <2>3. CASE x # 0
    <3>1. x - 1 \in 0..m /\ x - 1 \notin T /\ x \in Nat
      BY <2>1, <2>3
    <3>2. f[x] = 2 * f[x - 1]
      BY <1>4, <2>1, <2>3
    <3> DEFINE y == f[x - 1]
    <3>3. y \in Nat /\ y >= l /\ y > x - 1
      BY <3>1
    <3> HIDE DEF y
    <3>4. 2 * y \in Nat /\ 2 * y >= l /\ 2 * y > x
      BY <2>3, <3>1, <3>3
    <3> QED
      BY <2>1, <3>2, <3>4 DEF y
  <2> QED
    BY <2>2, <2>3
<1>6. ASSUME NEW i \in 0..m
      PROVE  \A j \in 0..m : i < j => 2 * f[i] <= f[j]
  <2> DEFINE T == {j \in 0..m : i < j /\ ~(2 * f[i] <= f[j])}
  <2> SUFFICES ASSUME T # {} PROVE FALSE
    OBVIOUS
  <2>1. PICK x \in T : \A y \in T : x <= y
    <3>1. T \in SUBSET Nat
      OBVIOUS
    <3> QED
      BY <3>1, Least
  <2>2. x \in 0..m /\ i < x /\ ~(2 * f[i] <= f[x])
    BY <2>1
  <2>3. x - 1 \in 0..m /\ x - 1 \notin T /\ f[x] = 2 * f[x - 1]
    BY <1>4, <2>1, <2>2
  <2> DEFINE a == f[i]
             y == f[x - 1]
  <2>4. a \in Nat /\ y \in Nat /\ f[x] = 2 * y
    BY <1>5, <2>3
  <2>5. CASE i = x - 1
    <3>1. a = y
      BY <2>5
    <3> HIDE DEF a, y
    <3>2. 2 * a <= 2 * y
      BY <2>4, <3>1
    <3> QED
      BY <2>2, <2>4, <3>2 DEF a
  <2>6. CASE i < x - 1
    <3>1. 2 * a <= y
      BY <2>3, <2>6
    <3> HIDE DEF a, y
    <3>2. 2 * a <= 2 * y
      BY <2>4, <3>1
    <3> QED
      BY <2>2, <2>4, <3>2 DEF a
  <2> QED
    BY <2>2, <2>5, <2>6
<1> QED
  BY <1>2, <1>3, <1>5, <1>6

-----------------------------------------------------------------------------
\* The size after this one.
Beyond(c) == IF 2 * c < MinCapacity THEN MinCapacity ELSE 2 * c

\* The sizes of the array part: each leads to the next, and there is none
\* between.
LEMMA SizesAre ==
  ASSUME capacity \in Nat, capacity <= Hybrid!MaxCapacity
  PROVE  /\ capacity \in Hybrid!Sizes
         /\ \A c \in Hybrid!Sizes :
              /\ c \in Nat /\ capacity <= c /\ c <= Hybrid!MaxCapacity
              /\ c < MaxIndex => Beyond(c) \in Hybrid!Sizes /\ Beyond(c) > c
              /\ \A d \in Hybrid!Sizes : c < d => Beyond(c) <= d
<1> DEFINE l == Hybrid!GrowLimit
           f == Hybrid!Doubled
           top == Hybrid!MaxCapacity
           S == Hybrid!Sizes
<1>1. MaxIndex \in Nat /\ MaxIndex > 0 /\ MinCapacity \in Nat /\ MinCapacity > 0
  BY StorageAssumption
<1>2. top = 2 * MaxIndex + MinCapacity
  BY DEF Hybrid!MaxCapacity
<1>3. l = Beyond(capacity)
  BY DEF Hybrid!GrowLimit, Beyond
<1>4. Doubling(f, l, MaxIndex)
  <2>1. \E g : Doubling(g, l, MaxIndex)
    BY <1>1, DoublingExists
  <2>2. f = CHOOSE g : Doubling(g, l, MaxIndex)
    BY DEF Hybrid!Doubled, Doubling
  <2> QED
    BY <2>1, <2>2
<1>5. S = {c \in capacity..top : c = capacity \/ \E i \in 0..MaxIndex : c = f[i]}
  BY DEF Hybrid!Sizes
<1> HIDE DEF l, f, top, S
<1>6. l \in Nat /\ l > 0 /\ l >= MinCapacity /\ l >= 2 * capacity /\ l >= capacity
  BY <1>1, <1>3 DEF Beyond
<1>7. /\ f[0] = l
      /\ \A i \in 0..MaxIndex : f[i] \in Nat /\ f[i] >= l /\ f[i] > i
      /\ \A i \in 0..MaxIndex : i < MaxIndex => f[i + 1] = 2 * f[i]
      /\ \A i, j \in 0..MaxIndex : i < j => 2 * f[i] <= f[j]
  BY <1>1, <1>4, <1>6, DoublingGrows
<1>8. \A i \in 0..MaxIndex : Beyond(f[i]) = 2 * f[i]
  <2> SUFFICES ASSUME NEW i \in 0..MaxIndex PROVE Beyond(f[i]) = 2 * f[i]
    OBVIOUS
  <2> DEFINE a == f[i]
  <2>1. a \in Nat /\ a >= MinCapacity
    <3>1. a \in Nat /\ a >= l
      BY <1>7
    <3> QED
      BY <1>1, <1>6, <3>1
  <2> HIDE DEF a
  <2>2. Beyond(a) = 2 * a
    BY <1>1, <2>1 DEF Beyond
  <2> QED
    BY <2>2 DEF a
<1>9. top \in Nat /\ capacity <= top
  BY <1>1, <1>2 DEF top
<1>10. capacity \in S
  BY <1>5, <1>9
<1>11. ASSUME NEW c \in S
       PROVE  c \in Nat /\ capacity <= c /\ c <= top
  BY <1>5, <1>9
<1>12. ASSUME NEW c \in S, c < MaxIndex
       PROVE  Beyond(c) \in S /\ Beyond(c) > c
  <2>1. c \in Nat /\ capacity <= c
    BY <1>11
  <2>2. Beyond(c) \in Nat /\ Beyond(c) > c /\ Beyond(c) <= top
    BY <1>1, <1>2, <1>12, <2>1 DEF Beyond
  <2>3. Beyond(c) \in capacity..top
    BY <1>9, <2>1, <2>2
  <2>4. CASE c = capacity
    <3>1. Beyond(c) = f[0] /\ 0 \in 0..MaxIndex
      BY <1>1, <1>3, <1>7, <2>4
    <3> QED
      BY <1>5, <2>2, <2>3, <3>1
  <2>5. CASE c # capacity
    <3>1. PICK i \in 0..MaxIndex : c = f[i]
      BY <1>5, <2>5
    <3>2. c > i
      BY <1>7, <3>1
    <3>3. i < MaxIndex /\ i + 1 \in 0..MaxIndex
      BY <1>1, <1>12, <2>1, <3>2
    <3>4. Beyond(c) = f[i + 1]
      BY <1>7, <1>8, <3>1, <3>3
    <3> QED
      BY <1>5, <2>2, <2>3, <3>3, <3>4
  <2> QED
    BY <2>4, <2>5
<1>13. ASSUME NEW c \in S, NEW d \in S, c < d
       PROVE  Beyond(c) <= d
  <2>1. c \in Nat /\ d \in Nat /\ capacity <= c
    BY <1>11
  <2>2. d # capacity
    BY <1>13, <2>1
  <2>3. PICK j \in 0..MaxIndex : d = f[j]
    BY <1>5, <2>2
  <2>4. CASE c = capacity
    <3>1. Beyond(c) = l /\ f[j] >= l
      BY <1>3, <1>7, <2>4
    <3> QED
      BY <2>3, <3>1
  <2>5. CASE c # capacity
    <3>1. PICK i \in 0..MaxIndex : c = f[i]
      BY <1>5, <2>5
    <3>2. Beyond(c) = 2 * c
      BY <1>8, <3>1
    <3>3. i < j
      <4>1. CASE i = j
        BY <1>13, <2>1, <2>3, <3>1, <4>1
      <4>2. CASE j < i
        <5>1. 2 * d <= c
          BY <1>7, <2>3, <3>1, <4>2
        <5> QED
          BY <1>13, <2>1, <5>1
      <4> QED
        BY <4>1, <4>2
    <3>4. 2 * c <= d
      BY <1>7, <2>3, <3>1, <3>3
    <3> QED
      BY <3>2, <3>4
  <2> QED
    BY <2>4, <2>5
<1> QED
  BY <1>10, <1>11, <1>12, <1>13 DEF S, top

-----------------------------------------------------------------------------
(***************************************************************************)
(* The table of HybridTable that the slots stand for.                      *)
(***************************************************************************)
\* What every step of the program keeps, once the two parts are those of
\* HybridTable.
StorageInv == WholeTable(Table) /\ capacity <= Hybrid!MaxCapacity /\ Hybrid!IInv

\* What a state with the invariant holds.
LEMMA StateIs ==
  ASSUME StorageInv
  PROVE  /\ capacity \in Nat /\ length \in Nat /\ length <= capacity /\ length <= MaxIndex
         /\ array = [i \in 1..capacity |-> array[i]]
         /\ \A i \in 1..capacity : array[i] \in Cells /\ (i \notin Index => array[i] = Nil)
         /\ \A i \in 1..length : array[i] # Nil
         /\ HashMap = MapOf(Table) /\ HashMap \in [Seens -> Cells]
         /\ result \in Cells
         /\ Table.capacity = capacity /\ Table.length = length /\ Table.array = array
         /\ Table.block = block
<1>1. /\ Table.capacity = capacity /\ Table.length = length /\ Table.array = array
      /\ Table.block = block
  BY DEF Table
<1>2. HashMap = MapOf(Table)
  BY DEF HashMap, MapOf, WordFor, Seens
<1>3. /\ capacity \in Nat /\ length \in 0..MaxIndex /\ array \in [1..capacity -> Cells]
      /\ HashMap \in [Seens -> Cells] /\ result \in Cells /\ length <= capacity
      /\ \A i \in 1..length : array[i] # Nil
  BY DEF StorageInv, Hybrid!IInv, Hybrid!TypeOK, Hybrid!LengthFits, Hybrid!PrefixFull,
         Hybrid!Cells, Cells, Hybrid!Keys, Hybrid!Index, Index, Seens
<1>4. MaxIndex \in Nat
  BY StorageAssumption
<1>5. \A i \in 1..capacity : i \notin Index => array[i] = Nil
  BY <1>1 DEF StorageInv, WholeTable
<1> QED
  BY <1>1, <1>2, <1>3, <1>4, <1>5

\* What the old table reads at a number key.
LEMMA OldReads ==
  ASSUME NEW i
  PROVE  Hybrid!Get(i) = IF i \in 1..capacity THEN array[i] ELSE HashMap[i]
BY DEF Hybrid!Get, Hybrid!InArray

\* u is the table once its array part has c cells, and v in cell k.
Holds(u, c, k, v) ==
  /\ WholeTable(u) /\ c \in Hybrid!Sizes /\ u.capacity = c
  /\ u.array = [Hybrid!ArrayOf(c) EXCEPT ![k] = v]
  /\ MapOf(u) = Hybrid!HashBeyond(c)

\* Each cell and each key of such a table.
LEMMA HoldsCells ==
  ASSUME StorageInv, NEW c \in Hybrid!Sizes
  PROVE  /\ Hybrid!ArrayOf(c) = [i \in 1..c |-> IF i <= capacity THEN array[i]
                                                ELSE IF i \in Index THEN HashMap[i] ELSE Nil]
         /\ Hybrid!HashBeyond(c) = [j \in Seens |-> IF j \in (capacity + 1)..c THEN Nil
                                                    ELSE HashMap[j]]
BY DEF Hybrid!ArrayOf, Hybrid!HashBeyond, Hybrid!Index, Index, Hybrid!Keys, Seens

\* It goes on doing so when it grows.
LEMMA GrowHolds ==
  ASSUME StorageInv, NEW u, NEW c, NEW k \in 1..c, NEW v, Holds(u, c, k, v), c + 1 \in Index
  PROVE  Holds(ArrayGrow(u, c + 1), Beyond(c), k, v) /\ Beyond(c) > c
<1> DEFINE g == ArrayGrow(u, c + 1)
           d == Beyond(c)
           A(x) == Hybrid!ArrayOf(x)
           H(x) == Hybrid!HashBeyond(x)
<1>1. /\ capacity \in Nat /\ capacity <= Hybrid!MaxCapacity /\ MaxIndex \in Nat
      /\ MinCapacity \in Nat /\ MinCapacity > 0
  BY StateIs, StorageAssumption DEF StorageInv
<1>2. /\ c \in Nat /\ capacity <= c /\ c < MaxIndex
      /\ d \in Hybrid!Sizes /\ d > c /\ d \in Nat
  <2>1. c \in Nat /\ capacity <= c
    BY <1>1, SizesAre DEF Holds
  <2>2. c < MaxIndex
    BY <1>1, <2>1 DEF Index
  <2> QED
    BY <1>1, <2>1, <2>2, SizesAre DEF Holds
<1>3. GrowLimit(u) = d /\ c + 1 > u.capacity /\ c + 1 <= GrowLimit(u)
  <2>1. GrowLimit(u) = d
    BY DEF GrowLimit, Beyond, Holds
  <2> QED
    BY <1>2, <2>1 DEF Holds
<1> HIDE DEF d
<1>4. /\ g.capacity = d
      /\ g.array = [i \in 1..d |-> IF i <= c THEN u.array[i]
                                   ELSE IF i \in Index THEN MapOf(u)[i] ELSE Nil]
      /\ MapOf(g) = [j \in Seens |-> IF j \in (c + 1)..d THEN Nil ELSE MapOf(u)[j]]
  <2>1. WholeTable(u) /\ u.capacity = c
    BY DEF Holds
  <2>2. LET x == ArrayGrow(u, c + 1)
            l == GrowLimit(u)
        IN /\ x.capacity = l
           /\ x.array = [i \in 1..l |-> IF i <= u.capacity THEN u.array[i]
                                        ELSE IF i \in Index THEN MapOf(u)[i] ELSE Nil]
           /\ MapOf(x) = [j \in Seens |-> IF j \in (u.capacity + 1)..l THEN Nil ELSE MapOf(u)[j]]
    BY <1>3, <2>1, ArrayGrowMaps
  <2> QED
    BY <1>3, <2>1, <2>2
<1>5. WholeTable(g)
  BY <1>3, ArrayGrowWhole DEF Holds
<1> HIDE DEF g
<1>6. /\ A(c) = [i \in 1..c |-> IF i <= capacity THEN array[i]
                                ELSE IF i \in Index THEN HashMap[i] ELSE Nil]
      /\ A(d) = [i \in 1..d |-> IF i <= capacity THEN array[i]
                                ELSE IF i \in Index THEN HashMap[i] ELSE Nil]
      /\ H(c) = [j \in Seens |-> IF j \in (capacity + 1)..c THEN Nil ELSE HashMap[j]]
      /\ H(d) = [j \in Seens |-> IF j \in (capacity + 1)..d THEN Nil ELSE HashMap[j]]
  <2>1. c \in Hybrid!Sizes /\ d \in Hybrid!Sizes
    BY <1>2 DEF Holds
  <2> QED
    BY <2>1, HoldsCells
<1>7. u.array = [A(c) EXCEPT ![k] = v] /\ MapOf(u) = H(c)
  BY DEF Holds
<1> HIDE DEF A, H
<1>8. g.array = [A(d) EXCEPT ![k] = v]
  <2>1. ASSUME NEW i \in 1..d
        PROVE  (IF i <= c THEN u.array[i] ELSE IF i \in Index THEN MapOf(u)[i] ELSE Nil) =
                  IF i = k THEN v ELSE A(d)[i]
    <3>1. CASE i <= c
      <4>1. i \in 1..c
        BY <1>2, <3>1
      <4>2. u.array[i] = IF i = k THEN v ELSE A(c)[i]
        BY <1>6, <1>7, <4>1
      <4>3. A(c)[i] = A(d)[i]
        BY <1>6, <4>1
      <4> QED
        BY <3>1, <4>2, <4>3
    <3>2. CASE ~(i <= c) /\ i \in Index
      <4>1. i # k /\ ~(i <= capacity) /\ i \notin (capacity + 1)..c /\ i \in Seens
        BY <1>1, <1>2, <3>2 DEF Seens
      <4>2. MapOf(u)[i] = HashMap[i]
        BY <1>6, <1>7, <4>1
      <4>3. A(d)[i] = HashMap[i]
        BY <1>6, <3>2, <4>1
      <4> QED
        BY <3>2, <4>1, <4>2, <4>3
    <3>3. CASE ~(i <= c) /\ i \notin Index
      <4>1. i # k /\ ~(i <= capacity)
        BY <1>1, <1>2, <3>3
      <4>2. A(d)[i] = Nil
        BY <1>6, <3>3, <4>1
      <4> QED
        BY <3>3, <4>1, <4>2
    <3> QED
      BY <3>1, <3>2, <3>3
  <2>2. g.array = [i \in 1..d |-> IF i = k THEN v ELSE A(d)[i]]
    BY <1>4, <2>1
  <2>3. [A(d) EXCEPT ![k] = v] = [i \in 1..d |-> IF i = k THEN v ELSE A(d)[i]]
    BY <1>6
  <2> QED
    BY <2>2, <2>3
<1>9. MapOf(g) = H(d)
  <2>1. ASSUME NEW j \in Seens
        PROVE  (IF j \in (c + 1)..d THEN Nil ELSE MapOf(u)[j]) = H(d)[j]
    <3>1. j \in (capacity + 1)..d <=> j \in (capacity + 1)..c \/ j \in (c + 1)..d
      BY <1>1, <1>2
    <3>2. MapOf(u)[j] = IF j \in (capacity + 1)..c THEN Nil ELSE HashMap[j]
      BY <1>6, <1>7
    <3> QED
      BY <1>6, <3>1, <3>2
  <2>2. H(d) = [j \in Seens |-> H(d)[j]]
    BY <1>6
  <2> QED
    BY <1>4, <2>1, <2>2
<1> QED
  BY <1>2, <1>4, <1>5, <1>8, <1>9 DEF Holds, g, d, A, H

\* The key after the border is read as in the old table, in either part.
LEMMA HoldsReads ==
  ASSUME StorageInv, NEW u, NEW c, NEW k \in 1..c, NEW v, Holds(u, c, k, v), NEW b \in k..c
  PROVE  /\ b < c => u.array[b + 1] = IF b + 1 \in Index THEN Hybrid!Get(b + 1) ELSE Nil
         /\ b = c /\ b + 1 \in Index =>
              HashLookup(u, NumberKey(b + 1)) = Hybrid!Get(b + 1)
<1>1. /\ capacity \in Nat /\ capacity <= Hybrid!MaxCapacity
      /\ \A i \in 1..capacity : i \notin Index => array[i] = Nil
  BY StateIs DEF StorageInv
<1>2. c \in Nat /\ capacity <= c /\ c \in Hybrid!Sizes
  BY <1>1, SizesAre DEF Holds
<1>3. /\ Hybrid!ArrayOf(c) = [i \in 1..c |-> IF i <= capacity THEN array[i]
                                             ELSE IF i \in Index THEN HashMap[i] ELSE Nil]
      /\ Hybrid!HashBeyond(c) = [j \in Seens |-> IF j \in (capacity + 1)..c THEN Nil
                                                 ELSE HashMap[j]]
  BY <1>2, HoldsCells
<1>4. u.array = [Hybrid!ArrayOf(c) EXCEPT ![k] = v] /\ MapOf(u) = Hybrid!HashBeyond(c)
  BY DEF Holds
<1>5. b + 1 \in Int /\ b + 1 # k /\ b + 1 >= 1
  BY <1>2
<1>6. Hybrid!Get(b + 1) = IF b + 1 <= capacity THEN array[b + 1] ELSE HashMap[b + 1]
  BY <1>1, <1>5, OldReads
<1> DEFINE i == b + 1
<1>7. ASSUME b < c
      PROVE  u.array[i] = IF i \in Index THEN Hybrid!Get(i) ELSE Nil
  <2>1. i \in 1..c /\ i # k
    BY <1>2, <1>5, <1>7
  <2> HIDE DEF i
  <2>2. u.array[i] = IF i <= capacity THEN array[i]
                     ELSE IF i \in Index THEN HashMap[i] ELSE Nil
    BY <1>3, <1>4, <2>1
  <2>3. CASE i <= capacity
    <3>1. i \in 1..capacity
      BY <1>1, <2>1, <2>3
    <3> QED
      BY <1>1, <1>6, <2>2, <2>3, <3>1 DEF i
  <2>4. CASE ~(i <= capacity)
    BY <1>6, <2>2, <2>4 DEF i
  <2> QED
    BY <2>3, <2>4
<1>8. ASSUME b = c, i \in Index
      PROVE  HashLookup(u, NumberKey(i)) = Hybrid!Get(i)
  <2>1. ~(i <= capacity) /\ i \notin (capacity + 1)..c /\ i \in Seens
    BY <1>1, <1>2, <1>8 DEF Seens
  <2> HIDE DEF i
  <2>2. HashLookup(u, NumberKey(i)) = MapOf(u)[i]
    BY <1>8, <2>1, WordIs DEF MapOf
  <2>3. MapOf(u)[i] = HashMap[i]
    BY <1>3, <1>4, <2>1
  <2> QED
    BY <1>6, <2>1, <2>2, <2>3 DEF i
<1> QED
  BY <1>7, <1>8

\* The run of keys that are there goes on past cell b.
GoesOn(b) == b + 1 \in Index /\ Hybrid!Get(b + 1) # Nil

\* The loop that extends the border from k, over the table before the store: no
\* size of the array was passed over that would have held the run.
Running(s, k, v) ==
  /\ s = [table |-> s.table, border |-> s.border]
  /\ Holds(s.table, s.table.capacity, k, v)
  /\ s.border \in k..s.table.capacity /\ s.border <= MaxIndex
  /\ \A i \in (k + 1)..s.border : Hybrid!Get(i) # Nil
  /\ \A d \in Hybrid!Sizes : d < s.table.capacity => d < s.border \/ (d = s.border /\ GoesOn(d))

\* A turn of the loop takes in one key more, or makes room for it, as long as
\* there is one.
LEMMA ExtendOnceRuns ==
  ASSUME StorageInv, NEW k \in Index, NEW v, NEW s, Running(s, k, v)
  PROVE  LET r == ExtendOnce(s)
         IN /\ Running(r, k, v)
            /\ \/ ~GoesOn(s.border) /\ r = s
               \/ GoesOn(s.border) /\ r.border = s.border + 1
               \/ /\ GoesOn(s.border) /\ r.border = s.border
                  /\ s.border = s.table.capacity /\ r.border < r.table.capacity
<1> DEFINE u == s.table
           c == u.capacity
           b == s.border
           r == ExtendOnce(s)
           g == ArrayGrow(u, b + 1)
<1>1. /\ s = [table |-> u, border |-> b] /\ Holds(u, c, k, v) /\ b \in k..c /\ b <= MaxIndex
      /\ \A i \in (k + 1)..b : Hybrid!Get(i) # Nil
      /\ \A d \in Hybrid!Sizes : d < c => d < b \/ (d = b /\ GoesOn(d))
  BY DEF Running
<1>2. /\ capacity \in Nat /\ capacity <= Hybrid!MaxCapacity /\ MaxIndex \in Nat
  BY StateIs, StorageAssumption DEF StorageInv
<1>3. c \in Nat /\ capacity <= c /\ c \in Hybrid!Sizes
  BY <1>1, <1>2, SizesAre DEF Holds
<1>4. k \in Nat /\ k >= 1 /\ b \in Nat /\ k <= b /\ b <= c /\ k \in 1..c
  <2>1. k \in Nat /\ k >= 1
    BY <1>2 DEF Index
  <2> QED
    BY <1>1, <1>3, <2>1
<1>5. /\ b < c => u.array[b + 1] = IF b + 1 \in Index THEN Hybrid!Get(b + 1) ELSE Nil
      /\ b = c /\ b + 1 \in Index => HashLookup(u, NumberKey(b + 1)) = Hybrid!Get(b + 1)
  BY <1>1, <1>4, HoldsReads
<1>6. r = IF b < c THEN IF u.array[b + 1] = Nil THEN s ELSE [s EXCEPT !.border = b + 1]
          ELSE IF b + 1 \notin Index \/ HashLookup(u, NumberKey(b + 1)) = Nil THEN s
          ELSE [s EXCEPT !.table = g]
  BY DEF ExtendOnce
<1>7. /\ [s EXCEPT !.border = b + 1] = [table |-> u, border |-> b + 1]
      /\ [s EXCEPT !.table = g] = [table |-> g, border |-> b]
  <2> HIDE DEF u, b, g
  <2> QED
    BY <1>1
<1> HIDE DEF u, c, b, g, r
<1>8. CASE ~GoesOn(b)
  <2>1. r = s
    <3>1. CASE b < c
      BY <1>5, <1>6, <1>8, <3>1 DEF GoesOn
    <3>2. CASE ~(b < c)
      <4>1. b = c
        BY <1>3, <1>4, <3>2
      <4> QED
        BY <1>5, <1>6, <1>8, <3>2, <4>1 DEF GoesOn
    <3> QED
      BY <3>1, <3>2
  <2> QED
    BY <1>8, <2>1 DEF r, b
<1>9. CASE GoesOn(b) /\ b < c
  <2>1. r = [table |-> u, border |-> b + 1]
    BY <1>5, <1>6, <1>7, <1>9 DEF GoesOn
  <2>2. r.table = u /\ r.border = b + 1
    BY <2>1
  <2>3. b + 1 \in k..c /\ b + 1 <= MaxIndex
    BY <1>2, <1>3, <1>4, <1>9 DEF GoesOn, Index
  <2>4. \A i \in (k + 1)..(b + 1) : Hybrid!Get(i) # Nil
    <3>1. \A i \in (k + 1)..(b + 1) : i \in (k + 1)..b \/ i = b + 1
      BY <1>4
    <3> QED
      BY <1>1, <1>9, <3>1 DEF GoesOn, u, c, b
  <2>5. \A d \in Hybrid!Sizes : d < c => d < b + 1
    <3> SUFFICES ASSUME NEW d \in Hybrid!Sizes, d < c PROVE d < b + 1
      OBVIOUS
    <3>1. d \in Nat
      BY <1>2, SizesAre
    <3>2. d < b \/ d = b
      BY <1>1 DEF u, c, b
    <3> QED
      BY <1>4, <3>1, <3>2
  <2>6. Holds(u, c, k, v)
    BY <1>1 DEF u, c
  <2>7. Running(r, k, v)
    BY <2>1, <2>2, <2>3, <2>4, <2>5, <2>6 DEF Running, c
  <2> QED
    BY <1>9, <2>2, <2>7 DEF r, b
<1>10. CASE GoesOn(b) /\ ~(b < c)
  <2>1. b = c /\ c + 1 \in Index
    BY <1>3, <1>4, <1>10 DEF GoesOn
  <2>2. r = [table |-> g, border |-> b]
    BY <1>5, <1>6, <1>7, <1>10, <2>1 DEF GoesOn
  <2>3. r.table = g /\ r.border = b
    BY <2>2
  <2>4. Holds(g, Beyond(c), k, v) /\ Beyond(c) > c
    <3>1. Holds(u, c, k, v)
      BY <1>1 DEF u, c
    <3>2. Holds(ArrayGrow(u, c + 1), Beyond(c), k, v) /\ Beyond(c) > c
      BY <1>4, <2>1, <3>1, GrowHolds
    <3> QED
      BY <2>1, <3>2 DEF g
  <2>5. g.capacity = Beyond(c) /\ Beyond(c) \in Nat
    <3>1. Beyond(c) \in Hybrid!Sizes /\ g.capacity = Beyond(c)
      BY <2>4 DEF Holds
    <3> QED
      BY <1>2, <3>1, SizesAre
  <2>6. b \in k..Beyond(c) /\ b < Beyond(c)
    BY <1>3, <1>4, <2>1, <2>4, <2>5
  <2>7. \A d \in Hybrid!Sizes : d < Beyond(c) => d < b \/ (d = b /\ GoesOn(d))
    <3> SUFFICES ASSUME NEW d \in Hybrid!Sizes, d < Beyond(c) PROVE d < b \/ (d = b /\ GoesOn(d))
      OBVIOUS
    <3>1. d \in Nat /\ (c < d => Beyond(c) <= d)
      BY <1>2, <1>3, SizesAre
    <3>2. d < b \/ d = b
      BY <1>3, <2>1, <2>5, <3>1
    <3> QED
      BY <1>10, <3>2
  <2>8. \A i \in (k + 1)..b : Hybrid!Get(i) # Nil
    BY <1>1 DEF b
  <2>9. b <= MaxIndex
    BY <1>1 DEF b
  <2>10. Running(r, k, v)
    BY <2>2, <2>3, <2>4, <2>5, <2>6, <2>7, <2>8, <2>9 DEF Running
  <2> QED
    BY <1>10, <2>1, <2>3, <2>5, <2>6, <2>10 DEF r, b, c, u
<1> QED
  BY <1>8, <1>9, <1>10

\* u is the table after v was stored at k, past the border, and the border
\* moved to the end of the run.
Appended(u, k, v) ==
  \E n \in k..MaxIndex, c \in Hybrid!Sizes :
    /\ Holds(u, c, k, v) /\ u.length = n
    /\ Hybrid!EndsRun(n, k) /\ Hybrid!Covers(c, n)

\* The loop stops within its turns, at the end of the run.
LEMMA ExtendBorderAppends ==
  ASSUME StorageInv, NEW k \in Index, NEW v, NEW t, Running([table |-> t, border |-> k], k, v)
  PROVE  Appended(ExtendBorder(t, k), k, v)
<1> DEFINE m == 2 * MaxIndex
           g == CHOOSE h : Turns(t, k, h, m)
           last == g[m]
           u == ExtendBorder(t, k)
           Late(s, n) == n <= 2 * (s.border - k) + (IF s.border < s.table.capacity THEN 1 ELSE 0)
           On(s, n) == Running(s, k, v) /\ (GoesOn(s.border) => Late(s, n))
<1>1. m \in Nat /\ MaxIndex \in Nat /\ k \in Nat /\ k >= 1
  BY StorageAssumption DEF Index
<1>2. Turns(t, k, g, m)
  BY <1>1, TurnsExist
<1>3. u = [last.table EXCEPT !.length = last.border]
  BY DEF ExtendBorder, Turns
<1> HIDE DEF g, m, u
<1>4. ASSUME NEW s, Running(s, k, v)
      PROVE  /\ s.border \in Nat /\ s.border >= k /\ s.border <= MaxIndex
             /\ s.table.capacity \in Nat /\ s.border <= s.table.capacity
             /\ s.table.capacity \in Hybrid!Sizes
  <2>1. capacity \in Nat /\ capacity <= Hybrid!MaxCapacity
    BY StateIs DEF StorageInv
  <2>2. s.table.capacity \in Hybrid!Sizes /\ s.border \in k..s.table.capacity
        /\ s.border <= MaxIndex
    BY <1>4 DEF Running, Holds
  <2>3. s.table.capacity \in Nat
    BY <2>1, <2>2, SizesAre
  <2> QED
    BY <1>1, <2>2, <2>3
<1>5. ASSUME NEW s, NEW n \in Nat, On(s, n)
      PROVE  On(ExtendOnce(s), n + 1)
  <2> DEFINE r == ExtendOnce(s)
             a == s.border
             b == r.border
             c == s.table.capacity
             d == r.table.capacity
  <2>1. /\ Running(r, k, v)
        /\ \/ ~GoesOn(a) /\ r = s
           \/ GoesOn(a) /\ b = a + 1
           \/ GoesOn(a) /\ b = a /\ a = c /\ b < d
    BY <1>5, ExtendOnceRuns
  <2>2. a \in Nat /\ b \in Nat /\ c \in Nat /\ d \in Nat /\ a >= k
    BY <1>4, <1>5, <2>1
  <2>3. GoesOn(a) => n <= 2 * (a - k) + (IF a < c THEN 1 ELSE 0)
    BY <1>5
  <2> SUFFICES ASSUME GoesOn(b)
               PROVE  n + 1 <= 2 * (b - k) + (IF b < d THEN 1 ELSE 0)
    BY <2>1
  <2> HIDE DEF a, b, c, d, r
  <2>4. GoesOn(a)
    BY <2>1 DEF a, b
  <2>5. n <= 2 * (a - k) + (IF a < c THEN 1 ELSE 0)
    BY <2>3, <2>4
  <2>6. CASE b = a + 1
    BY <1>1, <2>2, <2>5, <2>6
  <2>7. CASE b = a /\ a = c /\ b < d
    BY <1>1, <2>2, <2>5, <2>7
  <2> QED
    BY <2>1, <2>4, <2>6, <2>7
<1> DEFINE T == {n \in 0..m : ~On(g[n], n)}
<1>6. T = {}
  <2> HIDE DEF On
  <2> SUFFICES ASSUME T # {} PROVE FALSE
    OBVIOUS
  <2>1. PICK x \in T : \A y \in T : x <= y
    <3>1. T \in SUBSET Nat
      BY <1>1
    <3> QED
      BY <3>1, Least
  <2>2. CASE x = 0
    <3>1. g[0] = [table |-> t, border |-> k]
      BY <1>1, <1>2 DEF Turns
    <3> DEFINE s == g[0]
    <3>2. Running(s, k, v)
      BY <3>1
    <3> HIDE DEF s
    <3>3. Late(s, 0)
      BY <1>1, <1>4, <3>2
    <3>4. On(s, 0)
      BY <3>2, <3>3 DEF On
    <3> QED
      BY <2>1, <2>2, <3>4 DEF s
  <2>3. CASE x # 0
    <3>1. x - 1 \in 0..m /\ x - 1 \notin T /\ x - 1 \in Nat /\ x - 1 + 1 = x
      BY <1>1, <2>1, <2>3
    <3>2. On(g[x - 1], x - 1)
      BY <3>1
    <3>3. g[x] = ExtendOnce(g[x - 1])
      BY <1>2, <2>1, <2>3 DEF Turns
    <3>4. On(ExtendOnce(g[x - 1]), x - 1 + 1)
      BY <1>5, <3>1, <3>2
    <3> QED
      BY <2>1, <3>1, <3>3, <3>4
  <2> QED
    BY <2>2, <2>3
<1>7. On(last, m)
  <2> HIDE DEF On
  <2> QED
    BY <1>1, <1>6
<1> HIDE DEF last
<1> DEFINE b == last.border
           a == last.table
           c == a.capacity
<1>8. /\ Running(last, k, v) /\ (GoesOn(b) => m <= 2 * (b - k) + (IF b < c THEN 1 ELSE 0))
      /\ b \in Nat /\ b >= k /\ b <= MaxIndex /\ c \in Nat /\ b <= c /\ c \in Hybrid!Sizes
  BY <1>4, <1>7
<1> HIDE DEF a, b, c
<1>9. ~GoesOn(b)
  <2> SUFFICES ASSUME GoesOn(b) PROVE FALSE
    OBVIOUS
  <2>1. b + 1 <= MaxIndex
    BY <1>1, <1>8 DEF GoesOn, Index
  <2>2. m <= 2 * (b - k) + 1
    BY <1>1, <1>8
  <2> QED
    BY <1>1, <1>8, <2>1, <2>2 DEF m
<1>10. /\ Holds(a, c, k, v)
       /\ \A i \in (k + 1)..b : Hybrid!Get(i) # Nil
       /\ \A d \in Hybrid!Sizes : d < c => d < b
  BY <1>8, <1>9 DEF Running, a, b, c
<1>11. u = [a EXCEPT !.length = b]
  BY <1>3 DEF a, b
<1>12. u = [capacity |-> a.capacity, length |-> b, array |-> a.array, block |-> a.block]
  BY <1>10, <1>11 DEF Holds, WholeTable, IsTable
<1>13. u.capacity = a.capacity /\ u.array = a.array /\ u.block = a.block /\ u.length = b
  BY <1>12
<1> HIDE DEF u
<1>14. IsTable(u)
  BY <1>8, <1>10, <1>12, <1>13 DEF Holds, WholeTable, IsTable
<1>15. WholeTable(u)
  BY <1>10, <1>13, <1>14 DEF Holds, WholeTable
<1>16. MapOf(u) = MapOf(a)
  BY <1>13 DEF MapOf, HashLookup
<1>17. Holds(u, c, k, v)
  BY <1>10, <1>13, <1>15, <1>16 DEF Holds
<1>18. Hybrid!EndsRun(b, k)
  BY <1>9, <1>10 DEF Hybrid!EndsRun, GoesOn, Hybrid!Index, Index
<1>19. Hybrid!Covers(c, b)
  <2>1. \A d \in Hybrid!Sizes : b <= d => c <= d
    <3> SUFFICES ASSUME NEW d \in Hybrid!Sizes, b <= d, ~(c <= d) PROVE FALSE
      OBVIOUS
    <3>1. d \in Nat
      <4>1. capacity \in Nat /\ capacity <= Hybrid!MaxCapacity
        BY StateIs DEF StorageInv
      <4> QED
        BY <4>1, SizesAre
    <3>2. d < b
      BY <1>8, <1>10, <3>1
    <3> QED
      BY <1>8, <3>1, <3>2
  <2> QED
    BY <1>8, <2>1 DEF Hybrid!Covers
<1>20. b \in k..MaxIndex
  BY <1>1, <1>8
<1> QED
  BY <1>8, <1>13, <1>17, <1>18, <1>19, <1>20 DEF Appended, u

-----------------------------------------------------------------------------
\* A value put in a cell of the array part.
LEMMA CellWhole ==
  ASSUME NEW t, WholeTable(t), NEW k \in 1..t.capacity, k \in Index, NEW v
  PROVE  LET u == [t EXCEPT !.array[k] = v]
         IN /\ WholeTable(u) /\ u.capacity = t.capacity /\ u.length = t.length
            /\ u.block = t.block /\ u.array = [t.array EXCEPT ![k] = v]
            /\ MapOf(u) = MapOf(t)
<1> DEFINE u == [t EXCEPT !.array[k] = v]
           a == [t.array EXCEPT ![k] = v]
<1>1. /\ IsTable(t) /\ t.capacity \in Nat /\ t.array = [i \in 1..t.capacity |-> t.array[i]]
  BY DEF WholeTable
<1>2. u = [t EXCEPT !.array = a]
  OBVIOUS
<1>3. a = [i \in 1..t.capacity |-> IF i = k THEN v ELSE t.array[i]]
  BY <1>1
<1>4. /\ a = [i \in 1..t.capacity |-> a[i]]
      /\ \A i \in 1..t.capacity : i \notin Index => a[i] = Nil
  BY <1>3 DEF WholeTable
<1> HIDE DEF a, u
<1>5. u = [capacity |-> t.capacity, length |-> t.length, array |-> a, block |-> t.block]
  BY <1>1, <1>2 DEF IsTable
<1>6. /\ u.capacity = t.capacity /\ u.length = t.length /\ u.array = a /\ u.block = t.block
      /\ u = [capacity |-> u.capacity, length |-> u.length, array |-> u.array, block |-> u.block]
  BY <1>5
<1>7. IsTable(u)
  BY <1>1, <1>6 DEF IsTable
<1>8. WholeTable(u)
  BY <1>1, <1>4, <1>6, <1>7 DEF WholeTable
<1>9. MapOf(u) = MapOf(t)
  BY <1>6 DEF MapOf, HashLookup
<1> QED
  BY <1>6, <1>8, <1>9 DEF u, a

\* The table with room for key k in its array part.
RoomFor(k) == IF k <= capacity THEN Table ELSE ArrayGrow(Table, k)

\* A value stored there is where HybridTable has it, in the smallest array
\* part that has the room.
LEMMA RoomHolds ==
  ASSUME StorageInv, NEW k \in Index, k <= GrowLimit(Table), NEW v
  PROVE  LET g == RoomFor(k)
             u == [g EXCEPT !.array[k] = v]
         IN /\ WholeTable(g) /\ g.length = length /\ k \in 1..g.capacity
            /\ Holds(u, g.capacity, k, v) /\ u.length = length
            /\ Hybrid!Covers(g.capacity, k)
<1> DEFINE g == RoomFor(k)
           c == g.capacity
           u == [g EXCEPT !.array[k] = v]
<1>1. /\ capacity \in Nat /\ capacity <= Hybrid!MaxCapacity /\ WholeTable(Table)
      /\ array = [i \in 1..capacity |-> array[i]]
      /\ HashMap = MapOf(Table) /\ HashMap \in [Seens -> Cells]
      /\ Table.capacity = capacity /\ Table.length = length /\ Table.array = array
  BY StateIs DEF StorageInv
<1>2. k \in Nat /\ k >= 1 /\ k <= MaxIndex /\ MaxIndex \in Nat
  BY StorageAssumption DEF Index
<1>3. capacity \in Hybrid!Sizes /\ (capacity < MaxIndex => Beyond(capacity) \in Hybrid!Sizes)
      /\ \A d \in Hybrid!Sizes : d \in Nat /\ capacity <= d /\ (capacity < d => Beyond(capacity) <= d)
  BY <1>1, SizesAre
<1>4. /\ WholeTable(g) /\ g.length = length /\ c \in Hybrid!Sizes /\ c \in Nat /\ k <= c
      /\ g.array = Hybrid!ArrayOf(c) /\ MapOf(g) = Hybrid!HashBeyond(c)
      /\ \A d \in Hybrid!Sizes : k <= d => c <= d
  <2>1. CASE k <= capacity
    <3>1. g = Table /\ c = capacity
      BY <1>1, <2>1 DEF RoomFor
    <3>2. Hybrid!ArrayOf(capacity) = array
      <4>1. Hybrid!ArrayOf(capacity) = [i \in 1..capacity |-> array[i]]
        BY <1>1, <1>3, HoldsCells
      <4> QED
        BY <1>1, <4>1
    <3>3. Hybrid!HashBeyond(capacity) = HashMap
      <4>1. \A j : j \notin (capacity + 1)..capacity
        BY <1>1
      <4>2. Hybrid!HashBeyond(capacity) = [j \in Seens |-> HashMap[j]]
        BY <1>3, <4>1, HoldsCells
      <4> QED
        BY <1>1, <4>2
    <3> QED
      BY <1>1, <1>3, <2>1, <3>1, <3>2, <3>3
  <2>2. CASE ~(k <= capacity)
    <3>1. k > capacity /\ capacity < MaxIndex
      BY <1>1, <1>2, <2>2
    <3>2. GrowLimit(Table) = Beyond(capacity) /\ Beyond(capacity) \in Hybrid!Sizes
      BY <1>1, <1>3, <3>1 DEF GrowLimit, Beyond
    <3> DEFINE x == ArrayGrow(Table, k)
               l == Beyond(capacity)
    <3>3. LET y == ArrayGrow(Table, k)
              e == GrowLimit(Table)
          IN /\ y.capacity = e /\ y.length = Table.length
             /\ y.array = [i \in 1..e |-> IF i <= Table.capacity THEN Table.array[i]
                                          ELSE IF i \in Index THEN MapOf(Table)[i] ELSE Nil]
             /\ MapOf(y) = [j \in Seens |-> IF j \in (Table.capacity + 1)..e THEN Nil
                                            ELSE MapOf(Table)[j]]
      BY <1>1, <3>1, ArrayGrowMaps
    <3>4. /\ x.capacity = l /\ x.length = length
          /\ x.array = [i \in 1..l |-> IF i <= capacity THEN array[i]
                                       ELSE IF i \in Index THEN HashMap[i] ELSE Nil]
          /\ MapOf(x) = [j \in Seens |-> IF j \in (capacity + 1)..l THEN Nil ELSE HashMap[j]]
      BY <1>1, <3>2, <3>3
    <3>5. WholeTable(x)
      BY <1>1, <3>1, ArrayGrowWhole
    <3>6. x.array = Hybrid!ArrayOf(l) /\ MapOf(x) = Hybrid!HashBeyond(l)
      BY <3>2, <3>4, HoldsCells
    <3>7. g = x
      BY <2>2 DEF RoomFor
    <3>8. k <= l /\ \A d \in Hybrid!Sizes : k <= d => l <= d
      BY <1>1, <1>2, <1>3, <3>1, <3>2
    <3> HIDE DEF x, l, g
    <3> QED
      BY <1>3, <3>2, <3>4, <3>5, <3>6, <3>7, <3>8 DEF l
  <2> QED
    BY <2>1, <2>2
<1> HIDE DEF g
<1>5. k \in 1..c
  BY <1>2, <1>4
<1>6. /\ WholeTable(u) /\ u.capacity = c /\ u.length = length
      /\ u.array = [g.array EXCEPT ![k] = v] /\ MapOf(u) = MapOf(g)
  BY <1>4, <1>5, CellWhole
<1> HIDE DEF u
<1>7. Holds(u, c, k, v)
  BY <1>4, <1>6 DEF Holds
<1>8. Hybrid!Covers(c, k)
  BY <1>4 DEF Hybrid!Covers
<1> QED
  BY <1>4, <1>5, <1>6, <1>7, <1>8 DEF g, u

-----------------------------------------------------------------------------
\* u is the table after one store of HybridTable.
Puts(u, k, v) ==
  \/ /\ v = Nil /\ k \in 1..capacity
     /\ u.capacity = capacity /\ u.array = [array EXCEPT ![k] = Nil] /\ MapOf(u) = HashMap
     /\ u.length = IF k <= length THEN k - 1 ELSE length
  \/ /\ v # Nil /\ k \in Index /\ k <= GrowLimit(Table) /\ k # length + 1
     /\ u.length = length
     /\ \E c \in Hybrid!Sizes : Hybrid!Covers(c, k) /\ Holds(u, c, k, v)
  \/ v # Nil /\ k = length + 1 /\ Appended(u, k, v)
  \/ /\ k \notin 1..capacity /\ (v # Nil => ~(k \in Index /\ k <= GrowLimit(Table)))
     /\ u.capacity = capacity /\ u.array = array /\ u.length = length
     /\ MapOf(u) = [HashMap EXCEPT ![k] = v]

\* A value stored where there is room for it.
LEMMA RoomPuts ==
  ASSUME StorageInv, NEW k \in Index, k <= GrowLimit(Table), NEW v, v # Nil
  PROVE  Puts(ArrayStore(RoomFor(k), k, v), k, v)
<1> DEFINE g == RoomFor(k)
           u == [g EXCEPT !.array[k] = v]
           r == ArrayStore(g, k, v)
<1>1. /\ WholeTable(g) /\ g.length = length /\ k \in 1..g.capacity
      /\ Holds(u, g.capacity, k, v) /\ u.length = length
      /\ Hybrid!Covers(g.capacity, k)
  BY RoomHolds
<1>2. r = IF k = g.length + 1 THEN ExtendBorder(u, k) ELSE u
  BY DEF ArrayStore
<1>3. k \in Nat /\ k >= 1 /\ k <= MaxIndex /\ MaxIndex \in Nat /\ u.capacity = g.capacity
      /\ g.capacity \in Hybrid!Sizes
  BY <1>1, StorageAssumption DEF Index, Holds
<1> HIDE DEF g, u, r
<1>4. CASE k # length + 1
  <2>1. r = u
    BY <1>1, <1>2, <1>4
  <2> QED
    BY <1>1, <1>3, <1>4, <2>1 DEF Puts, r, g
<1>5. CASE k = length + 1
  <2> DEFINE s == [table |-> u, border |-> k]
  <2>1. s.table = u /\ s.border = k
    OBVIOUS
  <2>2. \A d \in Hybrid!Sizes : d < u.capacity => d < k
    <3> SUFFICES ASSUME NEW d \in Hybrid!Sizes, d < u.capacity, ~(d < k) PROVE FALSE
      OBVIOUS
    <3>1. capacity \in Nat /\ capacity <= Hybrid!MaxCapacity
      BY StateIs DEF StorageInv
    <3>2. d \in Nat /\ g.capacity \in Nat
      BY <1>3, <3>1, SizesAre
    <3>3. k <= d
      BY <1>3, <3>2
    <3>4. g.capacity <= d
      BY <1>1, <3>3 DEF Hybrid!Covers
    <3> QED
      BY <1>3, <3>2, <3>4
  <2>3. \A i \in (k + 1)..k : Hybrid!Get(i) # Nil
    BY <1>3
  <2>4. k \in k..u.capacity
    BY <1>1, <1>3
  <2>5. Holds(u, u.capacity, k, v)
    BY <1>1, <1>3
  <2> HIDE DEF s
  <2>6. s = [table |-> s.table, border |-> s.border]
    BY <2>1 DEF s
  <2>7. Running(s, k, v)
    BY <1>3, <2>1, <2>2, <2>3, <2>4, <2>5, <2>6 DEF Running
  <2>8. Appended(ExtendBorder(u, k), k, v)
    BY <2>7, ExtendBorderAppends DEF s
  <2>9. r = ExtendBorder(u, k)
    BY <1>1, <1>2, <1>5
  <2> QED
    BY <1>5, <2>8, <2>9 DEF Puts, r, g
<1> QED
  BY <1>4, <1>5

\* What __builtin_table_set does is one store of HybridTable.
LEMMA SetPuts ==
  ASSUME StorageInv, NEW key \in RawKeys, NEW v
  PROVE  Puts(SetIn(Table, key, v), Seen(key), v)
<1> DEFINE k == IndexOf(key)
           u == SetIn(Table, key, v)
           n == Seen(key)
<1>1. /\ capacity \in Nat /\ length \in Nat /\ length <= capacity /\ WholeTable(Table)
      /\ array = [i \in 1..capacity |-> array[i]]
      /\ HashMap = MapOf(Table) /\ HashMap \in [Seens -> Cells]
      /\ Table.capacity = capacity /\ Table.length = length /\ Table.array = array
      /\ Table.block = block
  BY StateIs DEF StorageInv
<1>2. \/ k \in Index /\ n = k /\ k \in Nat /\ k >= 1
      \/ k = 0 /\ n \notin Int
  <2>1. CASE key \in Numbers
    <3>1. PICK i \in Index : key = <<"num", i, "-">>
      BY <2>1 DEF Numbers
    <3>2. k = i /\ n = i /\ i \in Nat /\ i >= 1
      BY <3>1, StorageAssumption DEF IndexOf, Seen, Index
    <3> QED
      BY <3>2
  <2>2. CASE key \in RawNames
    BY <2>2, StorageAssumption DEF IndexOf, Seen
  <2> QED
    BY <2>1, <2>2 DEF RawKeys
<1>3. u = IF k \in 1..capacity THEN ArrayStore(Table, k, v)
          ELSE IF k >= 1 /\ v # Nil /\ k <= GrowLimit(Table)
               THEN ArrayStore(ArrayGrow(Table, k), k, v)
          ELSE HashStore(Table, key, v)
  BY <1>1 DEF SetIn, InArray
<1> HIDE DEF k, u, n
<1>4. CASE k \in 1..capacity /\ v = Nil
  <2>1. n = k /\ k \in Index /\ k \in Nat
    BY <1>1, <1>2, <1>4
  <2> DEFINE x == [Table EXCEPT !.array[k] = v]
  <2>2. u = IF k > length THEN x ELSE [x EXCEPT !.length = k - 1]
    BY <1>1, <1>3, <1>4 DEF ArrayStore
  <2>3. /\ WholeTable(x) /\ x.capacity = capacity /\ x.length = length
        /\ x.array = [array EXCEPT ![k] = v]
        /\ MapOf(x) = HashMap
    <3>1. k \in 1..Table.capacity
      BY <1>1, <1>4
    <3>2. LET e == [Table EXCEPT !.array[k] = v]
          IN /\ WholeTable(e) /\ e.capacity = Table.capacity /\ e.length = Table.length
             /\ e.array = [Table.array EXCEPT ![k] = v] /\ MapOf(e) = MapOf(Table)
      <4>1. WholeTable(Table) /\ k \in Index
        BY <1>1, <2>1
      <4> QED
        BY <3>1, <4>1, CellWhole
    <3> QED
      BY <1>1, <3>2
  <2> HIDE DEF x
  <2> DEFINE y == [x EXCEPT !.length = k - 1]
  <2>4. /\ y.capacity = capacity /\ y.length = k - 1 /\ y.array = x.array /\ y.block = x.block
    <3>1. y = [capacity |-> x.capacity, length |-> k - 1, array |-> x.array, block |-> x.block]
      <4>1. x = [capacity |-> x.capacity, length |-> x.length, array |-> x.array,
                 block |-> x.block]
        BY <2>3 DEF WholeTable, IsTable
      <4> DEFINE m == k - 1
      <4> HIDE DEF m
      <4>2. [x EXCEPT !.length = m] = [capacity |-> x.capacity, length |-> m, array |-> x.array,
                                      block |-> x.block]
        BY <4>1
      <4> QED
        BY <4>2 DEF m
    <3> QED
      BY <2>3, <3>1
  <2>5. MapOf(y) = HashMap
    BY <2>3, <2>4 DEF MapOf, HashLookup
  <2> HIDE DEF y
  <2>6. CASE k > length
    <3>1. u = x /\ ~(k <= length)
      BY <1>1, <2>1, <2>2, <2>6
    <3> QED
      BY <1>4, <2>1, <2>3, <3>1 DEF Puts, u, n
  <2>7. CASE ~(k > length)
    <3>1. u = y /\ k <= length
      BY <1>1, <2>1, <2>2, <2>7 DEF y
    <3> QED
      BY <1>4, <2>1, <2>3, <2>4, <2>5, <3>1 DEF Puts, u, n
  <2> QED
    BY <2>6, <2>7
<1>5. CASE k \in 1..capacity /\ v # Nil
  <2>1. n = k /\ k \in Index /\ k \in Nat /\ k <= capacity /\ k <= GrowLimit(Table)
    <3>1. n = k /\ k \in Index /\ k \in Nat /\ k <= capacity
      BY <1>1, <1>2, <1>5
    <3>2. capacity <= GrowLimit(Table)
      BY <1>1, StorageAssumption DEF GrowLimit
    <3>3. GrowLimit(Table) \in Int
      BY <1>1, StorageAssumption DEF GrowLimit
    <3> QED
      BY <1>1, <3>1, <3>2, <3>3
  <2>2. u = ArrayStore(RoomFor(k), k, v)
    BY <1>3, <1>5, <2>1 DEF RoomFor
  <2> QED
    BY <1>5, <2>1, <2>2, RoomPuts DEF u, n
<1>6. CASE k \notin 1..capacity /\ k >= 1 /\ v # Nil /\ k <= GrowLimit(Table)
  <2>1. n = k /\ k \in Index /\ ~(k <= capacity)
    BY <1>1, <1>2, <1>6
  <2>2. u = ArrayStore(RoomFor(k), k, v)
    BY <1>3, <1>6, <2>1 DEF RoomFor
  <2> QED
    BY <1>6, <2>1, <2>2, RoomPuts DEF u, n
<1>7. CASE k \notin 1..capacity /\ ~(k >= 1 /\ v # Nil /\ k <= GrowLimit(Table))
  <2>1. u = HashStore(Table, key, v)
    BY <1>3, <1>7
  <2>2. /\ MapOf(u) = [HashMap EXCEPT ![n] = v]
        /\ u.capacity = capacity /\ u.array = array /\ u.length = length
    BY <1>1, <2>1, HashStoreMaps DEF n
  <2>3. n \notin 1..capacity /\ (v # Nil => ~(n \in Index /\ n <= GrowLimit(Table)))
    <3>1. CASE n = k /\ k >= 1
      BY <1>7, <3>1
    <3>2. CASE n \notin Int
      <4>1. n \notin Index /\ n \notin 1..capacity
        BY <3>2 DEF Index
      <4> QED
        BY <4>1
    <3> QED
      BY <1>2, <3>1, <3>2
  <2> QED
    BY <2>2, <2>3 DEF Puts, u, n
<1> QED
  BY <1>4, <1>5, <1>6, <1>7

-----------------------------------------------------------------------------
\* The next state's parts are those of the table it becomes.
LEMMA BecomeMaps ==
  ASSUME NEW u, WholeTable(u), Become(u)
  PROVE  /\ Table' = u /\ WholeTable(Table)' /\ HashMap' = MapOf(u)
         /\ capacity' = u.capacity /\ length' = u.length /\ array' = u.array
<1>1. Table' = u
  BY BecomeIs DEF WholeTable
<1>2. /\ capacity' = u.capacity /\ length' = u.length /\ array' = u.array /\ block' = u.block
  BY DEF Become
<1>3. HashMap' = MapOf(u)
  BY <1>1 DEF HashMap, MapOf, WordFor, HashLookup, Seens
<1> QED
  BY <1>1, <1>2, <1>3

\* A store of the slots is one of HybridTable.
LEMMA PutsPut ==
  ASSUME StorageInv, NEW u, WholeTable(u), Become(u), NEW k, NEW v, Puts(u, k, v)
  PROVE  Hybrid!Put(k, v)
<1>1. /\ HashMap' = MapOf(u)
      /\ capacity' = u.capacity /\ length' = u.length /\ array' = u.array
  BY BecomeMaps
<1>2. Hybrid!GrowLimit = GrowLimit(Table)
  BY StateIs DEF Hybrid!GrowLimit, GrowLimit
<1>3. CASE /\ v = Nil /\ k \in 1..capacity
           /\ u.capacity = capacity /\ u.array = [array EXCEPT ![k] = Nil] /\ MapOf(u) = HashMap
           /\ u.length = IF k <= length THEN k - 1 ELSE length
  <2>1. Hybrid!ClearInArray(k)
    BY <1>1, <1>3 DEF Hybrid!ClearInArray, Hybrid!InArray
  <2> QED
    BY <1>3, <2>1 DEF Hybrid!Put
<1>4. CASE /\ v # Nil /\ k \in Index /\ k <= GrowLimit(Table) /\ k # length + 1
           /\ u.length = length
           /\ \E c \in Hybrid!Sizes : Hybrid!Covers(c, k) /\ Holds(u, c, k, v)
  <2>1. PICK c \in Hybrid!Sizes : Hybrid!Covers(c, k) /\ Holds(u, c, k, v)
    BY <1>4
  <2>2. /\ capacity' = c /\ array' = [Hybrid!ArrayOf(c) EXCEPT ![k] = v]
        /\ HashMap' = Hybrid!HashBeyond(c) /\ length' = length
    BY <1>1, <1>4, <2>1 DEF Holds
  <2>3. Hybrid!StoreInArray(k, v)
    BY <1>2, <1>4, <2>1, <2>2 DEF Hybrid!StoreInArray, Hybrid!Index, Index
  <2> QED
    BY <1>4, <2>3 DEF Hybrid!Put
<1>5. CASE v # Nil /\ k = length + 1 /\ Appended(u, k, v)
  <2>1. PICK n \in k..MaxIndex, c \in Hybrid!Sizes :
          /\ Holds(u, c, k, v) /\ u.length = n
          /\ Hybrid!EndsRun(n, k) /\ Hybrid!Covers(c, n)
    BY <1>5 DEF Appended
  <2>2. /\ capacity' = c /\ array' = [Hybrid!ArrayOf(c) EXCEPT ![k] = v]
        /\ HashMap' = Hybrid!HashBeyond(c) /\ length' = n
    BY <1>1, <2>1 DEF Holds
  <2>3. Hybrid!Append(v)
    BY <1>5, <2>1, <2>2 DEF Hybrid!Append
  <2> QED
    BY <1>5, <2>3 DEF Hybrid!Put
<1>6. CASE /\ k \notin 1..capacity /\ (v # Nil => ~(k \in Index /\ k <= GrowLimit(Table)))
           /\ u.capacity = capacity /\ u.array = array /\ u.length = length
           /\ MapOf(u) = [HashMap EXCEPT ![k] = v]
  <2>1. Hybrid!StoreInHash(k, v)
    BY <1>1, <1>2, <1>6 DEF Hybrid!StoreInHash, Hybrid!InArray, Hybrid!Index, Index
  <2> QED
    BY <2>1 DEF Hybrid!Put
<1> QED
  BY <1>3, <1>4, <1>5, <1>6 DEF Puts

\* So __builtin_table_set is a store of HybridTable.
LEMMA SetRefines ==
  ASSUME StorageInv, NEW key \in RawKeys, NEW v, Become(SetIn(Table, key, v))
  PROVE  Hybrid!Put(Seen(key), v) /\ WholeTable(Table)'
<1>1. WholeTable(SetIn(Table, key, v))
  BY SetWhole DEF StorageInv
<1> QED
  BY <1>1, SetPuts, PutsPut, BecomeMaps

-----------------------------------------------------------------------------
\* A store in a cell of the array part, away from the border.
LEMMA CellStore ==
  ASSUME NEW u, WholeTable(u), NEW k \in 1..u.capacity, k \in Index, k # u.length + 1,
         k <= u.length, NEW v
  PROVE  LET r == SetIn(u, NumberKey(k), v)
         IN /\ WholeTable(r) /\ r.capacity = u.capacity
            /\ r.length = (IF v = Nil THEN k - 1 ELSE u.length)
            /\ r.array = [u.array EXCEPT ![k] = v] /\ MapOf(r) = MapOf(u)
<1> DEFINE r == SetIn(u, NumberKey(k), v)
           x == [u EXCEPT !.array[k] = v]
           m == k - 1
           y == [x EXCEPT !.length = m]
<1>1. IndexOf(NumberKey(k)) = k /\ NumberKey(k) \in RawKeys
  BY NumberKeys DEF IndexOf, NumberKey
<1>2. r = ArrayStore(u, k, v)
  BY <1>1 DEF SetIn, InArray
<1>3. u.length \in Nat /\ k \in Nat
  <2>1. u.length \in Nat
    BY DEF WholeTable, IsTable
  <2>2. k \in Nat
    BY StorageAssumption DEF Index
  <2> QED
    BY <2>1, <2>2
<1>4. ~(k > u.length)
  BY <1>3
<1>5. r = IF v = Nil THEN y ELSE x
  BY <1>2, <1>4 DEF ArrayStore
<1>6. /\ WholeTable(x) /\ x.capacity = u.capacity /\ x.length = u.length
      /\ x.array = [u.array EXCEPT ![k] = v] /\ MapOf(x) = MapOf(u)
  BY CellWhole
<1>7. WholeTable(r)
  BY <1>1, SetWhole
<1> HIDE DEF r, x, m
<1>8. y = [capacity |-> x.capacity, length |-> m, array |-> x.array, block |-> x.block]
  <2>1. x = [capacity |-> x.capacity, length |-> x.length, array |-> x.array, block |-> x.block]
    BY <1>6 DEF WholeTable, IsTable
  <2> QED
    BY <2>1
<1>9. y.capacity = x.capacity /\ y.length = m /\ y.array = x.array /\ y.block = x.block
  BY <1>8
<1>10. MapOf(y) = MapOf(x)
  BY <1>9 DEF MapOf, HashLookup
<1> HIDE DEF y
<1>11. CASE v = Nil
  BY <1>5, <1>6, <1>7, <1>9, <1>10, <1>11 DEF r, m
<1>12. CASE v # Nil
  BY <1>5, <1>6, <1>7, <1>12 DEF r
<1> QED
  BY <1>11, <1>12

\* u is the table with c cells and a border at n once the elements from q - 1
\* on have moved up by one.
Moved(u, c, n, q) ==
  /\ WholeTable(u) /\ u.capacity = c /\ u.length = n
  /\ u.array = [i \in 1..c |-> IF i \in q..(length + 1) THEN array[i - 1]
                               ELSE Hybrid!ArrayOf(c)[i]]
  /\ MapOf(u) = Hybrid!HashBeyond(c)

\* The first element to move up is stored past the border.
LEMMA FirstMoves ==
  ASSUME StorageInv, length + 1 \in Index, length >= 1
  PROVE  \E n \in (length + 1)..MaxIndex, c \in Hybrid!Sizes :
           /\ Hybrid!EndsRun(n, length + 1) /\ Hybrid!Covers(c, n)
           /\ Moved(Shift1(Table, 1), c, n, length + 1)
<1> DEFINE k == length + 1
           e == array[length]
           u == SetIn(Table, NumberKey(k), e)
<1>1. /\ capacity \in Nat /\ length \in Nat /\ length <= capacity /\ WholeTable(Table)
      /\ \A i \in 1..length : array[i] # Nil
      /\ capacity <= Hybrid!MaxCapacity
      /\ Table.capacity = capacity /\ Table.length = length /\ Table.array = array
  BY StateIs DEF StorageInv
<1>2. length \in 1..length /\ length \in 1..capacity
  BY <1>1
<1>3. Get(Table, NumberKey(length)) = e
  <2>1. IndexOf(NumberKey(length)) = length
    BY DEF IndexOf, NumberKey
  <2> QED
    BY <1>1, <1>2, <2>1 DEF Get, InArray
<1>4. e # Nil
  BY <1>1, <1>2
<1>5. Shift1(Table, 1) = u
  <2>1. length + 1 - 1 = length
    BY <1>1
  <2> QED
    BY <1>3, <2>1 DEF Shift1
<1>6. NumberKey(k) \in RawKeys /\ Seen(NumberKey(k)) = k
  BY NumberKeys DEF NumberKey, Seen
<1> HIDE DEF e
<1>7. Puts(u, k, e) /\ WholeTable(u)
  BY <1>1, <1>6, SetPuts, SetWhole
<1>8. k <= GrowLimit(Table)
  BY <1>1, StorageAssumption DEF GrowLimit
<1>9. Appended(u, k, e)
  BY <1>4, <1>7, <1>8 DEF Puts
<1> HIDE DEF u
<1>10. PICK n \in k..MaxIndex, c \in Hybrid!Sizes :
         /\ Holds(u, c, k, e) /\ u.length = n
         /\ Hybrid!EndsRun(n, k) /\ Hybrid!Covers(c, n)
  BY <1>9 DEF Appended
<1>11. c \in Nat
  BY <1>1, SizesAre
<1>12. u.array = [i \in 1..c |-> IF i \in k..(length + 1) THEN array[i - 1]
                                 ELSE Hybrid!ArrayOf(c)[i]]
  <2>1. u.array = [Hybrid!ArrayOf(c) EXCEPT ![k] = e]
    BY <1>10 DEF Holds
  <2>2. Hybrid!ArrayOf(c) = [i \in 1..c |-> Hybrid!ArrayOf(c)[i]]
    BY DEF Hybrid!ArrayOf
  <2>3. u.array = [i \in 1..c |-> IF i = k THEN e ELSE Hybrid!ArrayOf(c)[i]]
    BY <2>1, <2>2
  <2>4. \A i \in 1..c : /\ i \in k..(length + 1) <=> i = k
                        /\ i = k => array[i - 1] = e
    BY <1>1 DEF e
  <2> QED
    BY <2>3, <2>4
<1>13. Moved(u, c, n, k)
  BY <1>10, <1>12 DEF Moved, Holds
<1> QED
  BY <1>5, <1>10, <1>13

\* The next one is stored in the cell the last one left.
LEMMA NextMoves ==
  ASSUME StorageInv, length + 1 \in Index, NEW n \in (length + 1)..MaxIndex, NEW c \in Hybrid!Sizes,
         n <= c, NEW j \in 1..(length - 1), NEW u, Moved(u, c, n, length + 2 - j)
  PROVE  Moved(Shift1(u, j + 1), c, n, length + 2 - (j + 1))
<1> DEFINE k == length - j
           q == k + 2
           e == array[k]
           r == SetIn(u, NumberKey(k + 1), e)
           A(i) == Hybrid!ArrayOf(c)[i]
<1>1. /\ capacity \in Nat /\ length \in Nat /\ length <= capacity /\ WholeTable(Table)
      /\ \A i \in 1..length : array[i] # Nil
      /\ capacity <= Hybrid!MaxCapacity
  BY StateIs DEF StorageInv
<1>2. c \in Nat /\ capacity <= c /\ MaxIndex \in Nat
  BY <1>1, SizesAre, StorageAssumption
<1>3. /\ k \in Nat /\ k >= 1 /\ k < length /\ length + 2 - j = k + 2
      /\ length + 1 - (j + 1) = k /\ length + 2 - (j + 1) = k + 1 /\ length + 1 <= n /\ n \in Nat
  BY <1>1
<1> HIDE DEF k
<1>4. /\ k \in 1..c /\ k + 1 \in 1..c /\ k \in 1..length /\ k + 1 \in Index /\ k <= capacity
      /\ k + 1 # n + 1 /\ k + 1 <= n
  BY <1>1, <1>2, <1>3 DEF Index
<1>5. /\ WholeTable(u) /\ u.capacity = c /\ u.length = n
      /\ u.array = [i \in 1..c |-> IF i \in (k + 2)..(length + 1) THEN array[i - 1] ELSE A(i)]
      /\ MapOf(u) = Hybrid!HashBeyond(c)
  BY <1>3 DEF Moved
<1>6. A(k) = e
  BY <1>2, <1>4, HoldsCells
<1> HIDE DEF A
<1>7. u.array[k] = e
  <2>1. k \notin (k + 2)..(length + 1)
    BY <1>3
  <2> QED
    BY <1>4, <1>5, <1>6, <2>1
<1>8. Get(u, NumberKey(k)) = e
  <2>1. IndexOf(NumberKey(k)) = k
    BY DEF IndexOf, NumberKey
  <2> QED
    BY <1>4, <1>5, <1>7, <2>1 DEF Get, InArray
<1>9. Shift1(u, j + 1) = r
  BY <1>3, <1>8 DEF Shift1
<1>10. e # Nil
  BY <1>1, <1>4
<1> HIDE DEF e
<1>11. /\ WholeTable(r) /\ r.capacity = c /\ r.length = n
       /\ r.array = [u.array EXCEPT ![k + 1] = e] /\ MapOf(r) = MapOf(u)
  <2>1. k + 1 \in 1..u.capacity /\ k + 1 # u.length + 1 /\ k + 1 <= u.length
    BY <1>4, <1>5
  <2> DEFINE l == k + 1
  <2> HIDE DEF l
  <2>2. LET x == SetIn(u, NumberKey(l), e)
        IN /\ WholeTable(x) /\ x.capacity = u.capacity
           /\ x.length = (IF e = Nil THEN l - 1 ELSE u.length)
           /\ x.array = [u.array EXCEPT ![l] = e] /\ MapOf(x) = MapOf(u)
    BY <1>4, <1>5, <2>1, CellStore DEF l
  <2> QED
    BY <1>5, <1>10, <2>2 DEF l
<1> HIDE DEF r
<1>12. r.array = [i \in 1..c |-> IF i \in (k + 1)..(length + 1) THEN array[i - 1] ELSE A(i)]
  <2>1. ASSUME NEW i \in 1..c
        PROVE  r.array[i] = IF i \in (k + 1)..(length + 1) THEN array[i - 1] ELSE A(i)
    <3>1. CASE i = k + 1
      <4>1. i - 1 = k /\ i \in (k + 1)..(length + 1)
        BY <1>1, <1>3, <3>1
      <4> QED
        BY <1>5, <1>11, <3>1, <4>1 DEF e
    <3>2. CASE i # k + 1
      <4>1. i \in (k + 1)..(length + 1) <=> i \in (k + 2)..(length + 1)
        BY <1>1, <1>3, <3>2
      <4> QED
        BY <1>5, <1>11, <3>2, <4>1
    <3> QED
      BY <3>1, <3>2
  <2>2. r.array = [i \in 1..c |-> r.array[i]]
    BY <1>5, <1>11
  <2> QED
    BY <2>1, <2>2
<1> QED
  BY <1>3, <1>5, <1>9, <1>11, <1>12 DEF Moved, A

\* The elements from the position to the last move up by one.
LEMMA ShiftUpMoves ==
  ASSUME StorageInv, length + 1 \in Index, NEW p \in 1..length
  PROVE  \E n \in (length + 1)..MaxIndex, c \in Hybrid!Sizes :
           /\ Hybrid!EndsRun(n, length + 1) /\ Hybrid!Covers(c, n)
           /\ Moved(ShiftUp(p), c, n, p + 1)
<1> DEFINE g == CHOOSE h : Shifts(h, MaxIndex)
           m == length + 1 - p
<1>1. /\ capacity \in Nat /\ length \in Nat /\ capacity <= Hybrid!MaxCapacity /\ MaxIndex \in Nat
      /\ length + 1 <= MaxIndex /\ length >= 1 /\ p \in Nat /\ p >= 1 /\ p <= length
  BY StateIs, StorageAssumption DEF StorageInv, Index
<1>2. Shifts(g, MaxIndex)
  BY <1>1, ShiftsExist
<1>3. ShiftUp(p) = g[m]
  BY <1>1 DEF ShiftUp, Shifts, Shift1
<1> HIDE DEF g
<1>4. m \in 1..length /\ m <= MaxIndex /\ length + 2 - m = p + 1
  BY <1>1
<1> HIDE DEF m
<1>5. PICK n \in (length + 1)..MaxIndex, c \in Hybrid!Sizes :
        /\ Hybrid!EndsRun(n, length + 1) /\ Hybrid!Covers(c, n)
        /\ Moved(Shift1(Table, 1), c, n, length + 1)
  BY <1>1, FirstMoves
<1>6. n <= c
  BY <1>5 DEF Hybrid!Covers
<1>7. ASSUME NEW j \in 1..length
      PROVE  g[j] = Shift1(g[j - 1], j)
  BY <1>1, <1>2 DEF Shifts
<1> DEFINE T == {j \in 1..m : ~Moved(g[j], c, n, length + 2 - j)}
<1>8. T = {}
  <2> SUFFICES ASSUME T # {} PROVE FALSE
    OBVIOUS
  <2>1. PICK x \in T : \A y \in T : x <= y
    <3>1. T \in SUBSET Nat
      BY <1>4
    <3> QED
      BY <3>1, Least
  <2>2. x \in 1..length /\ x \in 1..m
    BY <1>1, <1>4, <2>1
  <2>3. CASE x = 1
    <3>1. g[0] = Table
      BY <1>1, <1>2 DEF Shifts
    <3>2. g[1] = Shift1(Table, 1)
      BY <1>7, <2>2, <2>3, <3>1
    <3>3. length + 2 - 1 = length + 1
      BY <1>1
    <3> QED
      BY <1>5, <2>1, <2>3, <3>2, <3>3
  <2>4. CASE x # 1
    <3>1. x - 1 \in 1..m /\ x - 1 \notin T /\ x - 1 \in 1..(length - 1) /\ x - 1 + 1 = x
      BY <1>1, <1>4, <2>1, <2>2, <2>4
    <3> DEFINE j == x - 1
    <3>2. Moved(g[j], c, n, length + 2 - j)
      BY <3>1
    <3>3. g[x] = Shift1(g[j], x)
      BY <1>7, <2>2
    <3>4. j \in 1..(length - 1) /\ j + 1 = x
      BY <3>1
    <3> HIDE DEF j
    <3>5. Moved(Shift1(g[j], j + 1), c, n, length + 2 - (j + 1))
      BY <1>6, <3>2, <3>4, NextMoves
    <3> QED
      BY <2>1, <3>3, <3>4, <3>5
  <2> QED
    BY <2>3, <2>4
<1>9. Moved(g[m], c, n, length + 2 - m)
  <2>1. m \in 1..m
    BY <1>4
  <2> QED
    BY <1>8, <2>1
<1>10. Moved(ShiftUp(p), c, n, p + 1)
  BY <1>3, <1>4, <1>9
<1> QED
  BY <1>5, <1>10

\* table.insert through the slots is the one of HybridTable.
LEMMA InsertRefinesHybrid ==
  ASSUME StorageInv, NEW pos \in Positions, NEW v \in Cells, Insert(pos, v)
  PROVE  Hybrid!Insert(pos, v) /\ WholeTable(Table)'
<1> DEFINE p == InsertPosition(pos)
           s == ShiftUp(p)
           r == SetIn(s, NumberKey(p), v)
<1>1. /\ length + 1 \in Index /\ p \in Index /\ Become(r) /\ result' = v
  BY DEF Insert
<1>2. Hybrid!InsertPosition(pos) = p /\ Hybrid!Index = Index
  BY DEF InsertPosition, Hybrid!InsertPosition, Hybrid!Index, Index
<1>3. /\ capacity \in Nat /\ length \in Nat /\ capacity <= Hybrid!MaxCapacity
      /\ p \in Nat /\ p >= 1 /\ WholeTable(Table) /\ MaxIndex \in Nat
  BY <1>1, StateIs, StorageAssumption DEF StorageInv, Index
<1>4. NumberKey(p) \in RawKeys /\ Seen(NumberKey(p)) = p
  BY <1>1, NumberKeys DEF NumberKey, Seen
<1> HIDE DEF p, r
<1>5. CASE p <= length
  <2>1. p \in 1..length
    BY <1>3, <1>5
  <2>2. PICK n \in (length + 1)..MaxIndex, c \in Hybrid!Sizes :
          /\ Hybrid!EndsRun(n, length + 1) /\ Hybrid!Covers(c, n)
          /\ Moved(s, c, n, p + 1)
    BY <1>1, <2>1, ShiftUpMoves
  <2> HIDE DEF s
  <2>3. c \in Nat /\ n <= c /\ n \in Nat /\ n > length
    <3>1. c \in Nat
      BY <1>3, SizesAre
    <3> QED
      BY <1>3, <2>2, <3>1 DEF Hybrid!Covers
  <2>4. /\ WholeTable(s) /\ s.capacity = c /\ s.length = n
        /\ s.array = [i \in 1..c |-> IF i \in (p + 1)..(length + 1) THEN array[i - 1]
                                     ELSE Hybrid!ArrayOf(c)[i]]
        /\ MapOf(s) = Hybrid!HashBeyond(c)
    BY <2>2 DEF Moved
  <2>5. p \in 1..s.capacity /\ p # s.length + 1 /\ p <= s.length
    BY <1>3, <1>5, <2>3, <2>4
  <2>6. /\ WholeTable(r) /\ r.capacity = c /\ r.length = IF v = Nil THEN p - 1 ELSE n
        /\ r.array = [s.array EXCEPT ![p] = v] /\ MapOf(r) = MapOf(s)
    <3>1. LET x == SetIn(s, NumberKey(p), v)
          IN /\ WholeTable(x) /\ x.capacity = s.capacity
             /\ x.length = (IF v = Nil THEN p - 1 ELSE s.length)
             /\ x.array = [s.array EXCEPT ![p] = v] /\ MapOf(x) = MapOf(s)
      BY <1>1, <2>4, <2>5, CellStore
    <3> QED
      BY <2>4, <3>1 DEF r
  <2>7. r.array = Hybrid!Shifted(Hybrid!ArrayOf(c), p, v)
    <3>1. DOMAIN Hybrid!ArrayOf(c) = 1..c
      BY DEF Hybrid!ArrayOf
    <3>2. r.array = [i \in 1..c |-> IF i = p THEN v
                                    ELSE IF i \in (p + 1)..(length + 1) THEN array[i - 1]
                                    ELSE Hybrid!ArrayOf(c)[i]]
      BY <2>4, <2>6
    <3> QED
      BY <3>1, <3>2 DEF Hybrid!Shifted
  <2>8. /\ HashMap' = MapOf(r) /\ WholeTable(Table)'
        /\ capacity' = r.capacity /\ length' = r.length /\ array' = r.array
    BY <1>1, <2>6, BecomeMaps
  <2>9. Hybrid!InsertAt(p, v)
    <3>1. /\ capacity' = c /\ length' = (IF v = Nil THEN p - 1 ELSE n)
          /\ array' = Hybrid!Shifted(Hybrid!ArrayOf(c), p, v)
          /\ HashMap' = Hybrid!HashBeyond(c)
      BY <2>4, <2>6, <2>7, <2>8
    <3> QED
      BY <2>2, <3>1 DEF Hybrid!InsertAt
  <2> QED
    BY <1>1, <1>2, <1>5, <2>8, <2>9 DEF Hybrid!Insert
<1>6. CASE ~(p <= length)
  <2>1. s = Table
    <3> DEFINE g == CHOOSE h : Shifts(h, MaxIndex)
    <3>1. Shifts(g, MaxIndex)
      BY <1>3, ShiftsExist
    <3>2. s = g[0]
      BY <1>6 DEF ShiftUp, Shifts, Shift1
    <3> HIDE DEF g
    <3>3. g[0] = Table
      BY <1>3, <3>1 DEF Shifts
    <3> QED
      BY <3>2, <3>3
  <2>2. Become(SetIn(Table, NumberKey(p), v))
    BY <1>1, <2>1 DEF r
  <2>3. Hybrid!Put(p, v) /\ WholeTable(Table)'
    BY <1>4, <2>2, SetRefines
  <2> QED
    BY <1>1, <1>2, <1>6, <2>3 DEF Hybrid!Insert
<1> QED
  BY <1>5, <1>6

\* So is table.remove, which moves cells of the array part only.
LEMMA RemoveRefinesHybrid ==
  ASSUME StorageInv, NEW pos \in Positions, Remove(pos)
  PROVE  Hybrid!Remove(pos) /\ WholeTable(Table)'
<1> DEFINE p == RemovePosition(pos)
<1>1. /\ capacity \in Nat /\ length \in Nat /\ length <= capacity /\ length <= MaxIndex
      /\ array = [i \in 1..capacity |-> array[i]]
      /\ \A i \in 1..capacity : i \notin Index => array[i] = Nil
      /\ WholeTable(Table) /\ MaxIndex \in Nat
      /\ Table.capacity = capacity /\ Table.length = length /\ Table.array = array
      /\ Table.block = block
  BY StateIs, StorageAssumption DEF StorageInv
<1>2. Hybrid!RemovePosition(pos) = p
  BY DEF RemovePosition, Hybrid!RemovePosition
<1>3. DOMAIN array = 1..capacity
  BY <1>1
<1>4. capacity' = capacity /\ block' = block
  BY DEF Remove, RemoveAt
<1>5. HashMap' = HashMap
  BY <1>4 DEF HashMap, HashLookup, Table
<1>6. p > 0 => p \in Nat /\ p >= 1 /\ p <= length
  BY <1>1, StorageAssumption DEF RemovePosition, Positions, Index
<1> HIDE DEF p
<1>7. /\ Table'.capacity = capacity /\ Table'.length = length' /\ Table'.array = array'
      /\ Table'.block = block
      /\ Table' = [capacity |-> Table'.capacity, length |-> Table'.length,
                   array |-> Table'.array, block |-> Table'.block]
  BY <1>4 DEF Table
<1>8. CASE p = 0 /\ result' = Nil /\ UNCHANGED <<capacity, length, array, block>>
  <2>1. Hybrid!Remove(pos)
    BY <1>2, <1>5, <1>8 DEF Hybrid!Remove
  <2>2. Table' = Table
    BY <1>8 DEF Table
  <2> QED
    BY <1>1, <2>1, <2>2
<1>9. CASE p > 0 /\ RemoveAt(p)
  <2>1. /\ result' = array[p] /\ length' = length - 1
        /\ array' = [i \in 1..capacity |-> IF i \in p..(length - 1) THEN array[i + 1]
                                           ELSE IF i = length THEN Nil ELSE array[i]]
    BY <1>3, <1>9 DEF RemoveAt
  <2>2. Hybrid!RemoveAt(p)
    BY <1>4, <1>5, <2>1 DEF Hybrid!RemoveAt
  <2>3. Hybrid!Remove(pos)
    BY <1>2, <1>9, <2>2 DEF Hybrid!Remove
  <2>4. IsTable(Table)'
    <3>1. length' \in Nat
      BY <1>1, <1>6, <1>9, <2>1
    <3> QED
      BY <1>1, <1>7, <3>1 DEF WholeTable, IsTable
  <2>5. \A i \in 1..capacity : i \notin Index => array'[i] = Nil
    <3> SUFFICES ASSUME NEW i \in 1..capacity, i \notin Index PROVE array'[i] = Nil
      OBVIOUS
    <3>1. i \notin p..(length - 1)
      BY <1>1, <1>6, <1>9 DEF Index
    <3> QED
      BY <1>1, <2>1, <3>1
  <2>6. array' = [i \in 1..capacity |-> array'[i]]
    BY <2>1
  <2>7. WholeTable(Table)'
    BY <1>1, <1>7, <2>4, <2>5, <2>6 DEF WholeTable
  <2> QED
    BY <2>3, <2>7
<1> QED
  BY <1>8, <1>9 DEF p, Remove

-----------------------------------------------------------------------------
(***************************************************************************)
(* The proofs about HybridTable, of the table that is laid out here.       *)
(***************************************************************************)
Proved == INSTANCE HybridTable_proofs WITH hash <- HashMap

\* HybridTable as it is implemented and as it was proved about: the instances
\* have the same definitions, of the invariant,
LEMMA SameInv == Hybrid!IInv <=> Proved!IInv
BY DEF Hybrid!IInv, Proved!IInv, Hybrid!TypeOK, Proved!TypeOK,
       Hybrid!LengthFits, Proved!LengthFits, Hybrid!OnePart, Proved!OnePart,
       Hybrid!PrefixFull, Proved!PrefixFull, Hybrid!BorderStops, Proved!BorderStops,
       Hybrid!Get, Proved!Get, Hybrid!InArray, Proved!InArray, Hybrid!Keys, Proved!Keys,
       Hybrid!Cells, Proved!Cells, Hybrid!Index, Proved!Index

\* of the sizes the array part may have,
LEMMA SameSizes == Hybrid!Sizes = Proved!Sizes
BY DEF Hybrid!Sizes, Proved!Sizes, Hybrid!Doubled, Proved!Doubled,
       Hybrid!GrowLimit, Proved!GrowLimit, Hybrid!MaxCapacity, Proved!MaxCapacity

\* of what both parts hold once it has grown,
LEMMA SameKeep ==
  /\ \A c, k : Hybrid!Covers(c, k) <=> Proved!Covers(c, k)
  /\ \A c : Hybrid!ArrayOf(c) = Proved!ArrayOf(c)
  /\ \A c : Hybrid!HashBeyond(c) = Proved!HashBeyond(c)
  /\ \A k : Hybrid!Get(k) = Proved!Get(k)
  /\ \A n, k : Hybrid!EndsRun(n, k) <=> Proved!EndsRun(n, k)
BY SameSizes
   DEF Hybrid!Covers, Proved!Covers, Hybrid!ArrayOf, Proved!ArrayOf,
       Hybrid!HashBeyond, Proved!HashBeyond, Hybrid!Get, Proved!Get,
       Hybrid!EndsRun, Proved!EndsRun, Hybrid!InArray, Proved!InArray,
       Hybrid!Keys, Proved!Keys, Hybrid!Index, Proved!Index

\* and of its steps.
LEMMA SameNext == Hybrid!Next <=> Proved!Next
<1>1. \A k, v : Hybrid!Put(k, v) <=> Proved!Put(k, v)
  BY SameSizes, SameKeep
     DEF Hybrid!Put, Proved!Put, Hybrid!ClearInArray, Proved!ClearInArray,
         Hybrid!StoreInArray, Proved!StoreInArray, Hybrid!Append, Proved!Append,
         Hybrid!StoreInHash, Proved!StoreInHash, Hybrid!InArray, Proved!InArray,
         Hybrid!Index, Proved!Index, Hybrid!GrowLimit, Proved!GrowLimit
<1>2. \A p, v : Hybrid!InsertAt(p, v) <=> Proved!InsertAt(p, v)
  BY SameSizes, SameKeep
     DEF Hybrid!InsertAt, Proved!InsertAt, Hybrid!Shifted, Proved!Shifted
<1>3. \A p, v : Hybrid!Insert(p, v) <=> Proved!Insert(p, v)
  BY <1>1, <1>2
     DEF Hybrid!Insert, Proved!Insert, Hybrid!InsertPosition, Proved!InsertPosition,
         Hybrid!Index, Proved!Index
<1>4. \A p : Hybrid!Remove(p) <=> Proved!Remove(p)
  BY DEF Hybrid!Remove, Proved!Remove, Hybrid!RemovePosition, Proved!RemovePosition,
         Hybrid!RemoveAt, Proved!RemoveAt
<1> QED
  BY <1>1, <1>3, <1>4
     DEF Hybrid!Next, Proved!Next, Hybrid!Set, Proved!Set, Hybrid!Keys, Proved!Keys,
         Hybrid!Index, Proved!Index, Hybrid!Cells, Proved!Cells,
         Hybrid!Positions, Proved!Positions

\* The constants are ones HybridTable takes.
LEMMA HybridConstants == Proved!HybridAssumption
BY StorageAssumption DEF Proved!HybridAssumption

\* A new table has both parts empty.
LEMMA StorageInitial == Init => Hybrid!Init /\ StorageInv
<1> SUFFICES ASSUME Init PROVE Hybrid!Init /\ StorageInv
  OBVIOUS
<1>1. /\ capacity = 0 /\ length = 0 /\ array = <<>> /\ block = NoBlock /\ result = Nil
  BY DEF Init
<1>2. HashMap = [k \in Seens |-> Nil]
  BY <1>1 DEF HashMap, HashLookup, Table, Seens
<1>3. array = [i \in 1..0 |-> Nil]
  BY <1>1
<1>4. Hybrid!Init
  BY <1>1, <1>2, <1>3 DEF Hybrid!Init, Hybrid!Keys, Hybrid!Index, Seens, Index
<1>5. Proved!Init => Proved!IInv
  BY HybridConstants, Proved!InitInv
<1>6. Proved!Init <=> Hybrid!Init
  BY DEF Proved!Init, Hybrid!Init, Proved!Keys, Hybrid!Keys, Proved!Index, Hybrid!Index
<1>7. Hybrid!IInv
  BY <1>4, <1>5, <1>6, SameInv
<1>8. /\ Table = [capacity |-> Table.capacity, length |-> Table.length, array |-> Table.array,
                  block |-> Table.block]
      /\ Table.capacity = 0 /\ Table.length = 0 /\ Table.array = array /\ Table.block = NoBlock
  BY <1>1 DEF Table
<1>9. WholeTable(Table)
  <2>1. array = [i \in 1..0 |-> array[i]]
    BY <1>3
  <2> QED
    BY <1>8, <2>1 DEF WholeTable, IsTable, GoodBlock
<1>10. capacity <= Hybrid!MaxCapacity
  BY <1>1, StorageAssumption DEF Hybrid!MaxCapacity
<1> QED
  BY <1>4, <1>7, <1>9, <1>10 DEF StorageInv

\* Every library call is a step of HybridTable, and keeps what it takes to be.
LEMMA StepRefines == StorageInv /\ [Next]_vars => [Hybrid!Next]_(Hybrid!vars) /\ WholeTable(Table)'
<1> SUFFICES ASSUME StorageInv, [Next]_vars
             PROVE  [Hybrid!Next]_(Hybrid!vars) /\ WholeTable(Table)'
  OBVIOUS
<1>1. ASSUME NEW key \in RawKeys, NEW v \in Cells, Set(key, v)
      PROVE  Hybrid!Next /\ WholeTable(Table)'
  <2>1. Hybrid!Put(Seen(key), v) /\ WholeTable(Table)'
    BY <1>1, SetRefines DEF Set
  <2>2. Seen(key) \in Hybrid!Keys /\ v \in Hybrid!Cells
    BY SeenWord DEF Hybrid!Keys, Hybrid!Index, Hybrid!Cells, Seens, Index, Cells
  <2>3. Hybrid!Set(Seen(key), v)
    BY <1>1, <2>1 DEF Set, Hybrid!Set
  <2> QED
    BY <2>1, <2>2, <2>3 DEF Hybrid!Next
<1>2. \A pos \in Positions : pos \in Hybrid!Positions
  BY StorageAssumption DEF Positions, Hybrid!Positions, Index
<1>3. ASSUME NEW pos \in Positions, Remove(pos)
      PROVE  Hybrid!Next /\ WholeTable(Table)'
  BY <1>2, <1>3, RemoveRefinesHybrid DEF Hybrid!Next
<1>4. ASSUME NEW pos \in Positions, NEW v \in Cells, Insert(pos, v)
      PROVE  Hybrid!Next /\ WholeTable(Table)'
  <2>1. v \in Hybrid!Cells
    BY DEF Hybrid!Cells, Cells
  <2> QED
    BY <1>2, <1>4, <2>1, InsertRefinesHybrid DEF Hybrid!Next
<1>5. CASE UNCHANGED vars
  <2>1. Table' = Table /\ HashMap' = HashMap
    BY <1>5 DEF vars, Table, HashMap, HashLookup
  <2>2. UNCHANGED Hybrid!vars
    BY <1>5, <2>1 DEF vars, Hybrid!vars
  <2> QED
    BY <2>1, <2>2 DEF StorageInv
<1> QED
  BY <1>1, <1>3, <1>4, <1>5 DEF Next

\* So the invariant is kept: HybridTable keeps its own, and its sizes.
LEMMA StorageInductive == StorageInv /\ [Next]_vars => StorageInv'
<1> SUFFICES ASSUME StorageInv, [Next]_vars PROVE StorageInv'
  OBVIOUS
<1>1. [Hybrid!Next]_(Hybrid!vars) /\ WholeTable(Table)'
  BY StepRefines
<1>2. [Proved!Next]_(Proved!vars)
  BY <1>1, SameNext DEF Hybrid!vars, Proved!vars
<1>3. Proved!IInv
  BY SameInv DEF StorageInv
<1>4. Proved!IInv'
  BY <1>2, <1>3, HybridConstants, Proved!StepInv
<1>5. Hybrid!IInv'
  BY <1>4, SameInv, PTL
<1>6. capacity' <= Hybrid!MaxCapacity
  <2>1. /\ capacity \in Nat /\ capacity <= Hybrid!MaxCapacity
    BY StateIs DEF StorageInv
  <2>2. \A c \in Hybrid!Sizes : c <= Hybrid!MaxCapacity
    BY <2>1, SizesAre
  <2>3. capacity' \in Hybrid!Sizes \/ capacity' = capacity
    BY <1>1 DEF Hybrid!Next, Hybrid!vars, Hybrid!Set, Hybrid!Put, Hybrid!ClearInArray,
       Hybrid!StoreInArray, Hybrid!Append, Hybrid!StoreInHash, Hybrid!Remove, Hybrid!RemoveAt,
       Hybrid!Insert, Hybrid!InsertAt
  <2> QED
    BY <2>1, <2>2, <2>3
<1>7. (capacity <= Hybrid!MaxCapacity)'
  BY <1>6 DEF Hybrid!MaxCapacity
<1> QED
  BY <1>1, <1>5, <1>7 DEF StorageInv

\* The slots, the probing and the loop that extends the border implement the
\* two-part table of HybridTable: a key is in the hash part or not, whatever
\* word it comes as and wherever probing, growth and deletion have left it.
THEOREM RefinesHybrid == Spec => ImplementsHybrid
<1>1. Init => Hybrid!Init /\ StorageInv
  BY StorageInitial
<1>2. StorageInv /\ [Next]_vars => [Hybrid!Next]_(Hybrid!vars) /\ StorageInv'
  BY StepRefines, StorageInductive
<1> QED
  BY <1>1, <1>2, PTL DEF Spec, ImplementsHybrid, Hybrid!Spec

\* And so the table of the language, which knows of neither part: whatever the
\* slots, the words and the array part do, a program reads at a key what it
\* last stored there, and # gives a border.
THEOREM ReadsAsLua == Spec => Proved!ImplementsLua
<1>1. Init => Hybrid!Init /\ StorageInv
  BY StorageInitial
<1>2. StorageInv /\ [Next]_vars => [Hybrid!Next]_(Hybrid!vars) /\ StorageInv'
  BY StepRefines, StorageInductive
<1>3. Hybrid!Init => Proved!Init
  BY DEF Proved!Init, Hybrid!Init, Proved!Keys, Hybrid!Keys, Proved!Index, Hybrid!Index
<1>4. [Hybrid!Next]_(Hybrid!vars) => [Proved!Next]_(Proved!vars)
  BY SameNext DEF Hybrid!vars, Proved!vars
<1>5. Spec => Proved!Spec
  BY <1>1, <1>2, <1>3, <1>4, PTL DEF Spec, Proved!Spec
<1>6. Proved!Spec => Proved!ImplementsLua
  BY HybridConstants, Proved!RefinesLua
<1> QED
  BY <1>5, <1>6, PTL
=============================================================================
