---------------------------- MODULE TableStorage ----------------------------
(***************************************************************************)
(* A table as src/runtime/table.s stores it: a header whose capacity word  *)
(* is read through a mask, the array part, and the hash part slot by slot. *)
(* Library calls run to their end before the program goes on (there is one *)
(* thread and no interrupt), so each is one action.                        *)
(***************************************************************************)
EXTENDS Integers, Sequences, FiniteSets, HashBlock

CONSTANTS
  MaxIndex,       \* whole-number keys are 1..MaxIndex
  Names,          \* every other key Lua sees
  RawNames,       \* the words they come as, <<kind, name, where>>
  Values,
  MinCapacity,    \* smallest array part (8)
  CapacityRange   \* what TABLE_ARRAYSIZE lets through: 2^16

\* Each name comes as some word, and as whichever words it comes it is one key;
\* nil and numbers are no names, and nil is no value.
ASSUME StorageAssumption ==
  /\ MaxIndex \in Nat \ {0}
  /\ MinCapacity \in Nat \ {0}
  /\ MinBlock \in Nat \ {0, 1}
  /\ CapacityRange \in Nat \ {0}
  /\ \A key \in RawNames :
       key = <<key[1], key[2], key[3]>> /\ key[1] # "num" /\ key[2] \in Names
  /\ NoKey \notin {Normalised(key) : key \in RawNames}
  /\ NoKey \notin {<<"num", i, "-">> : i \in 1..MaxIndex}
  /\ HashOf \in [(1..MaxIndex) \cup Names -> Nat]
  /\ Nil \notin Values /\ Nil \notin Int
  /\ \A n \in Names : n \notin Int /\ \E key \in RawNames : Seen(key) = n
  /\ \A j, k \in RawNames : Seen(j) = Seen(k) => SameKey(Normalised(j), Normalised(k))

VARIABLES
  capacity,       \* header word 0, as the mask shows it
  length,         \* header word 1
  array,          \* header word 2: the block it points to
  block,          \* header word 3: the hash block, NoBlock for 0
  result          \* what the last library call returned

vars == <<capacity, length, array, block, result>>

Index   == 1..MaxIndex
Numbers == {<<"num", i, "-">> : i \in Index}
RawKeys == Numbers \cup RawNames
Cells   == Values \cup {Nil}
NoBlock == <<>>

NumberKey(i) == <<"num", i, "-">>

\* The whole-number value of a key, 0 for a key the array part never holds.
IndexOf(key) == IF key[1] = "num" THEN key[2] ELSE 0

-----------------------------------------------------------------------------
(***************************************************************************)
(* Operators on a table, the record of its four header words.              *)
(***************************************************************************)
Table == [capacity |-> capacity, length |-> length,
          array |-> array, block |-> block]

InArray(t, key) == IndexOf(key) \in 1..t.capacity

HashLookup(t, key) ==
  IF t.block = NoBlock THEN Nil ELSE Lookup(t.block, Normalised(key))

\* __builtin_table_get, up to the metatable
Get(t, key) ==
  IF InArray(t, key) THEN t.array[IndexOf(key)] ELSE HashLookup(t, key)

\* Deleting from no block makes none; the first value makes one.
HashStore(t, key, v) ==
  IF t.block = NoBlock /\ v = Nil THEN t
  ELSE [t EXCEPT !.block =
          Store(IF t.block = NoBlock THEN NewBlock(MinBlock) ELSE t.block,
                Normalised(key), v)]

GrowLimit(t) ==
  IF 2 * t.capacity < MinCapacity THEN MinCapacity ELSE 2 * t.capacity

\* The size after doubling from the grow limit until k fits.
NewCapacity(t, k) ==
  LET sizes == {c \in GrowLimit(t)..(GrowLimit(t) + 2 * k) :
                  \E i \in 0..k : c = GrowLimit(t) * 2^i}
  IN CHOOSE c \in sizes : k <= c /\ \A d \in sizes : k <= d => c <= d

\* Number keys in (low, high] leave the hash part: their slots stay, dead.
Migrated(b, low, high) ==
  [b EXCEPT !.slots =
     [i \in 1..Size(b) |->
        IF b.slots[i].key \in {NumberKey(k) : k \in (low + 1)..high}
        THEN [b.slots[i] EXCEPT !.value = Nil] ELSE b.slots[i]]]

\* __table_array_grow.  The new size is or-ed into the capacity word, and read
\* back through the mask from then on.
ArrayGrow(t, k) ==
  LET c == NewCapacity(t, k)
  IN [t EXCEPT
        !.capacity = c % CapacityRange,
        !.array = [i \in 1..c |->
                     IF i <= t.capacity THEN t.array[i]
                     ELSE IF i \in Index THEN HashLookup(t, NumberKey(i))
                     ELSE Nil],
        !.block = IF t.block = NoBlock THEN NoBlock
                  ELSE Migrated(t.block, t.capacity, c)]

ExtendInArray(s) ==   \* mutant: the loop stops at the end of the array
  LET t == s.table
      next == s.border + 1
  IN IF s.border < t.capacity /\ t.array[next] # Nil
     THEN [s EXCEPT !.border = next] ELSE s

\* One turn of the loop after t[k] joined the border: past the next array cell
\* if it is taken; at the end of the array, on into the hash part by growing.
ExtendOnce(s) ==
  LET t == s.table
      next == s.border + 1
  IN IF s.border < t.capacity
     THEN IF t.array[next] = Nil THEN s ELSE [s EXCEPT !.border = next]
     ELSE IF next \notin Index \/ HashLookup(t, NumberKey(next)) = Nil THEN s
     ELSE [s EXCEPT !.table = ArrayGrow(t, next)]

\* The loop, run until it stops: each key costs a turn, and each growth one.
ExtendBorder(t, k) ==
  LET turns[n \in 0..(2 * MaxIndex)] ==
        IF n = 0 THEN [table |-> t, border |-> k] ELSE ExtendOnce(turns[n - 1])
      last == turns[2 * MaxIndex]
  IN [last.table EXCEPT !.length = last.border]

\* The array store at the end of __builtin_table_set, with the border kept.
ArrayStore(t, k, v) ==
  LET stored == [t EXCEPT !.array[k] = v]
  IN IF v = Nil
     THEN IF k > t.length THEN stored ELSE [stored EXCEPT !.length = k - 1]
     ELSE IF k = t.length + 1 THEN ExtendBorder(stored, k) ELSE stored

\* __builtin_table_set, without a metatable
SetIn(t, key, v) ==
  LET k == IndexOf(key)
  IN IF InArray(t, key) THEN ArrayStore(t, k, v)
     ELSE IF k >= 1 /\ v # Nil /\ k <= GrowLimit(t)
          THEN ArrayStore(ArrayGrow(t, k), k, v)
     ELSE HashStore(t, key, v)

-----------------------------------------------------------------------------
Init ==
  /\ capacity = 0
  /\ length = 0
  /\ array = <<>>
  /\ block = NoBlock
  /\ result = Nil

Become(t) ==
  /\ capacity' = t.capacity
  /\ length' = t.length
  /\ array' = t.array
  /\ block' = t.block

Set(key, v) == Become(SetIn(Table, key, v)) /\ UNCHANGED result

\* table.remove.  The element is looked for in the array part only: the range
\* 1..length is in it (LengthFits of HybridTable), so the path through the hash part never
\* runs.
RemovePosition(pos) ==
  LET p == IF pos = Nil THEN length
           ELSE IF pos < 0 THEN length + pos + 1 ELSE pos
  IN IF p < 1 THEN 0 ELSE IF p > length THEN length ELSE p

RemoveAt(p) ==
  /\ length <= capacity
  /\ result' = array[p]
  /\ array' = [i \in DOMAIN array |->
                 IF i \in p..(length - 1) THEN array[i + 1]
                 ELSE IF i = length THEN Nil ELSE array[i]]
  /\ length' = length - 1
  /\ UNCHANGED <<capacity, block>>

Remove(pos) ==
  LET p == RemovePosition(pos)
  IN \/ p = 0 /\ result' = Nil /\ UNCHANGED <<capacity, length, array, block>>
     \/ p > 0 /\ RemoveAt(p)

-----------------------------------------------------------------------------
\* table.insert.  It shifts from the top down, through get and set.
InsertPosition(pos) ==
  LET p == IF pos = Nil THEN length + 1
           ELSE IF pos < 0 THEN length + pos + 1 ELSE pos
  IN IF p < 1 THEN 1 ELSE p

\* t once the elements from #t down to p have moved up by one
ShiftUp(p) ==
  LET turns[n \in 0..MaxIndex] ==
        IF n = 0 THEN Table
        ELSE LET cursor == length + 1 - n
             IN SetIn(turns[n - 1], NumberKey(cursor + 1), Get(turns[n - 1], NumberKey(cursor)))
  IN turns[IF p <= length THEN length + 1 - p ELSE 0]

Insert(pos, v) ==
  LET p == InsertPosition(pos)
  IN /\ length + 1 \in Index /\ p \in Index
     /\ Become(SetIn(ShiftUp(p), NumberKey(p), v))
     /\ result' = v

\* None, one counted back from the end (HybridTable has the others), and each
\* from the front.
Positions == {Nil, -1} \cup Index

Next ==
  \/ \E key \in RawKeys, v \in Cells : Set(key, v)
  \/ \E pos \in Positions : Remove(pos)
  \/ \E pos \in Positions, v \in Cells : Insert(pos, v)

Spec == Init /\ [][Next]_vars

-----------------------------------------------------------------------------
Slots == IF block = NoBlock THEN {} ELSE 1..Size(block)

\* The hash block is at most half full, dead keys counted, and its count of
\* used slots is right: there is always an empty slot, so every probe ends, for
\* a key that is absent as for one that is there (comment table.s:408-411).
HalfFull ==
  block # NoBlock =>
    /\ block.used = Cardinality({i \in Slots : block.slots[i].key # NoKey})
    /\ 2 * block.used <= Size(block)
    /\ \A key \in RawKeys : ProbeEnds(block, Normalised(key))

\* Every key in the block is found from its hash, and no two slots hold the
\* same key, though one string comes as several words: deletions, growth and
\* migration never cut a probe chain.
Reachable ==
  \A i \in Slots :
    block.slots[i].key # NoKey => Find(block, block.slots[i].key) = i

\* The lookup the compiler emits for t.field, with its inline first probe and
\* its word-by-word comparison, reads what the general lookup reads.
FieldReadAgrees ==
  \A key \in RawNames :
    block # NoBlock /\ key[1] = "str" /\ key[3] = "pool"
      => InlineGetk(block, key) = Lookup(block, key)

\* #t counts a value that is there: the border # reports is present.
BorderPresent == length > 0 => Get(Table, NumberKey(length)) # Nil

\* The slots and the loop implement the two-part table HybridTable describes.
HashMap == [k \in Index \cup Names |->
              HashLookup(Table, IF k \in Index THEN NumberKey(k)
                                ELSE CHOOSE key \in RawNames : key[2] = k)]

Hybrid == INSTANCE HybridTable WITH hash <- HashMap

ImplementsHybrid == Hybrid!Spec
=============================================================================
