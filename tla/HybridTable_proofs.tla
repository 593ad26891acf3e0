------------------------- MODULE HybridTable_proofs -------------------------
(***************************************************************************)
(* Proofs about HybridTable for every number of keys, every set of values  *)
(* and every smallest array size: its invariants are inductive together,   *)
(* and it implements the table of LuaTable.                                *)
(***************************************************************************)
EXTENDS HybridTable, TLAPS

\* Growing moves cells between the parts and changes nothing that is read:
\* what the new parts answer for a key is what the old ones answered.
LEMMA GrowthKeepsReads ==
  ASSUME NEW c \in Sizes, NEW k \in Keys, TypeOK
  PROVE  /\ k \in 1..c => ArrayOf(c)[k] = Get(k)
         /\ k \notin 1..c => HashBeyond(c)[k] = Get(k)
BY HybridAssumption DEF Sizes, Keys, Index, TypeOK, ArrayOf, HashBeyond, Get, InArray

\* Growing keeps the types of both parts.
LEMMA GrowthTypes ==
  ASSUME NEW c \in Sizes, TypeOK
  PROVE  /\ c \in Nat /\ capacity <= c
         /\ ArrayOf(c) \in [1..c -> Cells]
         /\ HashBeyond(c) \in [Keys -> Cells]
BY HybridAssumption DEF Sizes, Keys, Index, TypeOK, ArrayOf, HashBeyond, Cells, MaxCapacity

-----------------------------------------------------------------------------
\* The invariant of a new, empty table.
LEMMA InitInv == Init => IInv
BY HybridAssumption
DEF Init, IInv, TypeOK, LengthFits, OnePart, PrefixFull, BorderStops, Cells, Keys,
    Index, Get, InArray

\* Clearing a cell of the array part keeps the invariant.
LEMMA ClearInArrayInv ==
  ASSUME IInv, NEW k \in Keys, ClearInArray(k), result' \in Cells
  PROVE  IInv'
BY HybridAssumption
DEF ClearInArray, IInv, TypeOK, LengthFits, OnePart, PrefixFull, BorderStops, Cells,
    Keys, Index, Get, InArray

\* A store away from the border keeps the invariant, also when it grows the
\* array over keys of the hash part.
LEMMA StoreInArrayInv ==
  ASSUME IInv, NEW k \in Keys, NEW v \in Values, StoreInArray(k, v), result' \in Cells
  PROVE  IInv'
<1>1. PICK c \in Sizes :
        /\ k \in Index /\ k <= GrowLimit /\ k # length + 1
        /\ Covers(c, k)
        /\ capacity' = c
        /\ array' = [ArrayOf(c) EXCEPT ![k] = v]
        /\ hash' = HashBeyond(c)
        /\ length' = length
  BY DEF StoreInArray
<1>2. TypeOK
  BY DEF IInv
<1>3. /\ c \in Nat /\ capacity <= c
      /\ ArrayOf(c) \in [1..c -> Cells]
      /\ HashBeyond(c) \in [Keys -> Cells]
  BY <1>2, GrowthTypes
<1>4. k \in 1..c
  BY <1>1, <1>3 DEF Covers, Index
<1>5. TypeOK'
  BY <1>1, <1>2, <1>3 DEF TypeOK, Cells
<1>6. LengthFits'
  BY <1>1, <1>2, <1>3 DEF IInv, LengthFits, TypeOK
<1>7. OnePart'
  <2> SUFFICES ASSUME NEW j \in Keys, j \in 1..c
               PROVE  HashBeyond(c)[j] = Nil
    BY <1>1 DEF OnePart, InArray
  <2> QED
    BY <1>2, <1>3 DEF IInv, OnePart, InArray, HashBeyond, TypeOK
<1>8. PrefixFull'
  <2> SUFFICES ASSUME NEW i \in 1..length
               PROVE  array'[i] # Nil
    BY <1>1 DEF PrefixFull
  <2>1. i \in 1..capacity /\ i \in 1..c /\ i \in Keys
    BY <1>2, <1>3, HybridAssumption DEF IInv, LengthFits, TypeOK, Keys, Index
  <2>2. ArrayOf(c)[i] = array[i]
    BY <2>1 DEF ArrayOf
  <2>3. array'[i] = IF i = k THEN v ELSE array[i]
    BY <1>1, <1>3, <2>1, <2>2
  <2> QED
    BY <2>3, HybridAssumption DEF IInv, PrefixFull
<1>9. BorderStops'
  <2> SUFFICES ASSUME length + 1 \in Index
               PROVE  Get(length + 1)' = Nil
    BY <1>1 DEF BorderStops, Index
  <2>1. Get(length + 1) = Nil /\ length + 1 \in Keys
    BY DEF IInv, BorderStops, Keys
  <2>2. CASE length + 1 \in 1..c
    <3>1. Get(length + 1)' = array'[length + 1]
      BY <1>1, <2>2 DEF Get, InArray
    <3>2. array'[length + 1] = ArrayOf(c)[length + 1]
      BY <1>1, <1>3, <2>2
    <3> QED
      BY <1>2, <2>1, <2>2, <3>1, <3>2, GrowthKeepsReads
  <2>3. CASE length + 1 \notin 1..c
    <3>1. Get(length + 1)' = HashBeyond(c)[length + 1]
      BY <1>1, <2>3 DEF Get, InArray
    <3> QED
      BY <1>2, <2>1, <2>3, <3>1, GrowthKeepsReads
  <2> QED
    BY <2>2, <2>3
<1> QED
  BY <1>5, <1>6, <1>7, <1>8, <1>9 DEF IInv

\* A store right past the border keeps the invariant: the new border is the end
\* of the run that starts there, and nothing past it was hidden in the hash part.
LEMMA AppendInv ==
  ASSUME IInv, NEW v \in Values, Append(v), result' \in Cells
  PROVE  IInv'
<1>1. PICK n \in (length + 1)..MaxIndex, c \in Sizes :
        /\ EndsRun(n, length + 1)
        /\ Covers(c, n)
        /\ capacity' = c
        /\ length' = n
        /\ array' = [ArrayOf(c) EXCEPT ![length + 1] = v]
        /\ hash' = HashBeyond(c)
  BY DEF Append
<1>2. TypeOK /\ length \in Nat /\ capacity \in Nat /\ length <= capacity
  BY HybridAssumption DEF IInv, TypeOK, LengthFits
<1>3. /\ c \in Nat /\ capacity <= c
      /\ ArrayOf(c) \in [1..c -> Cells]
      /\ HashBeyond(c) \in [Keys -> Cells]
  BY <1>2, GrowthTypes
<1>4. n \in 1..MaxIndex /\ n <= c /\ length + 1 \in 1..c
  BY <1>1, <1>2, <1>3, HybridAssumption DEF Covers
<1>5. TypeOK'
  BY <1>1, <1>2, <1>3, <1>4 DEF TypeOK, Cells
<1>6. LengthFits'
  BY <1>1, <1>4 DEF LengthFits
<1>7. OnePart'
  <2> SUFFICES ASSUME NEW j \in Keys, j \in 1..c
               PROVE  HashBeyond(c)[j] = Nil
    BY <1>1 DEF OnePart, InArray
  <2> QED
    BY <1>2, <1>3 DEF IInv, OnePart, InArray, HashBeyond, TypeOK
<1>8. PrefixFull'
  <2> SUFFICES ASSUME NEW i \in 1..n
               PROVE  array'[i] # Nil
    BY <1>1 DEF PrefixFull
  <2>1. i \in 1..c /\ i \in Keys
    BY <1>3, <1>4, HybridAssumption DEF Keys, Index
  <2>2. array'[i] = IF i = length + 1 THEN v ELSE ArrayOf(c)[i]
    BY <1>1, <1>3, <2>1
  <2>3. ArrayOf(c)[i] = Get(i)
    BY <1>2, <2>1, GrowthKeepsReads
  <2>4. CASE i \in 1..length
    BY <1>2, <2>2, <2>3, <2>4 DEF IInv, PrefixFull, Get, InArray
  <2>5. CASE i = length + 1
    BY <2>2, <2>5, HybridAssumption
  <2>6. CASE i \in (length + 2)..n
    BY <1>1, <1>2, <2>2, <2>3, <2>6 DEF EndsRun
  <2> QED
    BY <1>2, <1>4, <2>4, <2>5, <2>6
<1>9. BorderStops'
  <2> SUFFICES ASSUME n + 1 \in Index
               PROVE  Get(n + 1)' = Nil
    BY <1>1 DEF BorderStops, Index
  <2>1. Get(n + 1) = Nil /\ n + 1 \in Keys
    BY <1>1 DEF EndsRun, Keys
  <2>2. CASE n + 1 \in 1..c
    <3>1. Get(n + 1)' = array'[n + 1]
      BY <1>1, <2>2 DEF Get, InArray
    <3>2. array'[n + 1] = ArrayOf(c)[n + 1]
      BY <1>1, <1>2, <1>3, <2>2
    <3> QED
      BY <1>2, <2>1, <2>2, <3>1, <3>2, GrowthKeepsReads
  <2>3. CASE n + 1 \notin 1..c
    <3>1. Get(n + 1)' = HashBeyond(c)[n + 1]
      BY <1>1, <2>3 DEF Get, InArray
    <3> QED
      BY <1>2, <2>1, <2>3, <3>1, GrowthKeepsReads
  <2> QED
    BY <2>2, <2>3
<1> QED
  BY <1>5, <1>6, <1>7, <1>8, <1>9 DEF IInv

\* A store in the hash part keeps the invariant: the key past the border is
\* within the grow limit, so no value ever lands there behind the border's back.
LEMMA StoreInHashInv ==
  ASSUME IInv, NEW k \in Keys, NEW v \in Cells, StoreInHash(k, v), result' \in Cells
  PROVE  IInv'
<1>1. v # Nil => k # length + 1
  BY HybridAssumption
  DEF StoreInHash, GrowLimit, IInv, TypeOK, LengthFits, Keys, Index
<1> QED
  BY <1>1, HybridAssumption
  DEF StoreInHash, IInv, TypeOK, LengthFits, OnePart, PrefixFull, BorderStops, Cells,
      Keys, Index, Get, InArray

\* table.remove keeps the invariant: it takes its element inside 1..length.
LEMMA RemoveInv ==
  ASSUME IInv, NEW pos \in Positions, Remove(pos)
  PROVE  IInv'
<1> DEFINE p == RemovePosition(pos)
<1>1. CASE p = 0 /\ result' = Nil /\ UNCHANGED <<capacity, length, array, hash>>
  BY <1>1
  DEF IInv, TypeOK, LengthFits, OnePart, PrefixFull, BorderStops, Cells, Get, InArray
<1>2. CASE p > 0 /\ RemoveAt(p)
  <2>1. p \in 1..length
    BY <1>2, HybridAssumption DEF RemovePosition, Positions, IInv, TypeOK
  <2>2. TypeOK' /\ LengthFits'
    BY <1>2, <2>1, HybridAssumption DEF RemoveAt, IInv, TypeOK, LengthFits, Cells
  <2>3. OnePart'
    BY <1>2 DEF RemoveAt, IInv, OnePart, InArray
  <2>4. PrefixFull'
    BY <1>2, <2>1, HybridAssumption DEF RemoveAt, IInv, TypeOK, LengthFits, PrefixFull
  <2>5. array'[length] = Nil /\ length \in 1..capacity
    BY <1>2, <2>1, HybridAssumption DEF RemoveAt, IInv, TypeOK, LengthFits
  <2>6. BorderStops'
    BY <1>2, <2>1, <2>5, HybridAssumption
    DEF RemoveAt, IInv, TypeOK, BorderStops, Get, InArray
  <2> QED
    BY <2>2, <2>3, <2>4, <2>6 DEF IInv
<1> QED
  BY <1>1, <1>2 DEF Remove

\* Every store keeps the invariant, wherever it lands.
LEMMA PutInv ==
  ASSUME IInv, NEW k \in Keys, NEW v \in Cells, Put(k, v), result' \in Cells
  PROVE  IInv'
<1>1. CASE v = Nil /\ ClearInArray(k)
  BY <1>1, ClearInArrayInv
<1>2. CASE v # Nil /\ StoreInArray(k, v)
  BY <1>2, StoreInArrayInv DEF Cells
<1>3. CASE v # Nil /\ k = length + 1 /\ Append(v)
  BY <1>3, AppendInv DEF Cells
<1>4. CASE StoreInHash(k, v)
  BY <1>4, StoreInHashInv
<1> QED
  BY <1>1, <1>2, <1>3, <1>4 DEF Put

\* Shifting the elements up keeps the invariant: the border grows by the run it
\* meets past the end, or ends where nil was put in.
LEMMA InsertAtInv ==
  ASSUME IInv, NEW p \in 1..length, NEW v \in Cells, InsertAt(p, v), result' \in Cells
  PROVE  IInv'
<1>1. PICK n \in (length + 1)..MaxIndex, c \in Sizes :
        /\ capacity' = c
        /\ length' = IF v = Nil THEN p - 1 ELSE n
        /\ EndsRun(n, length + 1)
        /\ Covers(c, n)
        /\ array' = Shifted(ArrayOf(c), p, v)
        /\ hash' = HashBeyond(c)
  BY DEF InsertAt
<1>2. TypeOK /\ length \in Nat /\ capacity \in Nat /\ length <= capacity /\ p \in Nat /\ n \in Nat
  BY HybridAssumption DEF IInv, TypeOK, LengthFits
<1>3. /\ c \in Nat /\ capacity <= c
      /\ ArrayOf(c) \in [1..c -> Cells]
      /\ HashBeyond(c) \in [Keys -> Cells]
  BY <1>2, GrowthTypes
<1>4. n \in 1..MaxIndex /\ n <= c /\ length + 1 \in 1..c /\ p <= length /\ p \in 1..c
  BY <1>1, <1>2, <1>3, HybridAssumption DEF Covers
<1>5. ASSUME NEW i \in 1..c
      PROVE  array'[i] = IF i = p THEN v
                         ELSE IF i \in (p + 1)..(length + 1) THEN array[i - 1] ELSE ArrayOf(c)[i]
  BY <1>1, <1>3 DEF Shifted
<1>6. ASSUME NEW i \in (p + 1)..(length + 1)
      PROVE  array[i - 1] \in Values
  BY <1>2, <1>4, HybridAssumption DEF IInv, TypeOK, PrefixFull, Cells
<1>7. array' \in [1..c -> Cells]
  <2>1. array' = [i \in 1..c |-> array'[i]]
    BY <1>1, <1>3 DEF Shifted
  <2>2. ASSUME NEW i \in 1..c
        PROVE  array'[i] \in Cells
    BY <1>3, <1>5, <1>6 DEF Cells
  <2> QED
    BY <2>1, <2>2
<1>8. TypeOK'
  BY <1>1, <1>2, <1>3, <1>4, <1>7, HybridAssumption DEF TypeOK
<1>9. LengthFits'
  BY <1>1, <1>2, <1>3, <1>4 DEF LengthFits
<1>10. OnePart'
  <2> SUFFICES ASSUME NEW j \in Keys, j \in 1..c
               PROVE  HashBeyond(c)[j] = Nil
    BY <1>1 DEF OnePart, InArray
  <2> QED
    BY <1>2, <1>3 DEF IInv, OnePart, InArray, HashBeyond, TypeOK
<1>11. ASSUME NEW i \in 1..n, i # p
       PROVE  array'[i] # Nil
  <2>1. i \in 1..c /\ i \in Keys /\ i \in Nat
    BY <1>3, <1>4, HybridAssumption DEF Keys, Index
  <2>2. ArrayOf(c)[i] = Get(i)
    BY <1>2, <2>1, GrowthKeepsReads
  <2>3. CASE i \in (p + 1)..(length + 1)
    BY <1>4, <1>5, <1>6, <1>11, <2>1, <2>3, HybridAssumption
  <2>4. CASE i \in 1..(p - 1)
    BY <1>2, <1>4, <1>5, <2>1, <2>2, <2>4 DEF IInv, PrefixFull, Get, InArray
  <2>5. CASE i \in (length + 2)..n
    BY <1>1, <1>2, <1>4, <1>5, <2>1, <2>2, <2>5 DEF EndsRun
  <2> QED
    BY <1>2, <1>4, <1>11, <2>1, <2>3, <2>4, <2>5
<1>12. CASE v = Nil
  <2>1. PrefixFull'
    BY <1>1, <1>2, <1>4, <1>11, <1>12 DEF PrefixFull
  <2>2. BorderStops'
    <3>1. length' + 1 = p /\ array'[p] = Nil
      BY <1>1, <1>2, <1>4, <1>5, <1>12
    <3> QED
      BY <1>1, <1>4, <3>1 DEF BorderStops, Get, InArray
  <2> QED
    BY <1>8, <1>9, <1>10, <2>1, <2>2 DEF IInv
<1>13. CASE v # Nil
  <2>1. PrefixFull'
    <3> SUFFICES ASSUME NEW i \in 1..n
                 PROVE  array'[i] # Nil
      BY <1>1, <1>13 DEF PrefixFull
    <3> QED
      BY <1>4, <1>5, <1>11, <1>13
  <2>2. BorderStops'
    <3> SUFFICES ASSUME n + 1 \in Index
                 PROVE  Get(n + 1)' = Nil
      BY <1>1, <1>13 DEF BorderStops, Index
    <3>1. Get(n + 1) = Nil /\ n + 1 \in Keys /\ n + 1 > length + 1
      BY <1>1, <1>2 DEF EndsRun, Keys
    <3>2. CASE n + 1 \in 1..c
      <4>1. Get(n + 1)' = array'[n + 1]
        BY <1>1, <3>2 DEF Get, InArray
      <4>2. array'[n + 1] = ArrayOf(c)[n + 1]
        BY <1>2, <1>4, <1>5, <3>1, <3>2
      <4> QED
        BY <1>2, <3>1, <3>2, <4>1, <4>2, GrowthKeepsReads
    <3>3. CASE n + 1 \notin 1..c
      <4>1. Get(n + 1)' = HashBeyond(c)[n + 1]
        BY <1>1, <3>3 DEF Get, InArray
      <4> QED
        BY <1>2, <3>1, <3>3, <4>1, GrowthKeepsReads
    <3> QED
      BY <3>2, <3>3
  <2> QED
    BY <1>8, <1>9, <1>10, <2>1, <2>2 DEF IInv
<1> QED
  BY <1>12, <1>13

\* Where table.insert puts its value is a position of the list or past it.
LEMMA InsertPositionType ==
  ASSUME TypeOK, NEW pos \in Positions
  PROVE  InsertPosition(pos) \in Nat \ {0}
BY HybridAssumption DEF TypeOK, Positions, InsertPosition

\* table.insert keeps the invariant.
LEMMA InsertInv ==
  ASSUME IInv, NEW pos \in Positions, NEW v \in Cells, Insert(pos, v)
  PROVE  IInv'
<1> DEFINE p == InsertPosition(pos)
<1>1. p \in Index /\ p \in Keys /\ result' \in Cells /\ p \in Nat \ {0} /\ length \in Nat
  BY InsertPositionType DEF Insert, Keys, IInv, TypeOK
<1>2. CASE p <= length /\ InsertAt(p, v)
  <2>1. p \in 1..length
    BY <1>1, <1>2
  <2> QED
    BY <1>1, <1>2, <2>1, InsertAtInv
<1>3. CASE Put(p, v)
  BY <1>1, <1>3, PutInv
<1> QED
  BY <1>2, <1>3 DEF Insert

\* Every step keeps the invariant.
LEMMA StepInv == IInv /\ [Next]_vars => IInv'
<1> SUFFICES ASSUME IInv, [Next]_vars
             PROVE  IInv'
  OBVIOUS
<1>1. ASSUME NEW k \in Keys, NEW v \in Cells, Set(k, v)
      PROVE  IInv'
  BY <1>1, PutInv DEF Set, IInv, TypeOK
<1>2. ASSUME NEW pos \in Positions, Remove(pos)
      PROVE  IInv'
  BY <1>2, RemoveInv
<1>3. ASSUME NEW pos \in Positions, NEW v \in Cells, Insert(pos, v)
      PROVE  IInv'
  BY <1>3, InsertInv
<1>4. CASE UNCHANGED vars
  BY <1>4
  DEF vars, IInv, TypeOK, LengthFits, OnePart, PrefixFull, BorderStops, Get, InArray
<1> QED
  BY <1>1, <1>2, <1>3, <1>4 DEF Next

\* The invariant of HybridTable holds in every state it reaches.
THEOREM Invariant == Spec => []IInv
BY InitInv, StepInv, PTL DEF Spec

\* The header words and both parts keep their types.
THEOREM TypeCorrect == Spec => []TypeOK
<1>1. IInv => TypeOK
  BY DEF IInv
<1> QED
  BY <1>1, Invariant, PTL

\* The border stays within the array part, every key up to it is present and
\* the key after it absent: # is right after any sequence of stores, deletions,
\* insertions and removals, though elements wander between the two parts.
THEOREM BorderCorrect == Spec => [](LengthFits /\ BorderRight)
<1>1. IInv => LengthFits /\ BorderRight
  BY DEF IInv, BorderRight
<1> QED
  BY <1>1, Invariant, PTL

\* No key is ever in both parts.
THEOREM OnePartCorrect == Spec => []OnePart
<1>1. IInv => OnePart
  BY DEF IInv
<1> QED
  BY <1>1, Invariant, PTL
-----------------------------------------------------------------------------
\* The refinement: what a program reads from the two parts is a Lua table.

Reads == [k \in Keys |-> Get(k)]

\* The length word of a state with the invariant is a border of what is read.
LEMMA LengthIsBorder == IInv => length \in Lua!Borders(Reads)
<1> SUFFICES ASSUME IInv
             PROVE  length \in Lua!Borders(Reads)
  OBVIOUS
<1>1. length \in 0..MaxIndex /\ capacity \in Nat /\ length <= capacity
  BY DEF IInv, TypeOK, LengthFits
<1>2. length > 0 => Reads[length] # Nil
  BY <1>1, HybridAssumption DEF IInv, PrefixFull, Reads, Get, InArray, Keys, Index
<1>3. length + 1 \in Index => Reads[length + 1] = Nil
  BY DEF IInv, BorderStops, Reads, Keys
<1> QED
  BY <1>1, <1>2, <1>3 DEF Lua!Borders, Lua!IsBorder, Lua!Index, Index

\* The same after a step.
LEMMA NextLengthIsBorder == IInv' => (length \in Lua!Borders(Reads))'
BY LengthIsBorder, PTL

\* A new table reads as the empty one.
LEMMA InitRefines == Init => Lua!Init
BY HybridAssumption
DEF Init, Lua!Init, Lua!Keys, Lua!Index, Keys, Index, Get, InArray

\* Every store, wherever it lands and whatever it moves, changes what is read
\* at its key and nowhere else.
LEMMA PutReads ==
  ASSUME IInv, NEW k \in Keys, NEW v \in Cells, Put(k, v)
  PROVE  Reads' = [Reads EXCEPT ![k] = v]
<1> USE HybridAssumption
<1>1. CASE v = Nil /\ ClearInArray(k)
  BY <1>1 DEF ClearInArray, IInv, TypeOK, Reads, Get, InArray, Keys, Index
<1>2. CASE v # Nil /\ StoreInArray(k, v)
  <2>1. PICK c \in Sizes :
          /\ Covers(c, k) /\ k \in Index
          /\ capacity' = c
          /\ array' = [ArrayOf(c) EXCEPT ![k] = v]
          /\ hash' = HashBeyond(c)
    BY <1>2 DEF StoreInArray
  <2>2. TypeOK /\ ArrayOf(c) \in [1..c -> Cells] /\ c \in Nat
    BY GrowthTypes DEF IInv
  <2>3. k \in 1..c
    BY <2>1, <2>2 DEF Covers, Index
  <2>4. ASSUME NEW j \in Keys
        PROVE  Reads'[j] = [Reads EXCEPT ![k] = v][j]
    <3>1. Reads'[j] = IF j \in 1..c THEN array'[j] ELSE hash'[j]
      BY <2>1 DEF Reads, Get, InArray
    <3>2. [Reads EXCEPT ![k] = v][j] = IF j = k THEN v ELSE Get(j)
      BY DEF Reads
    <3> QED
      BY <2>1, <2>2, <2>3, <3>1, <3>2, GrowthKeepsReads
  <2>5. Reads' = [j \in Keys |-> Reads'[j]]
    BY DEF Reads
  <2> QED
    BY <2>1, <2>4, <2>5 DEF Reads
<1>3. CASE v # Nil /\ k = length + 1 /\ Append(v)
  <2>1. PICK n \in (length + 1)..MaxIndex, c \in Sizes :
          /\ Covers(c, n)
          /\ capacity' = c
          /\ array' = [ArrayOf(c) EXCEPT ![length + 1] = v]
          /\ hash' = HashBeyond(c)
    BY <1>3 DEF Append
  <2>2. TypeOK /\ ArrayOf(c) \in [1..c -> Cells] /\ c \in Nat /\ length \in Nat
    BY GrowthTypes DEF IInv, TypeOK
  <2>3. k \in 1..c
    BY <1>3, <2>1, <2>2 DEF Covers
  <2>4. ASSUME NEW j \in Keys
        PROVE  Reads'[j] = [Reads EXCEPT ![k] = v][j]
    <3>1. Reads'[j] = IF j \in 1..c THEN array'[j] ELSE hash'[j]
      BY <2>1 DEF Reads, Get, InArray
    <3>2. [Reads EXCEPT ![k] = v][j] = IF j = k THEN v ELSE Get(j)
      BY DEF Reads
    <3> QED
      BY <1>3, <2>1, <2>2, <2>3, <3>1, <3>2, GrowthKeepsReads
  <2>5. Reads' = [j \in Keys |-> Reads'[j]]
    BY DEF Reads
  <2> QED
    BY <2>1, <2>4, <2>5 DEF Reads
<1>4. CASE StoreInHash(k, v)
  BY <1>4 DEF StoreInHash, IInv, TypeOK, Reads, Get, InArray
<1> QED
  BY <1>1, <1>2, <1>3, <1>4 DEF Put

\* table.remove takes one element out of what is read and closes the gap.
LEMMA RemoveRefines ==
  ASSUME IInv, IInv', NEW pos \in Positions, Remove(pos)
  PROVE  Lua!Remove(pos)
<1> DEFINE p == RemovePosition(pos)
<1> USE HybridAssumption
<1>0. length \in 0..MaxIndex /\ capacity \in Nat /\ length <= capacity
  BY DEF IInv, TypeOK, LengthFits
<1>1. p = Lua!RemovePosition(pos) /\ p \in 0..length
  BY <1>0 DEF RemovePosition, Lua!RemovePosition, Positions
<1>2. CASE p = 0 /\ result' = Nil /\ UNCHANGED <<capacity, length, array, hash>>
  <2>1. Reads' = Reads
    BY <1>2 DEF Reads, Get, InArray
  <2> QED
    BY <1>1, <1>2, <2>1 DEF Lua!Remove, Reads
<1>3. CASE p > 0 /\ RemoveAt(p)
  <2>1. p \in 1..length /\ p \in Keys
    BY <1>0, <1>1, <1>3 DEF Keys, Index
  <2>2. result' = Reads[p]
    BY <1>0, <1>3, <2>1 DEF RemoveAt, Reads, Get, InArray
  <2>3. ASSUME NEW j \in Keys
        PROVE  Get(j)' = IF j \in p..(length - 1) THEN Reads[j + 1]
                         ELSE IF j = length THEN Nil ELSE Reads[j]
    <3>1. Get(j)' = IF InArray(j) THEN array'[j] ELSE hash[j]
      BY <1>3 DEF RemoveAt, Get, InArray
    <3>2. CASE j \in p..(length - 1)
      <4>1. j + 1 \in Keys /\ j \in 1..capacity /\ j + 1 \in 1..capacity
        BY <1>0, <2>1, <3>2 DEF Keys, Index
      <4> QED
        BY <1>3, <3>1, <3>2, <4>1 DEF RemoveAt, Reads, Get, InArray
    <3>3. CASE j = length
      BY <1>0, <1>3, <2>1, <3>1, <3>3 DEF RemoveAt, InArray
    <3>4. CASE j \notin p..length
      BY <1>0, <1>3, <2>1, <3>1, <3>4 DEF RemoveAt, Reads, Get, InArray
    <3> QED
      BY <1>0, <2>1, <3>2, <3>3, <3>4
  <2>4. Reads' = Lua!CloseGap(Reads, p, length)
    BY <2>3 DEF Reads, Lua!CloseGap, Lua!Keys, Lua!Index, Keys, Index
  <2>5. length' \in Lua!Borders(Reads)'
    BY NextLengthIsBorder
  <2> QED
    BY <1>1, <1>3, <2>2, <2>4, <2>5 DEF Lua!Remove, Reads
<1> QED
  BY <1>2, <1>3 DEF Remove

\* table.insert opens a gap in what is read and puts its value there.
LEMMA InsertRefines ==
  ASSUME IInv, IInv', NEW pos \in Positions, NEW v \in Cells, Insert(pos, v)
  PROVE  Lua!Insert(pos, v)
<1> DEFINE p == InsertPosition(pos)
<1> USE HybridAssumption
<1>0. length \in 0..MaxIndex /\ capacity \in Nat /\ length <= capacity /\ TypeOK
  BY DEF IInv, TypeOK, LengthFits
<1>1. /\ p = Lua!InsertPosition(pos) /\ p \in Index /\ p \in Keys /\ p \in Nat \ {0}
      /\ length + 1 \in Index /\ result' = v
  BY <1>0, InsertPositionType DEF Insert, InsertPosition, Lua!InsertPosition, Keys
<1>2. Reads' = Lua!OpenGap(Reads, p, length, v)
  <2>1. CASE p <= length /\ InsertAt(p, v)
    <3>1. PICK n \in (length + 1)..MaxIndex, c \in Sizes :
            /\ capacity' = c
            /\ Covers(c, n)
            /\ array' = Shifted(ArrayOf(c), p, v)
            /\ hash' = HashBeyond(c)
      BY <2>1 DEF InsertAt
    <3>2. ArrayOf(c) \in [1..c -> Cells] /\ c \in Nat /\ capacity <= c /\ length + 1 \in 1..c
      BY <1>0, <3>1, GrowthTypes DEF Covers
    <3>3. ASSUME NEW j \in Keys
          PROVE  Get(j)' = IF j = p THEN v
                           ELSE IF j \in (p + 1)..(length + 1) THEN Reads[j - 1] ELSE Reads[j]
      <4>1. Get(j)' = IF j \in 1..c THEN array'[j] ELSE HashBeyond(c)[j]
        BY <3>1 DEF Get, InArray
      <4>2. CASE j \in (p + 1)..(length + 1)
        <5>1. j \in 1..c /\ j # p /\ j - 1 \in Keys /\ j - 1 \in 1..capacity
          BY <1>0, <1>1, <2>1, <3>2, <4>2 DEF Keys, Index
        <5>2. array'[j] = array[j - 1]
          BY <3>1, <3>2, <4>2, <5>1 DEF Shifted
        <5>3. Reads[j - 1] = array[j - 1]
          BY <5>1 DEF Reads, Get, InArray
        <5> QED
          BY <4>1, <4>2, <5>1, <5>2, <5>3
      <4>3. CASE j = p
        <5>1. j \in 1..c
          BY <1>0, <1>1, <2>1, <3>2, <4>3
        <5> QED
          BY <3>1, <3>2, <4>1, <4>3, <5>1 DEF Shifted
      <4>4. CASE j # p /\ j \notin (p + 1)..(length + 1)
        <5>1. Reads[j] = Get(j)
          BY DEF Reads
        <5>2. j \in 1..c => array'[j] = ArrayOf(c)[j]
          BY <3>1, <3>2, <4>4 DEF Shifted
        <5> QED
          BY <1>0, <4>1, <4>4, <5>1, <5>2, GrowthKeepsReads
      <4> QED
        BY <4>2, <4>3, <4>4
    <3> QED
      BY <3>3 DEF Reads, Lua!OpenGap, Lua!Keys, Lua!Index, Keys, Index
  <2>2. CASE ~(p <= length) /\ Put(p, v)
    <3>1. Reads' = [Reads EXCEPT ![p] = v]
      BY <1>1, <2>2, PutReads
    <3>2. (p + 1)..(length + 1) = {}
      BY <1>0, <1>1, <2>2
    <3> QED
      BY <1>1, <3>1, <3>2 DEF Reads, Lua!OpenGap, Lua!Keys, Lua!Index, Keys, Index
  <2> QED
    BY <2>1, <2>2 DEF Insert
<1>3. length' \in Lua!Borders(Reads)'
  BY NextLengthIsBorder
<1> QED
  BY <1>1, <1>2, <1>3 DEF Lua!Insert, Lua!Index, Index, Reads

\* HybridTable implements LuaTable: growth, migration and the border kept in
\* one word never show in what a program reads.
THEOREM RefinesLua == Spec => ImplementsLua
<1>1. Init => Lua!Init
  BY InitRefines
<1>2. IInv /\ IInv' /\ [Next]_vars => [Lua!Next]_(Lua!vars)
  <2> SUFFICES ASSUME IInv, IInv', [Next]_vars
               PROVE  [Lua!Next]_(Lua!vars)
    OBVIOUS
  <2>1. ASSUME NEW k \in Keys, NEW v \in Cells, Set(k, v)
        PROVE  Lua!Next
    <3>1. Reads' = [Reads EXCEPT ![k] = v] /\ result' = result
      BY <2>1, PutReads DEF Set
    <3>2. length' \in Lua!Borders(Reads)'
      BY NextLengthIsBorder
    <3>3. Lua!Set(k, v)
      BY <3>1, <3>2 DEF Lua!Set, Reads
    <3> QED
      BY <3>3 DEF Lua!Next, Lua!Keys, Lua!Index, Keys, Index, Cells
  <2>2. ASSUME NEW pos \in Positions, Remove(pos)
        PROVE  Lua!Next
    BY <2>2, RemoveRefines DEF Lua!Next, Lua!Positions, Positions
  <2>3. ASSUME NEW pos \in Positions, NEW v \in Cells, Insert(pos, v)
        PROVE  Lua!Next
    BY <2>3, InsertRefines DEF Lua!Next, Lua!Positions, Positions, Cells
  <2>4. CASE UNCHANGED vars
    BY <2>4 DEF vars, Lua!vars, Get, InArray
  <2> QED
    BY <2>1, <2>2, <2>3, <2>4 DEF Next
<1> QED
  BY <1>1, <1>2, Invariant, PTL DEF Spec, ImplementsLua, Lua!Spec
=============================================================================
