---------------------------- MODULE HybridTable ----------------------------
(***************************************************************************)
(* The two-part table of src/runtime/table.s: an array part for the keys   *)
(* 1..capacity and a hash part for every other key, here known only by     *)
(* what it maps (TableStorage lays it out in slots).  What is modelled is  *)
(* which part a key lives in, when the array grows and takes keys over     *)
(* from the hash part, and how the length word is kept.                    *)
(*                                                                         *)
(* The loop that extends the border is given by its result here;           *)
(* TableStorage has the loop itself, and implements this module.           *)
(***************************************************************************)
EXTENDS Integers

CONSTANTS
  MaxIndex,       \* whole-number keys are 1..MaxIndex
  Names,          \* every other key
  Values, Nil,
  MinCapacity     \* smallest array part (8 in the code)

ASSUME HybridAssumption ==
  /\ MaxIndex \in Nat \ {0}
  /\ MinCapacity \in Nat \ {0}
  /\ Nil \notin Values
  /\ Nil \notin Int
  /\ \A n \in Names : n \notin Int

VARIABLES
  capacity,       \* header word 0: size of the array part
  length,         \* header word 1: the border # reports
  array,          \* header word 2: the array part, 1..capacity
  hash,           \* header word 3: what the hash part maps
  result          \* what the last library call returned

vars == <<capacity, length, array, hash, result>>

Index == 1..MaxIndex
Keys  == Index \cup Names
Cells == Values \cup {Nil}

-----------------------------------------------------------------------------
\* t[k]: the array part for 1..capacity, the hash part for the rest.
InArray(k) == k \in 1..capacity

Get(k) == IF InArray(k) THEN array[k] ELSE hash[k]

\* The largest key the array grows for: twice its size, at least MinCapacity.
GrowLimit == IF 2 * capacity < MinCapacity THEN MinCapacity ELSE 2 * capacity

\* The sizes the array passes through as it doubles, up to the largest one a
\* whole-number key asks for.
Doubled[i \in 0..MaxIndex] == IF i = 0 THEN GrowLimit ELSE 2 * Doubled[i - 1]

MaxCapacity == 2 * MaxIndex + MinCapacity

Sizes == {c \in capacity..MaxCapacity :
            c = capacity \/ \E i \in 0..MaxIndex : c = Doubled[i]}

\* c is the first of them that holds key k.
Covers(c, k) == /\ c \in Sizes /\ k <= c
                /\ \A d \in Sizes : k <= d => c <= d

ArrayNotFilled(c) ==   \* mutant: the new cells stay nil
  [i \in 1..c |-> IF i <= capacity THEN array[i] ELSE Nil]

\* The two parts once the array has c cells: the new range is copied out of
\* the hash part and deleted there (__table_array_grow).
ArrayOf(c) ==
  [i \in 1..c |-> IF i <= capacity THEN array[i]
                  ELSE IF i \in Index THEN hash[i] ELSE Nil]

HashKept(c) == hash    \* mutant: copied, not moved

HashBeyond(c) ==
  [k \in Keys |-> IF k \in (capacity + 1)..c THEN Nil ELSE hash[k]]

-----------------------------------------------------------------------------
Init ==
  /\ capacity = 0
  /\ length = 0
  /\ array = [i \in 1..0 |-> Nil]
  /\ hash = [k \in Keys |-> Nil]
  /\ result = Nil

\* t[k] = nil, k in the array part: a border at or above k comes down below it.
ClearInArray(k) ==
  /\ InArray(k)
  /\ array' = [array EXCEPT ![k] = Nil]
  /\ length' = IF k <= length THEN k - 1 ELSE length
  /\ UNCHANGED <<capacity, hash>>

\* t[k] = v within the array part or its grow limit, away from the border.
StoreInArray(k, v) ==
  /\ k \in Index /\ k <= GrowLimit
  /\ k # length + 1
  /\ UNCHANGED length
  /\ \E c \in Sizes :
       /\ capacity' = c
       /\ Covers(c, k)
       /\ array' = [ArrayOf(c) EXCEPT ![k] = v]
       /\ hash' = HashBeyond(c)

EndsRunInArray(n, k) ==   \* mutant: the hash part is not looked at
  /\ \A i \in (k + 1)..n : Get(i) # Nil
  /\ n + 1 \in 1..capacity => Get(n + 1) = Nil

\* n ends the run of present keys that starts at k, once k is stored.
EndsRun(n, k) ==
  /\ \A i \in (k + 1)..n : Get(i) # Nil
  /\ n + 1 \in Index => Get(n + 1) = Nil

\* t[#t + 1] = v: the border moves to the end of the run of keys that now
\* starts there, wherever they live; the array doubles until it covers them.
Append(v) ==
  \E n \in (length + 1)..MaxIndex, c \in Sizes :
    /\ capacity' = c
    /\ length' = n
    /\ EndsRun(n, length + 1)
    /\ Covers(c, n)
    /\ array' = [ArrayOf(c) EXCEPT ![length + 1] = v]
    /\ hash' = HashBeyond(c)

\* t[k] = v for every other key: the hash part has it, no border moves.
StoreInHash(k, v) ==
  /\ ~InArray(k)
  /\ v # Nil => ~(k \in Index /\ k <= GrowLimit)
  /\ UNCHANGED <<capacity, length, array>>
  /\ hash' = [hash EXCEPT ![k] = v]

Put(k, v) ==
  \/ v = Nil /\ ClearInArray(k)
  \/ v # Nil /\ StoreInArray(k, v)
  \/ v # Nil /\ k = length + 1 /\ Append(v)
  \/ StoreInHash(k, v)

\* t[k] = v by the program
Set(k, v) == UNCHANGED result /\ Put(k, v)

-----------------------------------------------------------------------------
\* table.remove(t, pos): where the element comes from, 0 for nowhere.  Without
\* a position, or past the end, it is the last element.
RemovePosition(pos) ==
  LET p == IF pos = Nil THEN length
           ELSE IF pos < 0 THEN length + pos + 1 ELSE pos
  IN IF p < 1 THEN 0 ELSE IF p > length THEN length ELSE p

\* It shifts the array cells above down by one, clears the last one and takes
\* one off the border.
RemoveAt(p) ==
  /\ result' = array[p]
  /\ array' = [i \in 1..capacity |->
                 IF i \in p..(length - 1) THEN array[i + 1]
                 ELSE IF i = length THEN Nil ELSE array[i]]
  /\ length' = length - 1
  /\ UNCHANGED <<capacity, hash>>

Remove(pos) ==
  LET p == RemovePosition(pos)
  IN \/ p = 0 /\ result' = Nil /\ UNCHANGED <<capacity, length, array, hash>>
     \/ p > 0 /\ RemoveAt(p)

-----------------------------------------------------------------------------
\* table.insert(t, pos, v): after the last element, or before a given one.
InsertPosition(pos) ==
  LET p == IF pos = Nil THEN length + 1
           ELSE IF pos < 0 THEN length + pos + 1 ELSE pos
  IN IF p < 1 THEN 1 ELSE p

\* The cells once p..#t have moved up by one and v is at p.
Shifted(cells, p, v) ==
  [i \in DOMAIN cells |->
     IF i = p THEN v ELSE IF i \in (p + 1)..(length + 1) THEN array[i - 1] ELSE cells[i]]

\* The last element is stored past the border first, which makes it an append;
\* nil put in at p ends the border there.
InsertAt(p, v) ==
  \E n \in (length + 1)..MaxIndex, c \in Sizes :
    /\ capacity' = c
    /\ length' = IF v = Nil THEN p - 1 ELSE n
    /\ EndsRun(n, length + 1)
    /\ Covers(c, n)
    /\ array' = Shifted(ArrayOf(c), p, v)
    /\ hash' = HashBeyond(c)

Insert(pos, v) ==
  LET p == InsertPosition(pos)
  IN /\ length + 1 \in Index /\ p \in Index
     /\ result' = v
     /\ IF p <= length THEN InsertAt(p, v) ELSE Put(p, v)

Positions == {Nil} \cup (-MaxIndex..MaxIndex)

Next ==
  \/ \E k \in Keys, v \in Cells : Set(k, v)
  \/ \E pos \in Positions : Remove(pos)
  \/ \E pos \in Positions, v \in Cells : Insert(pos, v)

Spec == Init /\ [][Next]_vars

-----------------------------------------------------------------------------
\* Each word of the header and both parts hold what they should.
TypeOK ==
  /\ capacity \in Nat
  /\ length \in 0..MaxIndex
  /\ array \in [1..capacity -> Cells]
  /\ hash \in [Keys -> Cells]
  /\ result \in Cells

\* The border never leaves the array part, whatever is set or cleared: the
\* one-word length is a valid bound for every loop that reads the array part
\* directly (table.remove's shift, rawget_int).
LengthFits == length <= capacity

\* A key is never in both parts (comment at src/runtime/table.s:404-405).
OnePart == \A k \in Keys : InArray(k) => hash[k] = Nil

\* Everything from 1 to #t is present: the border is not just any border.
PrefixFull == \A i \in 1..length : array[i] # Nil

\* #t is a border: the key right past it is absent, in either part.
BorderStops == length + 1 \in Index => Get(length + 1) = Nil

\* # is right: everything up to it is there and the next key is not, though
\* keys wander between the two parts and the word is never computed anew.
BorderRight == PrefixFull /\ BorderStops

\* What TLAPS proves inductive (HybridTable_proofs).
IInv == TypeOK /\ LengthFits /\ OnePart /\ PrefixFull /\ BorderStops

\* The two-part table implements the table a program sees: what t[k] reads is
\* what was last stored at k, in spite of every growth and migration.
Lua == INSTANCE LuaTable WITH map <- [k \in Keys |-> Get(k)]

ImplementsLua == Lua!Spec
=============================================================================
