------------------------------ MODULE LuaTable ------------------------------
(***************************************************************************)
(* What a Lua table promises to the program that uses it, whatever its     *)
(* storage: a partial map from keys to values, and a length # that is a    *)
(* border of the map.  HybridTable and TableStorage implement it.          *)
(***************************************************************************)
EXTENDS Integers

CONSTANTS
  MaxIndex,   \* whole-number keys are 1..MaxIndex
  Names,      \* every other key: strings, 0, booleans, tables...
  Values,     \* the values a program stores
  Nil

VARIABLES
  map,        \* key -> value, Nil where the table has no such key
  length,     \* what #t answers
  result      \* what the last library call returned

vars == <<map, length, result>>

Index == 1..MaxIndex
Keys  == Index \cup Names

\* n is a border of m: m[n] is present (or n = 0) and m[n + 1] is absent.
IsBorder(m, n) ==
  /\ n > 0 => m[n] # Nil
  /\ n + 1 \in Index => m[n + 1] = Nil

Borders(m) == {n \in 0..MaxIndex : IsBorder(m, n)}

TypeOK ==
  /\ map \in [Keys -> Values \cup {Nil}]
  /\ length \in 0..MaxIndex
  /\ result \in Values \cup {Nil}

Init ==
  /\ map = [k \in Keys |-> Nil]
  /\ length = 0
  /\ result = Nil

\* t[k] = v: the entry changes, the length is some border of the new map.
Set(k, v) ==
  /\ map' = [map EXCEPT ![k] = v]
  /\ length' \in Borders(map')
  /\ UNCHANGED result

\* Where table.remove takes its element from: the last one when no position is
\* given (Nil) or the position is past the end, a negative position counted
\* back from the end, 0 for none.
RemovePosition(pos) ==
  LET p == IF pos # Nil /\ pos < 0 THEN length + pos + 1 ELSE pos
  IN IF pos = Nil \/ p > length THEN length
     ELSE IF p < 1 THEN 0 ELSE p

\* The map after element p of 1..n is taken out and the rest moved down.
CloseGap(m, p, n) ==
  [k \in Keys |->
     IF k \in p..(n - 1) THEN m[k + 1] ELSE IF k = n THEN Nil ELSE m[k]]

\* table.remove(t, pos)
Remove(pos) ==
  LET p == RemovePosition(pos)
  IN IF p = 0
     THEN result' = Nil /\ UNCHANGED <<map, length>>
     ELSE /\ result' = map[p]
          /\ map' = CloseGap(map, p, length)
          /\ length' \in Borders(map')

\* Where table.insert puts its value: after the last element when no position
\* is given, a negative position counted back from the end; never before 1.
InsertPosition(pos) ==
  LET p == IF pos = Nil THEN length + 1
           ELSE IF pos < 0 THEN length + pos + 1 ELSE pos
  IN IF p < 1 THEN 1 ELSE p

\* The map with p..n moved up and v put in at p.
OpenGap(m, p, n, v) ==
  [k \in Keys |->
     IF k = p THEN v ELSE IF k \in (p + 1)..(n + 1) THEN m[k - 1] ELSE m[k]]

\* table.insert(t, pos, v), as far as the keys reach
Insert(pos, v) ==
  LET p == InsertPosition(pos)
  IN /\ length + 1 \in Index /\ p \in Index
     /\ result' = v
     /\ map' = OpenGap(map, p, length, v)
     /\ length' \in Borders(map')

Positions == {Nil} \cup (-MaxIndex..MaxIndex)

Next ==
  \/ \E k \in Keys, v \in Values \cup {Nil} : Set(k, v)
  \/ \E pos \in Positions : Remove(pos)
  \/ \E pos \in Positions, v \in Values \cup {Nil} : Insert(pos, v)

Spec == Init /\ [][Next]_vars
=============================================================================
