----------------------------- MODULE PairsLoop -----------------------------
(***************************************************************************)
(* `for k, v in pairs(t)` over a table of TableStorage whose fields the    *)
(* loop body changes.  next(t, k) keeps no state (src/runtime/iters.s): it *)
(* finds the key it is given again, in the array part or in the hash part, *)
(* and goes on from there; so what the body does to the storage between    *)
(* two calls decides what the loop sees.                                   *)
(***************************************************************************)
EXTENDS TableStorage

CONSTANTS
  Start, Done,       \* the nil next() is first given, the nil it ends with
  False,             \* the name of the key false
  BodyAssigns        \* may the body assign existing fields, or only clear them?

\* No key is the nil a loop starts or ends with.
ASSUME LoopAssumption ==
  /\ BodyAssigns \in BOOLEAN
  /\ {Start, Done} \cap (Numbers \cup {Normalised(key) : key \in RawNames}) = {}

\* The array part never outgrows its capacity word: whole-number keys stay
\* below half of its range (TableStorage says what happens to one that does).
ASSUME CapacityFits == MinCapacity < CapacityRange /\ 2 * MaxIndex < CapacityRange

VARIABLES
  phase,             \* "outside", "body" of the loop, or "ended"
  cursor,            \* the loop's control variable
  visits,            \* how often each key was handed to the body
  kept,              \* keys live since the loop began
  began              \* the capacity the loop began with

loopVars == <<phase, cursor, visits, kept, began>>
allVars  == <<vars, loopVars>>

Present(key) == Get(Table, key) # Nil

\* The word a number key, or a name, is stored as does not matter to a loop.
Stored == Numbers \cup {key \in RawNames : key = Normalised(key)}

Seens == Index \cup Names

-----------------------------------------------------------------------------
\* Slots from slot s on, in slot order.
FromSlot(s) ==
  LET live == {i \in Slots : i >= s /\ Live(block.slots[i])}
  IN IF live = {} THEN Done
     ELSE block.slots[CHOOSE i \in live : \A j \in live : i <= j].key

\* Array cells after cell i, then the hash part from its first slot.
FromCell(i) ==
  LET live == {j \in (i + 1)..capacity : array[j] # Nil}
  IN IF live = {} THEN FromSlot(1)
     ELSE NumberKey(CHOOSE j \in live : \A h \in live : j <= h)

NextKeySame(key) ==   \* mutant: the scan resumes at the key's own slot
  IF key = Start THEN FromCell(0)
  ELSE IF InArray(Table, key) THEN FromCell(IndexOf(key))
  ELSE IF block = NoBlock THEN Done
  ELSE IF ~Has(block, Normalised(key)) THEN Done
  ELSE FromSlot(Find(block, Normalised(key)))

NextKeyLive(key) ==   \* mutant: a cleared key counts as absent
  IF key = Start THEN FromCell(0)
  ELSE IF InArray(Table, key) THEN FromCell(IndexOf(key))
  ELSE IF block = NoBlock THEN Done
  ELSE IF HashLookup(Table, key) = Nil THEN Done
  ELSE FromSlot(Find(block, Normalised(key)) + 1)

\* __builtin_next
NextKey(key) ==
  IF key = Start THEN FromCell(0)
  ELSE IF InArray(Table, key) THEN FromCell(IndexOf(key))
  ELSE IF block = NoBlock THEN Done
  ELSE IF ~Has(block, Normalised(key)) THEN Done
  ELSE FromSlot(Find(block, Normalised(key)) + 1)

-----------------------------------------------------------------------------
LoopInit ==
  /\ Init
  /\ phase = "outside"
  /\ cursor = Start
  /\ visits = [k \in Seens |-> 0]
  /\ kept = {}
  /\ began = 0

\* Before the loop the program builds the table as it likes.
Build ==
  /\ phase = "outside"
  /\ \E key \in Stored, v \in Cells : Set(key, v)
  /\ UNCHANGED loopVars

\* emit_falsy_jump: the key nil or false ends the loop.
Falsy(key) == key \in {Done, <<"bool", False, "-">>}

\* The loop asks for the next key and runs its body, or ends.  A second visit
\* is enough to know, so visits are counted up to 2.
Advance(key) ==
  /\ cursor' = NextKey(key)
  /\ phase' = IF Falsy(cursor') THEN "ended" ELSE "body"
  /\ visits' = IF Falsy(cursor') \/ visits[Seen(cursor')] = 2 THEN visits
               ELSE [visits EXCEPT ![Seen(cursor')] = @ + 1]
  /\ UNCHANGED vars

Begin ==
  /\ phase = "outside"
  /\ kept' = {Seen(key) : key \in {s \in Stored : Present(s)}}
  /\ began' = capacity
  /\ Advance(Start)

Turn ==
  /\ phase = "body"
  /\ Advance(cursor)
  /\ UNCHANGED <<kept, began>>

\* The body clears a field of the table...
ClearField ==
  /\ phase = "body"
  /\ \E key \in Stored :
       /\ Present(key)
       /\ Set(key, Nil)
       /\ kept' = kept \ {Seen(key)}
  /\ UNCHANGED <<phase, cursor, visits, began>>

\* ... or assigns a field the table has.
AssignField ==
  /\ BodyAssigns
  /\ phase = "body"
  /\ \E key \in Stored, v \in Values : Present(key) /\ Set(key, v)
  /\ UNCHANGED loopVars

\* The program goes on, to build further and loop again.
Leave ==
  /\ phase = "ended"
  /\ phase' = "outside"
  /\ cursor' = Start
  /\ visits' = [k \in Seens |-> 0]
  /\ kept' = {}
  /\ began' = 0
  /\ UNCHANGED vars

LoopNext == Build \/ Begin \/ Turn \/ ClearField \/ AssignField \/ Leave

LoopSpec == LoopInit /\ [][LoopNext]_allVars /\ WF_allVars(Turn)

-----------------------------------------------------------------------------
\* The loop hands no key to its body twice (testing/tables/
\* 09_table_iteration.lua:27).  Lua allows a body to assign existing fields.
VisitedOnce == \A k \in Seens : visits[k] <= 1

\* When the loop ends, every key that was there all along has been visited.
NoneMissed == phase = "ended" => \A k \in kept : visits[k] >= 1

\* Unless the body makes the array part grow, it may clear and assign fields,
\* the current one included, and no key comes twice...
VisitedOnceUngrown == began = capacity => VisitedOnce

\* ... and none of those that stay is missed.
NoneMissedUngrown == began = capacity => NoneMissed

\* A body that adds no field lets the loop end, though growing the array may
\* send it back to the beginning of the hash part.
LoopEnds == phase = "body" ~> phase = "ended"
=============================================================================
